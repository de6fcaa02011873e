------------------------------ MODULE Showcase ------------------------------
(***************************************************************************)
(* Operator review of a completed live run (main.py review) and the        *)
(* durable showcase in Backblaze B2 that an approval publishes             *)
(* (showcase.py B2ShowcaseStore): an immutable receipt object per approval *)
(* and one mutable pointer object, latest.json.                            *)
(*                                                                         *)
(* Every call on the object store is a step, and may fail in one of three  *)
(* ways: it raises and did nothing, it raises though it took effect, or it *)
(* stores other bytes than it was given.  MaxFaults bounds the failures    *)
(* one publication meets; the death of the server during it is one.        *)
(***************************************************************************)
EXTENDS Naturals

CONSTANTS
  Reviews,    \* the review requests operators send
  RunOf,      \* RunOf[r]: the run that review r is of
  MaxFaults,  \* failures per publication
  CanCrash,   \* whether the server may die
  Nil,        \* no pointer object, no lock holder
  Garbage     \* what an object holds that does not parse or hash

ASSUME ShowcaseAssumption ==
  /\ MaxFaults \in Nat
  /\ CanCrash \in BOOLEAN
  /\ Nil \notin Reviews /\ Garbage \notin Reviews /\ Nil # Garbage

VARIABLES
  up,       \* the server process is alive
  status,   \* reviews.publication_status, "none" before the INSERT
  pc,       \* where each request stands
  lock,     \* the thread that holds _publish_lock
  prev,     \* publish's previous_pointer
  receipt,  \* the approval whose receipt the object under each key holds
  pointer,  \* the approval that latest.json points to
  faults    \* failures each publication has met

vars == <<up, status, pc, lock, prev, receipt, pointer, faults>>

Objects  == Reviews \cup {Nil, Garbage}

(* Mutant: the receipts of a run share one key, as in schema version 1.    *)
ReceiptKeyOfRun(r) == CHOOSE s \in Reviews : TRUE

(* A receipt's key is the hash of its bytes, and those show the approval   *)
(* as published, so no two approvals share one.                            *)
ReceiptKey(r) == r

Critical == {"receipt", "check", "point", "load", "rollback"}
PCs      == Critical \cup
            {"unsent", "snapshot", "enter", "published", "failed", "done", "dead"}

Init ==
  /\ up = TRUE
  /\ status  = [r \in Reviews |-> "none"]
  /\ pc      = [r \in Reviews |-> "unsent"]
  /\ lock    = Nil
  /\ prev    = [r \in Reviews |-> Nil]
  /\ receipt = [r \in Reviews |-> Nil]
  /\ pointer = Nil
  /\ faults  = [r \in Reviews |-> 0]

At(r, here)   == up /\ pc[r] = here
Goto(r, next) == pc' = [pc EXCEPT ![r] = next]
NoFault       == UNCHANGED faults
Fault(r)      == /\ faults[r] < MaxFaults
                 /\ faults' = [faults EXCEPT ![r] = @ + 1]

---------------------------------------------------------------------------
(* The review handler.                                                     *)

(* add_review with publication_status 'pending'.                           *)
Approve(r) ==
  /\ At(r, "unsent")
  /\ status' = [status EXCEPT ![r] = "pending"]
  /\ Goto(r, "snapshot")
  /\ UNCHANGED <<up, lock, prev, receipt, pointer, faults>>

(* Mutant: a rejection has a status of its own, unknown elsewhere.         *)
RejectWithdrawn(r) ==
  /\ At(r, "unsent")
  /\ status' = [status EXCEPT ![r] = "withdrawn"]
  /\ Goto(r, "done")
  /\ UNCHANGED <<up, lock, prev, receipt, pointer, faults>>

(* add_review of a rejection: nothing is published or withdrawn.           *)
Reject(r) ==
  /\ At(r, "unsent")
  /\ status' = [status EXCEPT ![r] = "not_requested"]
  /\ Goto(r, "done")
  /\ UNCHANGED <<up, lock, prev, receipt, pointer, faults>>

(* store.get of the candidate and publish's _validate_run, before the      *)
(* lock.  The run may have left 'completed' since the handler looked.      *)
Snapshot(r) ==
  /\ At(r, "snapshot")
  /\ Goto(r, "enter") \/ Goto(r, "failed")
  /\ UNCHANGED <<up, status, lock, prev, receipt, pointer, faults>>

---------------------------------------------------------------------------
(* B2ShowcaseStore.publish.                                                *)

(* Mutant: no publication lock.                                            *)
EnterUnlocked(r) ==
  /\ At(r, "enter")
  /\ \/ NoFault  /\ lock' = r /\ prev' = [prev EXCEPT ![r] = pointer] /\ Goto(r, "receipt")
     \/ Fault(r) /\ UNCHANGED <<lock, prev>> /\ Goto(r, "failed")
  /\ UNCHANGED <<up, status, receipt, pointer>>

(* Take _publish_lock and read the pointer.  A failed read is outside the  *)
(* try block: nothing to roll back.                                        *)
Enter(r) ==
  /\ At(r, "enter")
  /\ lock = Nil
  /\ \/ NoFault  /\ lock' = r /\ prev' = [prev EXCEPT ![r] = pointer] /\ Goto(r, "receipt")
     \/ Fault(r) /\ UNCHANGED <<lock, prev>> /\ Goto(r, "failed")
  /\ UNCHANGED <<up, status, receipt, pointer>>

(* A PUT of an object now holding "before": what it holds afterwards and   *)
(* where the thread goes.                                                  *)
Put(r, object, before, given, garbled, next, raised) ==
  \/ NoFault  /\ object = given   /\ Goto(r, next)
  \/ Fault(r) /\ object = before  /\ Goto(r, raised)
  \/ Fault(r) /\ object = given   /\ Goto(r, raised)
  \/ Fault(r) /\ object = garbled /\ Goto(r, next)

PutReceipt(r) ==
  /\ At(r, "receipt")
  /\ \E object \in Objects :
       /\ Put(r, object, receipt[ReceiptKey(r)], r, Garbage, "check", "rollback")
       /\ receipt' = [receipt EXCEPT ![ReceiptKey(r)] = object]
  /\ UNCHANGED <<up, status, lock, prev, pointer>>

(* The receipt's fetch-back.                                               *)
CheckReceipt(r) ==
  /\ At(r, "check")
  /\ \/ NoFault  /\ Goto(r, IF receipt[ReceiptKey(r)] = r THEN "point" ELSE "rollback")
     \/ Fault(r) /\ Goto(r, "rollback")
  /\ UNCHANGED <<up, status, lock, prev, receipt, pointer>>

PutPointer(r) ==
  /\ At(r, "point")
  /\ \E object \in Objects :
       /\ Put(r, object, pointer, r, Garbage, "load", "rollback")
       /\ pointer' = object
  /\ UNCHANGED <<up, status, lock, prev, receipt>>

(* load(): pointer and receipt are read and verified.                      *)
Loads(p) == p \in Reviews /\ receipt[ReceiptKey(p)] = p

(* Mutant: the pointer's fetch-back is not verified.                       *)
VerifiedByPresence(r) == pointer # Nil

(* The pointer's fetch-back compares the id of the run it leads to, and    *)
(* not the receipt: another approval of the same run would do.             *)
Verified(r) == Loads(pointer) /\ RunOf[pointer] = RunOf[r]

Load(r) ==
  /\ At(r, "load")
  /\ \/ NoFault /\ Verified(r)  /\ Goto(r, "published") /\ lock' = Nil
     \/ NoFault /\ ~Verified(r) /\ Goto(r, "rollback")  /\ UNCHANGED lock
     \/ Fault(r) /\ Goto(r, "rollback") /\ UNCHANGED lock
  /\ UNCHANGED <<up, status, prev, receipt, pointer>>

(* Mutant: the exception is re-raised without restoring the pointer.       *)
RollbackNothing(r) ==
  /\ At(r, "rollback")
  /\ Goto(r, "failed")
  /\ lock' = Nil
  /\ UNCHANGED <<up, status, prev, receipt, pointer, faults>>

(* Mutant: the lock is taken by hand and an exception keeps it.            *)
RollbackLocked(r) ==
  /\ At(r, "rollback")
  /\ pointer' = prev[r]
  /\ Goto(r, "failed")
  /\ UNCHANGED <<up, status, lock, prev, receipt, faults>>

(* The except block puts the previous pointer back, or deletes the first   *)
(* one; leaving it releases the lock and the exception reaches the         *)
(* handler, its own failure included.                                      *)
Rollback(r) ==
  /\ At(r, "rollback")
  /\ \E object \in Objects :
       /\ Put(r, object, pointer, prev[r],
              IF prev[r] = Nil THEN Nil ELSE Garbage, "failed", "failed")
       /\ pointer' = object
  /\ lock' = Nil
  /\ UNCHANGED <<up, status, prev, receipt>>

(* set_review_publication, on either outcome.                              *)
Record(r) ==
  /\ pc[r] \in {"published", "failed"} /\ up
  /\ status' = [status EXCEPT ![r] = pc[r]]
  /\ Goto(r, "done")
  /\ UNCHANGED <<up, lock, prev, receipt, pointer, faults>>

PublishStep(r) ==
  \/ Snapshot(r) \/ Enter(r) \/ PutReceipt(r) \/ CheckReceipt(r)
  \/ PutPointer(r) \/ Load(r) \/ Rollback(r) \/ Record(r)

---------------------------------------------------------------------------
InFlight(r) == pc[r] \notin {"unsent", "done", "dead"}

(* The server dies: the requests it served are never answered, a pending   *)
(* review stays pending.                                                   *)
Crash ==
  /\ CanCrash
  /\ up
  /\ up' = FALSE
  /\ pc' = [r \in Reviews |-> IF InFlight(r) THEN "dead" ELSE pc[r]]
  /\ IF lock = Nil THEN NoFault ELSE Fault(lock)
  /\ lock' = Nil
  /\ UNCHANGED <<status, prev, receipt, pointer>>

Restart ==
  /\ ~up
  /\ up' = TRUE
  /\ UNCHANGED <<status, pc, lock, prev, receipt, pointer, faults>>

Next ==
  \/ \E r \in Reviews : Approve(r) \/ Reject(r)
  \/ \E r \in Reviews : PublishStep(r)
  \/ Crash
  \/ Restart

(* A handler thread runs, and every call on the store returns or raises.   *)
Fairness == \A r \in Reviews : WF_vars(PublishStep(r))

Spec == Init /\ [][Next]_vars /\ Fairness

---------------------------------------------------------------------------
(* Properties.                                                             *)

(* Types of the review rows, the B2 objects and publish's locals.          *)
TypeOK ==
  /\ up \in BOOLEAN
  /\ status  \in [Reviews -> {"none", "not_requested", "pending", "published", "failed"}]
  /\ pc      \in [Reviews -> PCs]
  /\ lock    \in Reviews \cup {Nil}
  /\ prev    \in [Reviews -> Objects]
  /\ receipt \in [Reviews -> Objects]
  /\ pointer \in Objects
  /\ faults  \in [Reviews -> 0 .. MaxFaults]

(* An approval recorded as failed is not the public showcase ("Failed B2   *)
(* pointer publication remains explicitly unpublished ... without becoming *)
(* a false public approval").                                              *)
FailedIsUnpublished ==
  \A r \in Reviews : status[r] = "failed" => pointer # r

(* Whenever no publication is under way, the public showcase is empty or   *)
(* loads: publish never leaves a pointer that does not verify.             *)
ShowcaseLoads == lock = Nil => pointer = Nil \/ Loads(pointer)

(* An approval is not left pending, unless its request died with the       *)
(* server: no fault makes publish hang or keep the lock.                   *)
PublicationSettles ==
  \A r \in Reviews :
    status[r] = "pending" ~> status[r] # "pending" \/ pc[r] = "dead"

(* The showcase is the register that ShowcaseRegister specifies: what is   *)
(* shown is the pointer, or the previous one while publish has not yet     *)
(* verified its own.                                                       *)
Register == INSTANCE ShowcaseRegister WITH
  shown   <- IF lock = Nil THEN pointer ELSE prev[lock],
  outcome <- [r \in Reviews |->
    CASE pc[r] = "dead" -> "lost"
      [] pc[r] = "published" \/ (pc[r] = "done" /\ status[r] = "published") -> "shown"
      [] pc[r] = "failed" \/ (pc[r] = "done" /\ status[r] # "published") -> "refused"
      [] OTHER -> "open"]

(* Publication implements the register.                                    *)
PublishIsAtomic == Register!Spec
===========================================================================
