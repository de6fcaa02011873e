---------------------------- MODULE ServerStart ----------------------------
(***************************************************************************)
(* The start of the server on a data directory: the signing key            *)
(* (config.py), the schema and its migration, and the recovery of          *)
(* interrupted runs (database.py RunStore.__init__).  Starts may overlap,  *)
(* be killed at any step and be tried again.  What a server does once it   *)
(* serves is left out: a second one beside it is not supported, and its    *)
(* death and the next start are Restart in RunLifecycle.                   *)
(*                                                                         *)
(* sqlite3 opens a transaction at the first INSERT, UPDATE or DELETE only, *)
(* so each DDL statement and each SELECT before an UPDATE is on its own.   *)
(* Any statement may find the database locked.  Of the six tables reviews  *)
(* stands for all: the others are created the same way and gain no column. *)
(***************************************************************************)
EXTENDS Naturals

CONSTANTS
  Starts,    \* the starts of the process
  Runs,      \* the runs of earlier processes
  Attempts,  \* LOCK_RETRY_ATTEMPTS (20)
  CanDie,    \* whether a start may be killed
  Nil        \* no file, an unset variable

ASSUME StartAssumption ==
  /\ Attempts \in Nat \ {0}
  /\ CanDie \in BOOLEAN
  /\ Starts \cap {Nil, "short", "earlier"} = {} /\ Nil \notin {"short", "earlier"}

VARIABLES
  keyFile,  \* .signing-key: absent, without its text, or a start's key
  reviews,  \* whether the table exists
  columns,  \* the migrated columns it has
  active,   \* the runs whose status is 'queued' or 'running'
  pc,       \* where each start stands
  key,      \* settings.signing_key
  todo,     \* the columns its snapshot of the table lacked
  rows,     \* the interrupted runs it selected
  tries     \* the attempts of the retry loop it is in

disk  == <<keyFile, reviews, columns, active>>
local == <<key, todo, rows, tries>>
vars  == <<disk, pc, local>>

(* The columns added since the first release, in the order of the code:    *)
(* verified, publication_status, publication_error.                        *)
Columns == 1 .. 3

Keys == Starts \cup {"earlier"}

PCs == {"off", "write", "read", "create", "inspect", "alter", "select",
        "update", "serving", "failed", "killed"}

(* A new directory, or a database that an earlier release left, migrated   *)
(* as far as a start came that was killed, with or without a key.          *)
Init ==
  /\ keyFile \in {Nil, "earlier"}
  /\ reviews \in BOOLEAN
  /\ \E n \in 0 .. 3 : columns = IF reviews THEN 1 .. n ELSE {}
  /\ active \in {IF reviews THEN R ELSE {} : R \in SUBSET Runs}
  /\ pc    = [s \in Starts |-> "off"]
  /\ key   = [s \in Starts |-> Nil]
  /\ todo  = [s \in Starts |-> {}]
  /\ rows  = [s \in Starts |-> {}]
  /\ tries = [s \in Starts |-> 0]

Goto(s, next) == pc' = [pc EXCEPT ![s] = next]

---------------------------------------------------------------------------
(* _load_or_create_signing_key, without a configured key.                  *)

(* Mutant: the key file is opened without O_EXCL.                          *)
OpenKeyShared(s) ==
  /\ pc[s] = "off"
  /\ keyFile' = "short"
  /\ Goto(s, "write")
  /\ UNCHANGED <<reviews, columns, active, local>>

(* os.open with O_CREAT and O_EXCL, or FileExistsError.                    *)
OpenKey(s) ==
  /\ pc[s] = "off"
  /\ IF keyFile = Nil THEN keyFile' = "short" /\ Goto(s, "write")
                      ELSE UNCHANGED keyFile  /\ Goto(s, "read")
  /\ UNCHANGED <<reviews, columns, active, local>>

(* The text reaches the file when the handle is closed.                    *)
WriteKey(s) ==
  /\ pc[s] = "write"
  /\ keyFile' = s
  /\ Goto(s, "read")
  /\ UNCHANGED <<reviews, columns, active, local>>

(* A file with less than 32 characters stops the start.                    *)
ReadKey(s) ==
  /\ pc[s] = "read"
  /\ IF keyFile = "short"
       THEN Goto(s, "failed") /\ UNCHANGED key
       ELSE Goto(s, "create") /\ key' = [key EXCEPT ![s] = keyFile]
  /\ UNCHANGED <<disk, todo, rows, tries>>

---------------------------------------------------------------------------
(* Mutant: one attempt too many.                                           *)
LockedOnceMore(s, again) ==
  /\ tries' = [tries EXCEPT ![s] = @ + 1]
  /\ Goto(s, IF tries[s] = Attempts THEN "failed" ELSE again)
  /\ UNCHANGED <<disk, key, todo, rows>>

(* The retry loops around _initialize_once and                             *)
(* _recover_interrupted_runs_once: the whole step is begun again, and the  *)
(* last attempt's error is raised.                                         *)
Locked(s, again) ==
  /\ tries' = [tries EXCEPT ![s] = @ + 1]
  /\ Goto(s, IF tries[s] + 1 = Attempts THEN "failed" ELSE again)
  /\ UNCHANGED <<disk, key, todo, rows>>

(* WAL and the six CREATE TABLE IF NOT EXISTS, with the columns of this    *)
(* release: one step, as only the columns of reviews matter later and the  *)
(* start after one killed or locked between two of them repeats them all.  *)
CreateTables(s) ==
  /\ pc[s] = "create"
  /\ \/ /\ reviews' = TRUE
        /\ columns' = IF reviews THEN columns ELSE Columns
        /\ Goto(s, "inspect")
        /\ UNCHANGED <<keyFile, active, local>>
     \/ Locked(s, "create")

(* Mutant: a table that has the first column is taken for a migrated one.  *)
InspectFirst(s) ==
  /\ pc[s] = "inspect"
  /\ \/ /\ todo' = [todo EXCEPT ![s] = IF 1 \in columns THEN {} ELSE Columns]
        /\ Goto(s, "alter")
        /\ UNCHANGED <<disk, key, rows, tries>>
     \/ Locked(s, "create")

(* PRAGMA table_info(reviews), once, before the first ALTER.               *)
Inspect(s) ==
  /\ pc[s] = "inspect"
  /\ \/ /\ todo' = [todo EXCEPT ![s] = Columns \ columns]
        /\ Goto(s, "alter")
        /\ UNCHANGED <<disk, key, rows, tries>>
     \/ Locked(s, "create")

(* The first column of the snapshot's gaps.                                *)
IsNext(s, c) == c \in todo[s] /\ \A d \in todo[s] : c <= d

(* Mutant: a duplicate column is an error like any other.                  *)
AlterStrict(s) ==
  /\ pc[s] = "alter"
  /\ todo[s] # {}
  /\ \/ \E c \in Columns \ columns :
          /\ IsNext(s, c)
          /\ columns' = columns \cup {c}
          /\ todo' = [todo EXCEPT ![s] = @ \ {c}]
          /\ UNCHANGED <<keyFile, reviews, active, pc, key, rows, tries>>
     \/ /\ \E c \in columns : IsNext(s, c)
        /\ Goto(s, "failed")
        /\ UNCHANGED <<disk, local>>
     \/ Locked(s, "create")

(* One ALTER TABLE; "duplicate column name" is what a start reads that     *)
(* another one has overtaken, and passes.                                  *)
Alter(s) ==
  /\ pc[s] = "alter"
  /\ todo[s] # {}
  /\ \/ \E c \in Columns :
          /\ IsNext(s, c)
          /\ columns' = columns \cup {c}
          /\ todo' = [todo EXCEPT ![s] = @ \ {c}]
          /\ UNCHANGED <<keyFile, reviews, active, pc, key, rows, tries>>
     \/ Locked(s, "create")

Initialized(s) ==
  /\ pc[s] = "alter"
  /\ todo[s] = {}
  /\ Goto(s, "select")
  /\ tries' = [tries EXCEPT ![s] = 0]
  /\ UNCHANGED <<disk, key, todo, rows>>

---------------------------------------------------------------------------
(* _recover_interrupted_runs_once: SELECT, then a transaction of UPDATEs   *)
(* and INSERTs by id.                                                      *)
SelectInterrupted(s) ==
  /\ pc[s] = "select"
  /\ \/ /\ rows' = [rows EXCEPT ![s] = active]
        /\ Goto(s, "update")
        /\ UNCHANGED <<disk, key, todo, tries>>
     \/ Locked(s, "select")

(* Mutant: the loop ends without raising the last attempt's error.         *)
FailInterruptedOnce(s) ==
  /\ pc[s] = "update"
  /\ \/ active' = active \ rows[s]
     \/ UNCHANGED active
  /\ Goto(s, "serving")
  /\ UNCHANGED <<keyFile, reviews, columns, local>>

FailInterrupted(s) ==
  /\ pc[s] = "update"
  /\ \/ /\ active' = active \ rows[s]
        /\ Goto(s, "serving")
        /\ UNCHANGED <<keyFile, reviews, columns, local>>
     \/ Locked(s, "select")

---------------------------------------------------------------------------
Step(s) ==
  \/ OpenKey(s) \/ WriteKey(s) \/ ReadKey(s)
  \/ CreateTables(s) \/ Inspect(s) \/ Alter(s) \/ Initialized(s)
  \/ SelectInterrupted(s) \/ FailInterrupted(s)

Starting(s) == pc[s] \notin {"off", "serving", "failed", "killed"}

(* The host stops a process that is starting.  What it wrote stays, and a  *)
(* start killed between OpenKey and WriteKey leaves a file without a key.  *)
Kill(s) ==
  /\ CanDie
  /\ Starting(s)
  /\ Goto(s, "killed")
  /\ UNCHANGED <<disk, local>>

Next == \E s \in Starts : Step(s) \/ Kill(s)

Spec == Init /\ [][Next]_vars

---------------------------------------------------------------------------
(* Properties.                                                             *)

(* Types of the key file, the schema and the locals of a start.            *)
TypeOK ==
  /\ keyFile \in Keys \cup {Nil, "short"}
  /\ reviews \in BOOLEAN
  /\ columns \in SUBSET Columns
  /\ active  \in SUBSET Runs
  /\ pc    \in [Starts -> PCs]
  /\ key   \in [Starts -> Keys \cup {Nil}]
  /\ todo  \in [Starts -> SUBSET Columns]
  /\ rows  \in [Starts -> SUBSET Runs]
  /\ tries \in [Starts -> 0 .. Attempts]

(* All servers that come up on a directory, at once or one after the       *)
(* other, hold one key: the tokens of one verify in the next ("Tokens      *)
(* survive restart through a persistent signing key").                     *)
OneKey ==
  \A s, t \in Starts : key[s] # Nil /\ key[t] # Nil => key[s] = key[t]

(* Whoever serves has the whole schema, though starts were killed between  *)
(* two ALTERs and overtook each other between a snapshot and its ALTERs.   *)
ServesMigrated ==
  \A s \in Starts : pc[s] \in {"select", "update", "serving"} =>
    reviews /\ columns = Columns

(* Whoever serves has recovered: no run of an earlier process is left      *)
(* queued or running with nobody to execute it.                            *)
ServesRecovered == \A s \in Starts : pc[s] = "serving" => active = {}

(* A start only gives up on a database that was locked at each attempt, or *)
(* on a key file that another start has yet to write or died writing: an   *)
(* overtaken migration is no reason.                                       *)
FailsForCause ==
  \A s \in Starts : pc[s] = "failed" =>
    \/ tries[s] = Attempts
    \/ key[s] = Nil /\ \E t \in Starts \ {s} : pc[t] # "off"
===========================================================================
