--------------------------- MODULE PublicShowcase ---------------------------
(***************************************************************************)
(* Showcase between its two neighbours.  On one side the live run under    *)
(* review: while operators look at it, create_run may find its file        *)
(* damaged, fail it and have it generated again, and its reviews stay      *)
(* (database.py queue_retry clears the result only).  On the other side    *)
(* the public, which reads the pointer and then the receipt it names       *)
(* (main.py GET /api/showcase, showcase.py load), while publications go on. *)
(***************************************************************************)
EXTENDS Showcase

CONSTANTS
  Visits,         \* the GET requests the public sends
  MaxGeneration   \* results the run is given

ASSUME PublicAssumption == MaxGeneration \in Nat

VARIABLES
  generation,  \* results the run has had so far; each has bytes of its own
  completed,   \* the run is completed, with the latest of them
  spoilt,      \* that one's file is damaged
  viewed,      \* the generation the operator of each review looked at
  sent,        \* the generation in the candidate each approval publishes
  visit,       \* where each GET stands, or how it was answered
  target       \* the pointer it has read

work   == <<generation, completed, spoilt>>
screen == <<viewed, sent>>
public == <<visit, target>>
pvars  == <<vars, work, screen, public>>

Generations == 0 .. MaxGeneration

PInit ==
  /\ Init
  /\ generation = 0 /\ completed = FALSE /\ spoilt = FALSE
  /\ viewed = [r \in Reviews |-> 0]
  /\ sent   = [r \in Reviews |-> 0]
  /\ visit  = [v \in Visits |-> "unsent"]
  /\ target = [v \in Visits |-> Nil]

---------------------------------------------------------------------------
(* The run (RunLifecycle has its steps in full).                           *)

(* complete_run at the end of a live pipeline.                             *)
Complete ==
  /\ up
  /\ ~completed
  /\ generation < MaxGeneration
  /\ generation' = generation + 1
  /\ completed' = TRUE /\ spoilt' = FALSE
  /\ UNCHANGED <<vars, screen, public>>

(* Something outside the program damages the file of the completed run.    *)
Spoil ==
  /\ completed
  /\ spoilt' = TRUE
  /\ UNCHANGED <<vars, generation, completed, screen, public>>

(* create_run's fail_run and queue_retry of a completed run it rejects.    *)
Condemn ==
  /\ up
  /\ completed /\ spoilt
  /\ completed' = FALSE
  /\ UNCHANGED <<vars, generation, spoilt, screen, public>>

---------------------------------------------------------------------------
(* The review.                                                             *)

(* The operator looks at the completed run and sends a review, which names *)
(* the run and no result, and the handler finds the run completed.  It may *)
(* change right after.                                                     *)
View(r) ==
  /\ At(r, "unsent") /\ viewed[r] = 0
  /\ completed
  /\ viewed' = [viewed EXCEPT ![r] = generation]
  /\ UNCHANGED <<vars, work, sent, public>>

Review(r) ==
  /\ viewed[r] > 0
  /\ Approve(r) \/ Reject(r)
  /\ UNCHANGED <<work, screen, public>>

(* The candidate is the run as it is now.                                  *)
Candidate(r) ==
  /\ Snapshot(r)
  /\ pc'[r] = IF completed THEN "enter" ELSE "failed"
  /\ sent' = [sent EXCEPT ![r] = generation]
  /\ UNCHANGED <<work, viewed, public>>

Publish(r) ==
  /\ PublishStep(r) /\ pc[r] # "snapshot"
  /\ UNCHANGED <<work, screen, public>>

---------------------------------------------------------------------------
(* The public.                                                             *)

Answer(v, answer) == visit' = [visit EXCEPT ![v] = answer]

(* load() reads the pointer: 404 when there is none.                       *)
ReadPointer(v) ==
  /\ up /\ visit[v] = "unsent"
  /\ target' = [target EXCEPT ![v] = pointer]
  /\ Answer(v, CASE pointer = Nil     -> "none"
                 [] pointer = Garbage -> "refused"
                 [] OTHER             -> "receipt")
  /\ UNCHANGED <<vars, work, screen>>

(* load() reads the receipt the pointer named and verifies it: 503 if it   *)
(* is not the one.                                                         *)
ReadReceipt(v) ==
  /\ up /\ visit[v] = "receipt"
  /\ Answer(v, IF Loads(target[v]) THEN "shown" ELSE "refused")
  /\ UNCHANGED <<vars, work, screen, target>>

PCrash ==
  /\ Crash
  /\ visit' = [v \in Visits |-> IF visit[v] = "receipt" THEN "dead" ELSE visit[v]]
  /\ UNCHANGED <<work, screen, target>>

---------------------------------------------------------------------------
PublishOne(r) == Candidate(r) \/ Publish(r)

PNext ==
  \/ Complete \/ Spoil \/ Condemn
  \/ \E r \in Reviews : View(r) \/ Review(r) \/ PublishOne(r)
  \/ \E v \in Visits : ReadPointer(v) \/ ReadReceipt(v)
  \/ PCrash
  \/ Restart /\ UNCHANGED <<work, screen, public>>

PFairness == \A r \in Reviews : WF_pvars(PublishOne(r))

PSpec == PInit /\ [][PNext]_pvars /\ PFairness

---------------------------------------------------------------------------
(* Properties.                                                             *)

(* Types of the run, the operators' screens and the public's requests.     *)
PTypeOK ==
  /\ TypeOK
  /\ generation \in Generations
  /\ completed \in BOOLEAN /\ spoilt \in BOOLEAN
  /\ viewed \in [Reviews -> Generations]
  /\ sent   \in [Reviews -> Generations]
  /\ visit  \in [Visits -> {"unsent", "receipt", "none", "refused", "shown", "dead"}]
  /\ target \in [Visits -> Objects]

(* While no call on the store fails, the public is never refused, however  *)
(* publications overlap with its two reads ("A new approval/review for the *)
(* same run must never overwrite the bytes referenced by the current       *)
(* pointer").                                                              *)
VisitorsAreServed ==
  (\A r \in Reviews : faults[r] = 0) => \A v \in Visits : visit[v] # "refused"

(* What the public is shown is a result that some operator looked at and   *)
(* approved ("an operator-approved live receipt and its exact verified     *)
(* asset").                                                                *)
ShownWasViewed ==
  lock = Nil /\ pointer \in Reviews =>
    \E r \in Reviews : status[r] \in {"pending", "published"} /\ viewed[r] = sent[pointer]
===========================================================================
