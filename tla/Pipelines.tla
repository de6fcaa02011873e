----------------------------- MODULE Pipelines -----------------------------
(***************************************************************************)
(* What engine.py does inside one execution of a run: _run_demo, and       *)
(* _run_live with its agent loop, evaluator, uploads to Backblaze B2 and   *)
(* fetch-backs.  RunLifecycle has the same execution as one step (Render   *)
(* or RenderRaises) and details what surrounds it.                         *)
(*                                                                         *)
(* An attempt that raises, or is killed with the server, leaves its run    *)
(* failed; a retry starts over, on whatever files and objects are there.   *)
(* AgentLoop, the providers and B2 are external.  A remote write may       *)
(* raise without effect, raise although it took effect, or store other     *)
(* bytes than it was given; MaxFaults bounds such failures and crashes.    *)
(* What a provider answers, and an attempt that is refused or fails before *)
(* its uploads, is not counted.                                            *)
(***************************************************************************)
EXTENDS Naturals, Sequences, FiniteSets

CONSTANTS
  Runs,           \* the runs whose tasks execute
  DemoRuns,       \* those of mode demo
  WeakFirst,      \* demo runs whose brief has inject_weak_first
  Demanding,      \* demo runs whose quality_threshold is above 0.95
  Digests,        \* contents of images
  Draws,          \* Draws[r]: what a live run may draw, a set of Images; for a
                  \* demo run the sequence of its first one and its revision
  Fragile,        \* contents whose PUT may store other bytes
  MaxIterations,  \* AgentLoop's max_iterations (3)
  MaxAttempts,    \* MaxAttempts[r]: executions of r
  MaxOverlap,     \* executions at a time
  MaxFaults,      \* failed calls to B2, and crashes
  CanCrash,       \* whether the server may die
  Nil             \* no image

(* An image and the hash its metadata records: of its bytes, none, or that *)
(* of other bytes.                                                         *)
Images == [digest : Digests, sha : {"right", "none", "wrong"}]

(* A PUT that garbles an object another run is verifying would undo a      *)
(* verification: equal bytes from two image generations are not assumed    *)
(* to meet that fault as well.                                             *)
ASSUME PipelineAssumption ==
  /\ DemoRuns \subseteq Runs
  /\ WeakFirst \subseteq DemoRuns /\ Demanding \subseteq DemoRuns
  /\ \A r \in Runs \ DemoRuns : Draws[r] \subseteq Images
  /\ \A r \in DemoRuns : Draws[r] \in Seq(Images) /\ Len(Draws[r]) = 2
  /\ Fragile \subseteq Digests
  /\ \A r, s \in Runs \ DemoRuns : \A a \in Draws[r], b \in Draws[s] :
       a.digest = b.digest /\ a.digest \in Fragile => r = s
  /\ MaxIterations \in Nat \ {0, 1} /\ MaxFaults \in Nat /\ MaxOverlap \in Nat
  /\ MaxAttempts \in [Runs -> Nat]
  /\ CanCrash \in BOOLEAN
  /\ Nil \notin Images

VARIABLES
  pc,        \* where the execution of each run stands
  attempts,  \* how often it was started
  iters,     \* output.iterations: the image, its recorded hash, the verdict
  calls,     \* failed evaluator calls of the current iteration
  next,      \* the iteration the storage loop is at
  file,      \* the contents that have a file in artifact_dir
  object,    \* the B2 object of each content
  manifest,  \* the B2 manifest of each iteration
  faults     \* failures so far

private == <<attempts, iters, calls, next>>
remote  == <<object, manifest, faults>>
vars    == <<pc, private, file, remote>>

Live(r)    == r \notin DemoRuns
Objects    == {"absent", "good", "bad"}
Iterations == [image : Images \cup {Nil}, passed : BOOLEAN]
Stages     == {"generate", "evaluate", "publish", "preupload", "put", "index",
               "fetch", "confirm"}
PCs        == Stages \cup {"idle", "completed", "failed"}

Unwritten == [i \in 1 .. MaxIterations |-> "absent"]

Executing(r) == pc[r] \in Stages
Final(r)     == iters[r][Len(iters[r])]
Stored(r)    == iters[r][next[r]]

Init ==
  /\ pc       = [r \in Runs |-> "idle"]
  /\ attempts = [r \in Runs |-> 0]
  /\ iters    = [r \in Runs |-> <<>>]
  /\ calls    = [r \in Runs |-> 0]
  /\ next     = [r \in Runs |-> 1]
  /\ file     = {}
  /\ object \in [Digests -> {"absent", "bad"}]
  /\ \A d \in Digests : object[d] = "bad" =>
       \E r \in Runs \ DemoRuns : \E a \in Draws[r] : a.digest = d
  /\ manifest = [r \in Runs |-> Unwritten]
  /\ faults   = 0

Goto(r, stage) == pc' = [pc EXCEPT ![r] = stage]
Fault          == faults < MaxFaults /\ faults' = faults + 1
NoFault        == UNCHANGED faults

(* _run_live is left, through its finally block: the locals are gone, and  *)
(* the staging directory, which nobody else reads, with them.              *)
Leave(r, end) ==
  /\ Goto(r, end)
  /\ calls'  = [calls EXCEPT ![r] = 0]
  /\ next'   = [next EXCEPT ![r] = 1]
  /\ UNCHANGED attempts

(* Mutant: a status of its own, unknown elsewhere.                         *)
RaiseRetrying(r) ==
  /\ Leave(r, "retrying")
  /\ iters'    = [iters EXCEPT ![r] = <<>>]
  /\ manifest' = [manifest EXCEPT ![r] = Unwritten]

(* An exception: nothing names the attempt's iterations and manifests.     *)
Raise(r) ==
  /\ Leave(r, "failed")
  /\ iters'    = [iters EXCEPT ![r] = <<>>]
  /\ manifest' = [manifest EXCEPT ![r] = Unwritten]

Finish(r) == Leave(r, "completed") /\ UNCHANGED <<iters, manifest>>

RemoteRaises(r) == Fault /\ Raise(r) /\ UNCHANGED <<file, object>>

---------------------------------------------------------------------------
(* The agent loop.                                                         *)

(* process, the first time or after a requeue.                             *)
Start(r) ==
  /\ pc[r] \in {"idle", "failed"}
  /\ attempts[r] < MaxAttempts[r]
  /\ Cardinality({s \in Runs : Executing(s)}) < MaxOverlap
  /\ attempts' = [attempts EXCEPT ![r] = @ + 1]
  /\ Goto(r, "generate")
  /\ UNCHANGED <<iters, calls, next, file, remote>>

Draw(r, image) ==
  /\ iters' = [iters EXCEPT ![r] = Append(@, [image |-> image, passed |-> FALSE])]
  /\ Goto(r, "evaluate")
  /\ UNCHANGED <<attempts, calls, next, file, remote>>

(* A demo run draws its brief, which every feedback revises alike.         *)
GenerateDemo(r) ==
  /\ pc[r] = "generate" /\ ~Live(r)
  /\ Draw(r, Draws[r][IF iters[r] = <<>> THEN 1 ELSE 2])

(* The provider draws an image, with or without its hash, or its step      *)
(* fails and the iteration has none.                                       *)
GenerateLive(r) ==
  /\ pc[r] = "generate" /\ Live(r)
  /\ \E image \in Draws[r] \cup {Nil} : Draw(r, image)

(* AgentLoop takes the verdict and stops when it is good, or after         *)
(* max_iterations.                                                         *)
Judged(r, passed) ==
  /\ iters' = [iters EXCEPT ![r][Len(iters[r])].passed = passed]
  /\ calls' = [calls EXCEPT ![r] = 0]
  /\ Goto(r, IF passed \/ Len(iters[r]) = MaxIterations THEN "publish" ELSE "generate")
  /\ UNCHANGED <<attempts, next, manifest>>

(* _run_demo's evaluate: 0.58 for a weak first, 0.95 otherwise.            *)
EvaluateDemo(r) ==
  /\ pc[r] = "evaluate" /\ ~Live(r)
  /\ Judged(r, ~(r \in WeakFirst /\ Len(iters[r]) = 1) /\ r \notin Demanding)
  /\ UNCHANGED <<file, object, faults>>

(* Mutant: the evaluator is asked again for as long as it fails.           *)
HiccupUnbounded(r) ==
  /\ calls' = [calls EXCEPT ![r] = 1 - @]
  /\ UNCHANGED <<pc, attempts, iters, next, manifest>>

(* The evaluator's call fails or its text is no JSON: one retry, then the  *)
(* iteration counts as not passed.                                         *)
Hiccup(r) ==
  IF calls[r] = 1 THEN Judged(r, FALSE)
  ELSE /\ calls' = [calls EXCEPT ![r] = @ + 1]
       /\ UNCHANGED <<pc, attempts, iters, next, manifest>>

(* _run_live's evaluate.  A failed generation costs no evaluator call; an  *)
(* image outside the staging directory, or an assessment without its       *)
(* fields, raises.                                                         *)
EvaluateLive(r) ==
  /\ pc[r] = "evaluate" /\ Live(r)
  /\ IF Final(r).image = Nil THEN Judged(r, FALSE)
     ELSE \/ \E passed \in BOOLEAN : Judged(r, passed)
          \/ Hiccup(r)
          \/ Raise(r)
  /\ UNCHANGED <<file, object, faults>>

---------------------------------------------------------------------------
(* After the loop.                                                         *)

(* Mutant: the best that three iterations gave is good enough.             *)
AcceptableAnyway(r) ==
  Live(r) => Final(r).image # Nil /\ Final(r).image.sha = "right"

(* A live run goes on with a final image that passed and whose bytes have  *)
(* the hash its metadata records; a demo run with whatever it has.         *)
Acceptable(r) ==
  Live(r) => Final(r).image # Nil /\ Final(r).passed /\ Final(r).image.sha = "right"

(* atomic_write_bytes: all or nothing.                                     *)
AtomicWrite(digest) == file' = file \cup {digest}

(* The checks of the loop's output and the canonical file.  A demo run is  *)
(* done with that.  Besides Acceptable, the size and the XML of a demo     *)
(* image are checked and the disk may fail, so either kind may be refused. *)
Publish(r) ==
  /\ pc[r] = "publish"
  /\ \/ /\ NoFault
        /\ Acceptable(r)
        /\ AtomicWrite(Final(r).image.digest)
        /\ IF Live(r) THEN Goto(r, "preupload") /\ UNCHANGED <<private, manifest>>
                      ELSE Finish(r)
     \/ NoFault /\ Raise(r) /\ UNCHANGED file
  /\ UNCHANGED object

(* Mutant: the object is put without looking whether it exists.            *)
PreuploadBlindly(r) ==
  /\ pc[r] = "preupload"
  /\ IF Stored(r).image # Nil /\ Stored(r).image.sha # "wrong"
       THEN Goto(r, "put") /\ UNCHANGED <<private, manifest>>
       ELSE Raise(r)
  /\ UNCHANGED <<file, object, faults>>

(* require_latest_asset of the iteration at hand, which an earlier failed  *)
(* generation does not survive, its hash, and backend.exists.              *)
Preupload(r) ==
  /\ pc[r] = "preupload"
  /\ IF Stored(r).image # Nil /\ Stored(r).image.sha # "wrong"
       THEN \/ /\ NoFault
               /\ Goto(r, IF object[Stored(r).image.digest] = "absent" THEN "put" ELSE "index")
               /\ UNCHANGED <<private, file, object, manifest>>
            \/ RemoteRaises(r)
       ELSE NoFault /\ Raise(r) /\ UNCHANGED <<file, object>>

(* backend.put, when the object was not there.                             *)
Put(r) ==
  LET d == Stored(r).image.digest IN
  /\ pc[r] = "put"
  /\ \/ /\ NoFault /\ object' = [object EXCEPT ![d] = "good"]
        /\ Goto(r, "index") /\ UNCHANGED <<private, manifest>>
     \/ /\ Fault /\ d \in Fragile /\ object' = [object EXCEPT ![d] = "bad"]
        /\ Goto(r, "index") /\ UNCHANGED <<private, manifest>>
     \/ /\ Fault /\ object' \in {object, [object EXCEPT ![d] = "good"]}
        /\ Raise(r)
  /\ UNCHANGED file

(* sink.write_run: the asset is there, the manifest is written.            *)
Index(r) ==
  /\ pc[r] = "index"
  /\ \/ /\ NoFault /\ manifest' = [manifest EXCEPT ![r][next[r]] = "good"]
        /\ Goto(r, "fetch") /\ UNCHANGED private
     \/ /\ Fault /\ manifest' = [manifest EXCEPT ![r][next[r]] = "bad"]
        /\ Goto(r, "fetch") /\ UNCHANGED private
     \/ Fault /\ Raise(r)
  /\ UNCHANGED <<file, object>>

(* Mutant: the manifest is not read back.                                  *)
IntactAsset(r, i) == object[iters[r][i].image.digest] = "good"

(* The object's bytes have the iteration's hash and read_manifest verifies *)
(* the manifest.                                                           *)
Intact(r, i) == object[iters[r][i].image.digest] = "good" /\ manifest[r][i] = "good"

Fetch(r) ==
  /\ pc[r] = "fetch"
  /\ \/ /\ NoFault /\ Intact(r, next[r])
        /\ IF next[r] < Len(iters[r])
             THEN Goto(r, "preupload") /\ next' = [next EXCEPT ![r] = @ + 1]
             ELSE Goto(r, "confirm") /\ UNCHANGED next
        /\ UNCHANGED <<attempts, iters, calls, file, object, manifest>>
     \/ NoFault /\ ~Intact(r, next[r]) /\ Raise(r) /\ UNCHANGED <<file, object>>
     \/ RemoteRaises(r)

(* The final manifest and object once more, then the result.               *)
Confirm(r) ==
  /\ pc[r] = "confirm"
  /\ \/ /\ NoFault
        /\ IF Intact(r, Len(iters[r])) THEN Finish(r) ELSE Raise(r)
        /\ UNCHANGED <<file, object>>
     \/ RemoteRaises(r)

Step(r) ==
  \/ GenerateDemo(r) \/ GenerateLive(r) \/ EvaluateDemo(r) \/ EvaluateLive(r) \/ Publish(r)
  \/ Preupload(r) \/ Put(r) \/ Index(r) \/ Fetch(r) \/ Confirm(r)

(* The server dies: no finally block runs, and the next start fails every  *)
(* run that was executing.                                                 *)
Crash ==
  LET dying == {r \in Runs : Executing(r)} IN
  /\ CanCrash
  /\ dying # {}
  /\ Fault
  /\ pc'       = [r \in Runs |-> IF r \in dying THEN "failed" ELSE pc[r]]
  /\ iters'    = [r \in Runs |-> IF r \in dying THEN <<>> ELSE iters[r]]
  /\ calls'    = [r \in Runs |-> IF r \in dying THEN 0 ELSE calls[r]]
  /\ next'     = [r \in Runs |-> IF r \in dying THEN 1 ELSE next[r]]
  /\ manifest' = [r \in Runs |-> IF r \in dying THEN Unwritten ELSE manifest[r]]
  /\ UNCHANGED <<attempts, file, object>>

Next ==
  \/ \E r \in Runs : Start(r) \/ Step(r)
  \/ Crash

(* A task's thread runs, and every call it makes returns or times out.     *)
Spec == Init /\ [][Next]_vars /\ \A r \in Runs : WF_vars(Step(r))

---------------------------------------------------------------------------
(* Properties.                                                             *)

(* Types of the loop's output, the storage loop, the files and objects.    *)
TypeOK ==
  /\ pc       \in [Runs -> PCs]
  /\ \A r \in Runs : attempts[r] \in 0 .. MaxAttempts[r]
  /\ iters    \in [Runs -> Seq(Iterations)]
  /\ \A r \in Runs : Len(iters[r]) <= MaxIterations
  /\ calls    \in [Runs -> 0 .. 1]
  /\ next     \in [Runs -> 1 .. MaxIterations]
  /\ file     \in SUBSET Digests
  /\ object   \in [Digests -> Objects]
  /\ manifest \in [Runs -> [1 .. MaxIterations -> Objects]]
  /\ faults   \in 0 .. MaxFaults

(* A completed live run names only what can be fetched: the object and the *)
(* manifest of every iteration, and its canonical file ("persists every    *)
(* iteration asset and manifest to Backblaze B2 and fetches every object   *)
(* back before claiming byte integrity").  Damaged objects that were there *)
(* before, and uploads another attempt left half done, do not pass.        *)
ResultIsDurable ==
  \A r \in Runs \ DemoRuns : pc[r] = "completed" =>
    /\ Final(r).image.digest \in file
    /\ \A i \in 1 .. Len(iters[r]) :
         /\ iters[r][i].image # Nil
         /\ object[iters[r][i].image.digest] = "good"
         /\ manifest[r][i] = "good"

(* A completed run met its quality threshold in its last iteration and in  *)
(* no earlier one, except a demo run that asks for more than the demo      *)
(* evaluator ever gives: that one completes after the last iteration, with *)
(* qualityThresholdMet false.                                              *)
QualityIsMet ==
  \A r \in Runs : pc[r] = "completed" =>
    /\ \A i \in 1 .. Len(iters[r]) - 1 : ~iters[r][i].passed
    /\ ~Final(r).passed => r \in Demanding /\ Len(iters[r]) = MaxIterations

(* A stored object is immutable: no retry and no other run replaces good   *)
(* bytes, with the one exception PipelineAssumption makes: a PUT of bytes  *)
(* that two live runs both draw is not garbled.                            *)
ObjectsAreKept ==
  [][\A d \in Digests : object[d] = "good" => object'[d] = "good"]_object

(* An execution ends: it completes, raises or dies with the server.        *)
ExecutionEnds == \A r \in Runs : Executing(r) ~> ~Executing(r)
===========================================================================
