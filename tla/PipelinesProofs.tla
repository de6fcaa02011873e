------------------------- MODULE PipelinesProofs -------------------------
(* Theorems about Pipelines, for any runs, draws, overlaps and faults.     *)
EXTENDS Pipelines, SequenceTheorems, TLAPS

Storing == {"preupload", "put", "index", "fetch"}

(* What the stage of a run says of its locals.                             *)
Shape(r) ==
  /\ pc[r] \in {"idle", "failed"} => iters[r] = <<>>
  /\ pc[r] = "generate" => Len(iters[r]) < MaxIterations
  /\ pc[r] \notin {"idle", "failed", "generate"} => Len(iters[r]) >= 1
  /\ pc[r] \in Storing => next[r] <= Len(iters[r])
  /\ pc[r] \notin Storing \cup {"confirm"} => next[r] = 1
  /\ pc[r] \in Storing \cup {"confirm"} => Live(r)

(* A run has what it drew, and stores only images.                         *)
Drawable(r) == IF Live(r) THEN Draws[r] \cup {Nil} ELSE Images

Drawn(r) ==
  /\ \A i \in 1 .. Len(iters[r]) : iters[r][i].image \in Drawable(r)
  /\ pc[r] \in Storing \ {"preupload"} => Stored(r).image # Nil

(* The loop goes on only after a failed verdict; a live run is stored only *)
(* after a good one.                                                       *)
Verdicts(r) ==
  /\ pc[r] \in {"generate", "evaluate"} =>
       \A i \in 1 .. Len(iters[r]) : ~iters[r][i].passed
  /\ \A i \in 1 .. Len(iters[r]) - 1 : ~iters[r][i].passed
  /\ pc[r] \in {"publish", "completed"} /\ ~Final(r).passed =>
       Len(iters[r]) = MaxIterations /\ (~Live(r) => r \in Demanding)
  /\ Live(r) /\ pc[r] \in Storing \cup {"confirm", "completed"} => Final(r).passed

(* Iteration i of r can be fetched.                                        *)
Durable(r, i) ==
  /\ iters[r][i].image # Nil
  /\ object[iters[r][i].image.digest] = "good"
  /\ manifest[r][i] = "good"

(* The iterations that were fetched back stay what they were.              *)
Fetched(r) ==
  /\ pc[r] \in Storing => \A i \in 1 .. next[r] - 1 : Durable(r, i)
  /\ pc[r] \in {"confirm", "completed"} /\ Live(r) =>
       \A i \in 1 .. Len(iters[r]) : Durable(r, i)
  /\ pc[r] \in Storing \cup {"confirm", "completed"} /\ Live(r) =>
       Final(r).image.digest \in file

(* A run that is about to put bytes which may be garbled found no object.  *)
PutsAnew(r) ==
  pc[r] = "put" /\ Stored(r).image.digest \in Fragile =>
    object[Stored(r).image.digest] # "good"

Inv(r) == Shape(r) /\ Drawn(r) /\ Verdicts(r) /\ Fetched(r) /\ PutsAnew(r)

Types ==
  /\ TypeOK
  /\ attempts \in [Runs -> Nat]
  /\ \A r \in Runs : calls[r] = 1 => pc[r] = "evaluate"

IInv == Types /\ \A r \in Runs : Inv(r)

---------------------------------------------------------------------------
(* The loop's output.                                                      *)

LEMMA AppendedIteration ==
  ASSUME NEW s \in Seq(Iterations), NEW x \in Iterations
  PROVE  /\ Append(s, x) \in Seq(Iterations)
         /\ Len(Append(s, x)) = Len(s) + 1
         /\ \A i \in 1 .. Len(s) : Append(s, x)[i] = s[i]
         /\ Append(s, x)[Len(s) + 1] = x
  BY AppendProperties

LEMMA VerdictGiven ==
  ASSUME NEW s \in Seq(Iterations), Len(s) >= 1, NEW p \in BOOLEAN,
         NEW t, t = [s EXCEPT ![Len(s)].passed = p]
  PROVE  /\ t \in Seq(Iterations)
         /\ Len(t) = Len(s)
         /\ \A i \in 1 .. Len(s) - 1 : t[i] = s[i]
         /\ \A i \in 1 .. Len(s) : t[i].image = s[i].image
         /\ t[Len(s)].passed = p
<1> DEFINE e == [s[Len(s)] EXCEPT !.passed = p]
<1>1. Len(s) \in 1 .. Len(s) /\ s[Len(s)] \in Iterations OBVIOUS
<1>2. e \in Iterations /\ e.image = s[Len(s)].image /\ e.passed = p
  BY <1>1 DEF Iterations
<1>3. t = [s EXCEPT ![Len(s)] = e] OBVIOUS
<1> HIDE DEF e
<1>4. /\ t \in Seq(Iterations) /\ Len(t) = Len(s)
      /\ \A j \in 1 .. Len(s) : t[j] = IF j = Len(s) THEN e ELSE s[j]
  BY <1>1, <1>2, <1>3, ExceptSeq
<1> QED BY <1>1, <1>2, <1>4

---------------------------------------------------------------------------
(* Types.                                                                  *)

LEMMA InitTypes == Init => Types
  BY PipelineAssumption DEF Init, Types, TypeOK, PCs, Stages, Objects, Unwritten

LEMMA LeaveTypes ==
  ASSUME Types, NEW r \in Runs, NEW end \in {"completed", "failed"}, Leave(r, end)
  PROVE  /\ pc' \in [Runs -> PCs] /\ calls' \in [Runs -> 0 .. 1]
         /\ next' \in [Runs -> 1 .. MaxIterations]
         /\ \A s \in Runs : calls'[s] = 1 => pc'[s] = "evaluate"
  BY PipelineAssumption DEF Leave, Goto, Types, TypeOK, PCs

LEMMA RaiseTypes ==
  ASSUME Types, NEW r \in Runs, Raise(r),
         file' \in SUBSET Digests, object' \in [Digests -> Objects],
         faults' \in 0 .. MaxFaults
  PROVE  Types'
<1>1. /\ iters' \in [Runs -> Seq(Iterations)]
      /\ \A s \in Runs : Len(iters'[s]) <= MaxIterations
  BY PipelineAssumption DEF Raise, Types, TypeOK
<1>2. manifest' \in [Runs -> [1 .. MaxIterations -> Objects]]
  BY DEF Raise, Types, TypeOK, Unwritten, Objects
<1>3. UNCHANGED attempts BY DEF Raise, Leave
<1>4. Leave(r, "failed") BY DEF Raise
<1> QED BY <1>1, <1>2, <1>3, <1>4, LeaveTypes DEF Types, TypeOK

LEMMA FinishTypes ==
  ASSUME Types, NEW r \in Runs, Finish(r),
         file' \in SUBSET Digests, UNCHANGED <<object, faults>>
  PROVE  Types'
<1>1. Leave(r, "completed") /\ UNCHANGED <<attempts, iters, manifest>>
  BY DEF Finish, Leave
<1> QED BY <1>1, LeaveTypes DEF Types, TypeOK

LEMMA JudgedTypes ==
  ASSUME Types, NEW r \in Runs, NEW p \in BOOLEAN, Judged(r, p),
         Len(iters[r]) >= 1, UNCHANGED <<file, object, faults>>
  PROVE  Types'
<1> DEFINE t == [iters[r] EXCEPT ![Len(iters[r])].passed = p]
<1>1. iters' = [iters EXCEPT ![r] = t] BY DEF Judged
<1>2. t \in Seq(Iterations) /\ Len(t) = Len(iters[r])
  <2>1. iters[r] \in Seq(Iterations) BY DEF Types, TypeOK
  <2> HIDE DEF t
  <2>2. t = [iters[r] EXCEPT ![Len(iters[r])].passed = p] BY DEF t
  <2> QED BY <2>1, <2>2, VerdictGiven
<1> HIDE DEF t
<1>3. /\ iters' \in [Runs -> Seq(Iterations)]
      /\ \A s \in Runs : Len(iters'[s]) <= MaxIterations
  BY <1>1, <1>2 DEF Types, TypeOK
<1>4. /\ pc' \in [Runs -> PCs] /\ calls' \in [Runs -> 0 .. 1]
      /\ \A s \in Runs : calls'[s] = 1 => pc'[s] = "evaluate"
  BY DEF Judged, Goto, Types, TypeOK, PCs, Stages
<1> QED BY <1>3, <1>4 DEF Judged, Types, TypeOK

LEMMA DrawTypes ==
  ASSUME Types, NEW r \in Runs, NEW image \in Images \cup {Nil}, Draw(r, image),
         pc[r] = "generate", Len(iters[r]) < MaxIterations
  PROVE  Types'
<1> DEFINE x == [image |-> image, passed |-> FALSE]
<1>1. x \in Iterations BY DEF Iterations
<1> HIDE DEF x
<1>2. iters' = [iters EXCEPT ![r] = Append(iters[r], x)] BY DEF Draw, x
<1>3. Append(iters[r], x) \in Seq(Iterations) /\ Len(Append(iters[r], x)) = Len(iters[r]) + 1
  BY <1>1, AppendedIteration DEF Types, TypeOK
<1>4. /\ iters' \in [Runs -> Seq(Iterations)]
      /\ \A s \in Runs : Len(iters'[s]) <= MaxIterations
  BY <1>2, <1>3, PipelineAssumption DEF Types, TypeOK
<1> QED BY <1>4 DEF Draw, Goto, remote, Types, TypeOK, PCs, Stages

---------------------------------------------------------------------------
(* What an execution leaves alone.                                         *)

(* A step of r moves only r, takes no file away, and touches only the      *)
(* object it puts.                                                         *)
Alone(r) ==
  /\ \A s \in Runs \ {r} :
       /\ pc'[s] = pc[s] /\ iters'[s] = iters[s]
       /\ next'[s] = next[s] /\ manifest'[s] = manifest[s]
  /\ file \subseteq file'
  /\ \A d \in Digests : object'[d] # object[d] =>
       /\ pc[r] = "put" /\ d = Stored(r).image.digest
       /\ object'[d] = "good" \/ d \in Fragile

LEMMA DrawnImages ==
  ASSUME IInv, NEW r \in Runs, pc[r] \in Storing, NEW i \in 1 .. next[r],
         iters[r][i].image # Nil
  PROVE  /\ r \notin DemoRuns /\ iters[r][i].image \in Draws[r]
         /\ iters[r][i].image.digest \in Digests
<1>1. Shape(r) /\ Drawn(r) /\ next[r] \in Nat /\ Len(iters[r]) \in Nat
  BY PipelineAssumption DEF IInv, Inv, Types, TypeOK
<1>2. i \in 1 .. Len(iters[r]) BY <1>1 DEF Shape
<1>3. r \notin DemoRuns /\ iters[r][i].image \in Draws[r]
  BY <1>1, <1>2 DEF Shape, Drawn, Drawable, Live, Storing
<1> QED BY <1>3, PipelineAssumption DEF Images

LEMMA StoredImage ==
  ASSUME IInv, NEW r \in Runs, pc[r] \in Storing, Stored(r).image # Nil
  PROVE  /\ r \notin DemoRuns /\ Stored(r).image \in Draws[r]
         /\ Stored(r).image.digest \in Digests
<1>1. next[r] \in 1 .. next[r] BY PipelineAssumption DEF IInv, Types, TypeOK
<1> QED BY <1>1, DrawnImages DEF Stored

(* Good objects stay good: what is put anew was not there.                 *)
LEMMA GoodKept ==
  ASSUME IInv, NEW r \in Runs, Alone(r), NEW d \in Digests, object[d] = "good"
  PROVE  object'[d] = "good"
  BY DEF IInv, Inv, PutsAnew, Alone

LEMMA OthersKept ==
  ASSUME IInv, NEW r \in Runs, Alone(r), NEW s \in Runs \ {r}
  PROVE  Inv(s)'
<1>1. /\ pc'[s] = pc[s] /\ iters'[s] = iters[s]
      /\ next'[s] = next[s] /\ manifest'[s] = manifest[s]
      /\ Inv(s)
  BY DEF Alone, IInv
<1>2. Shape(s)' /\ Drawn(s)' /\ Verdicts(s)'
  BY <1>1 DEF Inv, Shape, Drawn, Drawable, Verdicts, Stored, Final, Live
<1>3. Fetched(s)'
  <2>1. ASSUME NEW i \in 1 .. Len(iters[s]), Live(s), Durable(s, i) PROVE Durable(s, i)'
    <3>1. iters[s][i].image.digest \in Digests
      BY <1>1, <2>1, PipelineAssumption DEF Inv, Drawn, Drawable, Live, Images, Durable
    <3> QED BY <1>1, <2>1, <3>1, GoodKept DEF Durable
  <2>2. pc[s] \in Storing => \A i \in 1 .. next[s] - 1 : Durable(s, i)'
    <3>1. SUFFICES ASSUME pc[s] \in Storing, NEW i \in 1 .. next[s] - 1 PROVE Durable(s, i)'
      OBVIOUS
    <3>2. i \in 1 .. Len(iters[s]) /\ Live(s)
      BY <1>1, <3>1, PipelineAssumption DEF Inv, Shape, IInv, Types, TypeOK
    <3> QED BY <1>1, <2>1, <3>1, <3>2 DEF Inv, Fetched
  <2> QED BY <1>1, <2>1, <2>2 DEF Inv, Fetched, Alone, Final, Live
<1>4. PutsAnew(s)'
  <2>1. SUFFICES ASSUME pc[s] = "put", Stored(s).image.digest \in Fragile
                 PROVE  object'[Stored(s).image.digest] # "good"
    BY <1>1 DEF PutsAnew, Stored
  <2> DEFINE d == Stored(s).image.digest
  <2>2. object[d] # "good" BY <1>1, <2>1 DEF Inv, PutsAnew
  <2>3. Stored(s).image # Nil BY <1>1, <2>1 DEF Inv, Drawn, Storing
  <2>4. s \notin DemoRuns /\ Stored(s).image \in Draws[s] /\ d \in Digests
    BY <2>1, <2>3, StoredImage DEF Storing
  <2>5. CASE object'[d] = object[d] BY <2>2, <2>5
  <2>6. CASE object'[d] # object[d]
    <3>1. pc[r] = "put" /\ Stored(r).image.digest = d BY <2>4, <2>6 DEF Alone
    <3>2. Stored(r).image # Nil BY <3>1 DEF IInv, Inv, Drawn, Storing
    <3>3. r \notin DemoRuns /\ Stored(r).image \in Draws[r]
      BY <3>1, <3>2, StoredImage DEF Storing
    <3>4. r = s BY <2>1, <2>4, <3>1, <3>3, PipelineAssumption
    <3> QED BY <3>4
  <2> QED BY <2>5, <2>6
<1> QED BY <1>2, <1>3, <1>4 DEF Inv

---------------------------------------------------------------------------
(* What an execution does.                                                 *)

Sound(r) == Types' /\ Alone(r) /\ Inv(r)'

(* How a step may end an attempt, and the objects it may leave.            *)
Objected(r) ==
  /\ object' \in [Digests -> Objects]
  /\ \A d \in Digests : object'[d] # object[d] =>
       pc[r] = "put" /\ d = Stored(r).image.digest /\ object'[d] = "good"

LEMMA RaiseSound ==
  ASSUME IInv, NEW r \in Runs, Raise(r), file' = file, Objected(r), faults' \in 0 .. MaxFaults
  PROVE  Sound(r)
<1>1. Types' BY RaiseTypes DEF IInv, Types, TypeOK, Objected
<1>2. Alone(r)
  BY DEF Alone, Raise, Leave, Goto, Objected, IInv, Types, TypeOK
<1>3. pc'[r] = "failed" /\ iters'[r] = <<>> /\ next'[r] = 1
  BY DEF Raise, Leave, Goto, IInv, Types, TypeOK
<1>4. Inv(r)'
  BY <1>3 DEF Inv, Shape, Drawn, Drawable, Verdicts, Fetched, PutsAnew, Storing
<1> QED BY <1>1, <1>2, <1>4 DEF Sound

LEMMA RemoteRaisesSound ==
  ASSUME IInv, NEW r \in Runs, RemoteRaises(r)
  PROVE  Sound(r)
<1>1. Objected(r) BY DEF RemoteRaises, Objected, IInv, Types, TypeOK
<1>2. faults' \in 0 .. MaxFaults
  BY PipelineAssumption DEF RemoteRaises, Fault, IInv, Types, TypeOK
<1> QED BY <1>1, <1>2, RaiseSound DEF RemoteRaises

LEMMA CheckRaisesSound ==
  ASSUME IInv, NEW r \in Runs, Raise(r), UNCHANGED <<file, object, faults>>
  PROVE  Sound(r)
<1>1. Objected(r) /\ faults' \in 0 .. MaxFaults
  BY DEF Objected, IInv, Types, TypeOK
<1> QED BY <1>1, RaiseSound

LEMMA FinishSound ==
  ASSUME IInv, NEW r \in Runs, pc[r] = IF Live(r) THEN "confirm" ELSE "publish", Finish(r),
         file \subseteq file', file' \in SUBSET Digests, UNCHANGED <<object, faults>>,
         Live(r) => \A i \in 1 .. Len(iters[r]) : Durable(r, i),
         Live(r) => Final(r).image.digest \in file'
  PROVE  Sound(r)
<1>1. Types' BY FinishTypes DEF IInv
<1>2. pc'[r] = "completed" /\ next'[r] = 1 /\ UNCHANGED <<iters, manifest>>
  BY DEF Finish, Leave, Goto, IInv, Types, TypeOK
<1>3. Alone(r) BY DEF Alone, Finish, Leave, Goto, IInv, Types, TypeOK
<1>4. Inv(r) BY DEF IInv
<1>5. Shape(r)' /\ Drawn(r)' /\ Verdicts(r)' /\ PutsAnew(r)'
  BY <1>2, <1>4 DEF Inv, Shape, Drawn, Drawable, Verdicts, PutsAnew, Storing, Final, Live
<1>6. Fetched(r)' BY <1>2 DEF Fetched, Durable, Storing, Final, Live
<1> QED BY <1>1, <1>3, <1>5, <1>6 DEF Sound, Inv

LEMMA StartSound == ASSUME IInv, NEW r \in Runs, Start(r) PROVE Sound(r)
<1>1. /\ attempts' = [attempts EXCEPT ![r] = attempts[r] + 1]
      /\ pc' = [pc EXCEPT ![r] = "generate"]
      /\ attempts[r] < MaxAttempts[r] /\ pc[r] \in {"idle", "failed"}
      /\ UNCHANGED <<iters, calls, next, file, object, manifest, faults>>
  BY DEF Start, Goto, remote
<1>2. Types'
  <2>1. /\ attempts' \in [Runs -> Nat]
        /\ \A s \in Runs : attempts'[s] \in 0 .. MaxAttempts[s]
    <3>1. attempts[r] \in Nat /\ MaxAttempts[r] \in Nat
      BY PipelineAssumption DEF IInv, Types
    <3>2. attempts[r] + 1 \in 0 .. MaxAttempts[r] BY <1>1, <3>1
    <3>3. attempts' \in [Runs -> Nat] BY <1>1, <3>1 DEF IInv, Types
    <3>4. ASSUME NEW s \in Runs PROVE attempts'[s] \in 0 .. MaxAttempts[s]
      BY <1>1, <3>2 DEF IInv, Types, TypeOK
    <3> QED BY <3>3, <3>4
  <2>2. /\ pc' \in [Runs -> PCs]
        /\ \A s \in Runs : calls'[s] = 1 => pc'[s] = "evaluate"
    BY <1>1 DEF IInv, Types, TypeOK, PCs, Stages
  <2> QED BY <1>1, <2>1, <2>2 DEF IInv, Types, TypeOK
<1>3. Alone(r) BY <1>1 DEF Alone, IInv, Types, TypeOK
<1>4. Inv(r)
  BY DEF IInv
<1>5. pc'[r] = "generate" /\ iters'[r] = <<>> /\ next'[r] = 1
  BY <1>1, <1>4 DEF IInv, Types, TypeOK, Inv, Shape, Storing
<1>6. Inv(r)'
  BY <1>5, PipelineAssumption DEF Inv, Shape, Drawn, Drawable, Verdicts, Fetched, PutsAnew, Storing
<1> QED BY <1>2, <1>3, <1>6 DEF Sound

LEMMA DrawSound ==
  ASSUME IInv, NEW r \in Runs, pc[r] = "generate", NEW image \in Images \cup {Nil},
         image \in Drawable(r), Draw(r, image)
  PROVE  Sound(r)
<1> DEFINE x == [image |-> image, passed |-> FALSE]
<1>1. Inv(r) /\ iters[r] \in Seq(Iterations) /\ Len(iters[r]) \in Nat
  BY DEF IInv, Types, TypeOK
<1>2. Len(iters[r]) < MaxIterations BY <1>1 DEF Inv, Shape
<1>3. Types' BY <1>2, DrawTypes DEF IInv
<1>4. Alone(r) BY DEF Draw, Goto, remote, Alone, IInv, Types, TypeOK
<1>5. x \in Iterations /\ x.image = image /\ x.passed = FALSE BY DEF Iterations
<1>6. /\ pc'[r] = "evaluate" /\ next'[r] = next[r]
      /\ iters'[r] = Append(iters[r], x)
  BY DEF Draw, Goto, IInv, Types, TypeOK
<1> HIDE DEF x
<1>7. /\ Len(iters'[r]) = Len(iters[r]) + 1
      /\ \A i \in 1 .. Len(iters[r]) : iters'[r][i] = iters[r][i]
      /\ iters'[r][Len(iters[r]) + 1] = x
  BY <1>1, <1>5, <1>6, AppendedIteration
<1>8. Shape(r)' BY <1>1, <1>6, <1>7 DEF Inv, Shape, Storing
<1>9. Drawn(r)'
  <2>1. ASSUME NEW i \in 1 .. Len(iters'[r])
        PROVE  iters'[r][i].image \in Drawable(r)
    BY <1>1, <1>5, <1>7, <2>1 DEF Inv, Drawn
  <2> QED BY <1>6, <2>1 DEF Drawn, Drawable, Storing, Live
<1>10. Verdicts(r)'
  <2>1. ASSUME NEW i \in 1 .. Len(iters'[r]) PROVE ~iters'[r][i].passed
    BY <1>1, <1>5, <1>7, <2>1 DEF Inv, Verdicts
  <2> QED BY <1>1, <1>6, <1>7, <2>1 DEF Verdicts, Storing
<1>11. Fetched(r)' /\ PutsAnew(r)' BY <1>6 DEF Fetched, PutsAnew, Storing
<1> QED BY <1>3, <1>4, <1>8, <1>9, <1>10, <1>11 DEF Sound, Inv

LEMMA GenerateSound ==
  ASSUME IInv, NEW r \in Runs, GenerateDemo(r) \/ GenerateLive(r)
  PROVE  Sound(r)
<1>1. CASE GenerateDemo(r)
  <2>1. Draws[r][1] \in Images /\ Draws[r][2] \in Images
    BY <1>1, PipelineAssumption DEF GenerateDemo, Live
  <2> QED BY <1>1, <2>1, DrawSound DEF GenerateDemo, Drawable
<1>2. CASE GenerateLive(r)
  <2>1. Draws[r] \subseteq Images
    BY <1>2, PipelineAssumption DEF GenerateLive, Live
  <2> QED BY <1>2, <2>1, DrawSound DEF GenerateLive, Drawable
<1> QED BY <1>1, <1>2

(* The verdict of a demo run that asks for no more than it can get, on its *)
(* last iteration, is good.                                                *)
LEMMA JudgedSound ==
  ASSUME IInv, NEW r \in Runs, pc[r] = "evaluate", NEW p \in BOOLEAN, Judged(r, p),
         ~Live(r) /\ ~p /\ Len(iters[r]) = MaxIterations => r \in Demanding,
         UNCHANGED <<file, object, faults>>
  PROVE  Sound(r)
<1>1. /\ Inv(r) /\ iters[r] \in Seq(Iterations) /\ Len(iters[r]) \in Nat
      /\ Len(iters[r]) <= MaxIterations /\ MaxIterations \in Nat
  BY PipelineAssumption DEF IInv, Types, TypeOK
<1>2. Len(iters[r]) >= 1 BY <1>1 DEF Inv, Shape
<1>3. Types' BY <1>2, JudgedTypes DEF IInv
<1>4. Alone(r) BY DEF Judged, Goto, Alone, IInv, Types, TypeOK
<1>5. /\ pc'[r] = IF p \/ Len(iters[r]) = MaxIterations THEN "publish" ELSE "generate"
      /\ next'[r] = next[r]
      /\ iters'[r] = [iters[r] EXCEPT ![Len(iters[r])].passed = p]
  BY DEF Judged, Goto, IInv, Types, TypeOK
<1>6. /\ Len(iters'[r]) = Len(iters[r])
      /\ \A i \in 1 .. Len(iters[r]) - 1 : iters'[r][i] = iters[r][i]
      /\ \A i \in 1 .. Len(iters[r]) : iters'[r][i].image = iters[r][i].image
      /\ iters'[r][Len(iters[r])].passed = p
  BY <1>1, <1>2, <1>5, VerdictGiven
<1>7. Shape(r)' BY <1>1, <1>2, <1>5, <1>6 DEF Inv, Shape, Storing
<1>8. Drawn(r)' BY <1>1, <1>5, <1>6 DEF Inv, Drawn, Drawable, Storing, Live
<1>9. \A i \in 1 .. Len(iters'[r]) - 1 : ~iters'[r][i].passed
  BY <1>1, <1>6 DEF Inv, Verdicts
<1>10. Verdicts(r)'
  BY <1>1, <1>2, <1>5, <1>6, <1>9 DEF Verdicts, Final, Storing, Live
<1>11. Fetched(r)' /\ PutsAnew(r)' BY <1>5 DEF Fetched, PutsAnew, Storing
<1> QED BY <1>3, <1>4, <1>7, <1>8, <1>10, <1>11 DEF Sound, Inv

LEMMA EvaluateDemoSound == ASSUME IInv, NEW r \in Runs, EvaluateDemo(r) PROVE Sound(r)
<1> DEFINE p == ~(r \in WeakFirst /\ Len(iters[r]) = 1) /\ r \notin Demanding
<1>1. /\ pc[r] = "evaluate" /\ Judged(r, p) /\ p \in BOOLEAN
      /\ UNCHANGED <<file, object, faults>>
  BY DEF EvaluateDemo
<1>2. ~p /\ Len(iters[r]) = MaxIterations => r \in Demanding BY PipelineAssumption
<1> HIDE DEF p
<1> QED BY <1>1, <1>2, JudgedSound

LEMMA EvaluateLiveSound == ASSUME IInv, NEW r \in Runs, EvaluateLive(r) PROVE Sound(r)
<1>1. pc[r] = "evaluate" /\ Live(r) /\ UNCHANGED <<file, object, faults>>
  BY DEF EvaluateLive
<1>2. CASE \E p \in BOOLEAN : Judged(r, p) BY <1>1, <1>2, JudgedSound
<1>3. CASE Raise(r) BY <1>1, <1>3, CheckRaisesSound
<1>4. CASE calls[r] # 1 /\ Hiccup(r)
  <2>1. /\ calls' = [calls EXCEPT ![r] = calls[r] + 1] /\ calls[r] = 0
        /\ UNCHANGED <<pc, attempts, iters, next, manifest>>
    BY <1>4 DEF Hiccup, IInv, Types, TypeOK
  <2>2. Types' BY <1>1, <2>1 DEF IInv, Types, TypeOK
  <2>3. Alone(r) BY <1>1, <2>1 DEF Alone
  <2>4. pc'[r] = "evaluate" /\ UNCHANGED <<iters, next>> /\ Inv(r)
    BY <1>1, <2>1 DEF IInv
  <2>5. Shape(r)' /\ Drawn(r)' /\ Verdicts(r)'
    BY <1>1, <2>4 DEF Inv, Shape, Drawn, Drawable, Verdicts, Storing, Final, Live
  <2>6. Fetched(r)' /\ PutsAnew(r)' BY <2>4 DEF Fetched, PutsAnew, Storing
  <2> QED BY <2>2, <2>3, <2>5, <2>6 DEF Sound, Inv
<1> QED BY <1>2, <1>3, <1>4 DEF EvaluateLive, Hiccup

LEMMA GotoTypes ==
  ASSUME IInv, NEW r \in Runs, pc[r] # "evaluate", NEW stage \in PCs, Goto(r, stage),
         UNCHANGED <<attempts, iters, calls>>,
         next' \in [Runs -> 1 .. MaxIterations], file' \in SUBSET Digests,
         object' \in [Digests -> Objects],
         manifest' \in [Runs -> [1 .. MaxIterations -> Objects]],
         faults' \in 0 .. MaxFaults
  PROVE  /\ Types' /\ pc'[r] = stage
         /\ \A s \in Runs \ {r} : pc'[s] = pc[s]
<1>1. /\ pc' \in [Runs -> PCs] /\ pc'[r] = stage
      /\ \A s \in Runs \ {r} : pc'[s] = pc[s]
  BY DEF Goto, IInv, Types, TypeOK
<1>2. \A s \in Runs : calls'[s] = 1 => pc'[s] = "evaluate"
  BY <1>1 DEF IInv, Types
<1> QED BY <1>1, <1>2 DEF IInv, Types, TypeOK

LEMMA PublishSound == ASSUME IInv, NEW r \in Runs, Publish(r) PROVE Sound(r)
<1> DEFINE d == Final(r).image.digest
<1>1. /\ pc[r] = "publish" /\ object' = object /\ Inv(r)
      /\ iters[r] \in Seq(Iterations) /\ Len(iters[r]) >= 1 /\ Len(iters[r]) \in Nat
      /\ next[r] = 1
  <2>1. pc[r] = "publish" /\ object' = object BY DEF Publish
  <2>2. Inv(r) /\ iters[r] \in Seq(Iterations) BY DEF IInv, Types, TypeOK
  <2> QED BY <2>1, <2>2 DEF Inv, Shape, Storing
<1>2. Final(r) \in Iterations BY <1>1 DEF Final
<1>3. CASE Raise(r) /\ UNCHANGED file
  <2>1. Objected(r) /\ faults' \in 0 .. MaxFaults
    BY <1>1, <1>3, PipelineAssumption
       DEF Publish, Fault, NoFault, Objected, IInv, Types, TypeOK
  <2> QED BY <1>3, <2>1, RaiseSound
<1>4. CASE Live(r) /\ NoFault /\ Acceptable(r) /\ AtomicWrite(d) /\ Goto(r, "preupload")
           /\ UNCHANGED <<private, manifest>>
  <2>1. Final(r).image # Nil /\ Final(r).passed BY <1>4 DEF Acceptable
  <2>2. d \in Digests BY <1>2, <2>1 DEF Iterations, Images
  <2>3. file' = file \cup {d} /\ UNCHANGED <<attempts, iters, calls, next, object, manifest, faults>>
    BY <1>1, <1>4 DEF AtomicWrite, private, NoFault
  <2> HIDE DEF d
  <2>4. file' \in SUBSET Digests BY <2>2, <2>3 DEF IInv, Types, TypeOK
  <2>5. "preupload" \in PCs BY DEF PCs, Stages
  <2>6. /\ Types' /\ pc'[r] = "preupload"
        /\ \A s \in Runs \ {r} : pc'[s] = pc[s]
    BY <1>1, <1>4, <2>3, <2>4, <2>5, GotoTypes DEF IInv, Types, TypeOK
  <2>7. Alone(r) BY <2>3, <2>6 DEF Alone
  <2>8. Shape(r)' /\ Drawn(r)' /\ Verdicts(r)' /\ PutsAnew(r)'
    BY <1>1, <1>4, <2>1, <2>3, <2>6
       DEF Inv, Shape, Drawn, Drawable, Verdicts, PutsAnew, Storing, Final, Live
  <2>9. Fetched(r)'
    BY <1>1, <1>4, <2>3, <2>6 DEF Fetched, Storing, Final, d, Live
  <2> QED BY <2>6, <2>7, <2>8, <2>9 DEF Sound, Inv
<1>5. CASE ~Live(r) /\ NoFault /\ AtomicWrite(d) /\ Finish(r)
  <2>1. Final(r).image \in Images
    BY <1>1, <1>5 DEF Inv, Drawn, Drawable, Final
  <2>2. d \in Digests BY <2>1 DEF Images
  <2>3. file' = file \cup {d} BY <1>5 DEF AtomicWrite
  <2> HIDE DEF d
  <2>4. file' \in SUBSET Digests BY <2>2, <2>3 DEF IInv, Types, TypeOK
  <2>5. UNCHANGED <<object, faults>> BY <1>1, <1>5 DEF NoFault
  <2> QED BY <1>1, <1>5, <2>3, <2>4, <2>5, FinishSound
<1> QED BY <1>1, <1>3, <1>4, <1>5 DEF Publish, Acceptable

LEMMA StillFetched ==
  ASSUME IInv, NEW r \in Runs, Alone(r), pc[r] \in Storing, iters'[r] = iters[r],
         NEW i \in 1 .. next[r], Durable(r, i), manifest'[r][i] = manifest[r][i]
  PROVE  Durable(r, i)'
<1>1. iters[r][i].image.digest \in Digests BY DrawnImages DEF Durable
<1> QED BY <1>1, GoodKept DEF Durable

(* From one stage of the storage loop to the next, at the same iteration.  *)
LEMMA StageSound ==
  ASSUME IInv, NEW r \in Runs, pc[r] \in Storing, NEW stage \in Storing, Goto(r, stage),
         UNCHANGED <<attempts, iters, calls, next, file>>,
         Stored(r).image # Nil,
         object' \in [Digests -> Objects], faults' \in 0 .. MaxFaults,
         \A d \in Digests : object'[d] # object[d] =>
           /\ pc[r] = "put" /\ d = Stored(r).image.digest
           /\ object'[d] = "good" \/ d \in Fragile,
         manifest' \in [Runs -> [1 .. MaxIterations -> Objects]],
         \A s \in Runs : s # r => manifest'[s] = manifest[s],
         \A i \in 1 .. next[r] - 1 : manifest'[r][i] = manifest[r][i],
         stage = "put" => object'[Stored(r).image.digest] # "good"
  PROVE  Sound(r)
<1>1. Inv(r) /\ next[r] \in 1 .. MaxIterations /\ next[r] \in Nat /\ Len(iters[r]) \in Nat
  BY PipelineAssumption DEF IInv, Types, TypeOK
<1>2. stage \in PCs /\ pc[r] # "evaluate" BY DEF Storing, PCs, Stages
<1>3. /\ Types' /\ pc'[r] = stage
      /\ \A s \in Runs \ {r} : pc'[s] = pc[s]
  BY <1>2, GotoTypes DEF IInv, Types, TypeOK
<1>4. Alone(r) BY <1>3 DEF Alone
<1>5. Shape(r)' /\ Drawn(r)' /\ Verdicts(r)' /\ PutsAnew(r)'
  BY <1>1, <1>3 DEF Inv, Shape, Drawn, Drawable, Verdicts, PutsAnew, Storing, Final, Stored, Live
<1>6. \A i \in 1 .. next[r] - 1 : Durable(r, i)'
  <2>1. ASSUME NEW i \in 1 .. next[r] - 1 PROVE Durable(r, i)'
    BY <1>1, <1>4, <2>1, StillFetched DEF Inv, Fetched
  <2> QED BY <2>1
<1>7. Fetched(r)' BY <1>1, <1>3, <1>6 DEF Inv, Shape, Fetched, Storing, Final, Live
<1> QED BY <1>3, <1>4, <1>5, <1>7 DEF Sound, Inv

LEMMA PreuploadSound == ASSUME IInv, NEW r \in Runs, Preupload(r) PROVE Sound(r)
<1>1. CASE RemoteRaises(r) BY <1>1, RemoteRaisesSound
<1>2. CASE NoFault /\ Raise(r) /\ UNCHANGED <<file, object>>
  BY <1>2, CheckRaisesSound DEF NoFault
<1>3. CASE /\ Stored(r).image # Nil /\ NoFault
           /\ Goto(r, IF object[Stored(r).image.digest] = "absent" THEN "put" ELSE "index")
           /\ UNCHANGED <<private, file, object, manifest>>
  <2> DEFINE stage == IF object[Stored(r).image.digest] = "absent" THEN "put" ELSE "index"
  <2>1. /\ stage \in Storing /\ pc[r] \in Storing
        /\ stage = "put" => object[Stored(r).image.digest] # "good"
    BY DEF Storing, Preupload
  <2>2. Goto(r, stage) /\ UNCHANGED <<attempts, iters, calls, next, file, object, manifest, faults>>
    BY <1>3 DEF private, NoFault
  <2> HIDE DEF stage
  <2> QED BY <1>3, <2>1, <2>2, StageSound DEF IInv, Types, TypeOK
<1> QED BY <1>1, <1>2, <1>3 DEF Preupload

LEMMA PutSound == ASSUME IInv, NEW r \in Runs, Put(r) PROVE Sound(r)
<1> DEFINE d == Stored(r).image.digest
<1>1. pc[r] = "put" /\ pc[r] \in Storing /\ file' = file BY DEF Put, Storing
<1>2. Stored(r).image # Nil BY <1>1 DEF IInv, Inv, Drawn, Storing
<1>3. d \in Digests BY <1>1, <1>2, StoredImage
<1>4. faults' \in 0 .. MaxFaults
  BY PipelineAssumption DEF Put, NoFault, Fault, IInv, Types, TypeOK
<1>5. CASE Raise(r) /\ object' \in {object, [object EXCEPT ![d] = "good"]}
  <2>1. Objected(r) BY <1>1, <1>3, <1>5 DEF Objected, Objects, IInv, Types, TypeOK
  <2> QED BY <1>1, <1>4, <1>5, <2>1, RaiseSound
<1>6. ASSUME NEW o \in {"good", "bad"}, o = "good" \/ d \in Fragile,
             object' = [object EXCEPT ![d] = o], Goto(r, "index"),
             UNCHANGED <<private, manifest>>
      PROVE  Sound(r)
  <2>1. /\ object' \in [Digests -> Objects]
        /\ \A e \in Digests : object'[e] # object[e] =>
             e = d /\ (object'[e] = "good" \/ e \in Fragile)
    BY <1>3, <1>6 DEF Objects, IInv, Types, TypeOK
  <2>2. "index" \in Storing BY DEF Storing
  <2>3. UNCHANGED <<attempts, iters, calls, next, manifest>> BY <1>6 DEF private
  <2> QED BY <1>1, <1>2, <1>4, <1>6, <2>1, <2>2, <2>3, StageSound DEF IInv, Types, TypeOK
<1> QED BY <1>5, <1>6 DEF Put

LEMMA IndexSound == ASSUME IInv, NEW r \in Runs, Index(r) PROVE Sound(r)
<1>1. pc[r] = "index" /\ pc[r] \in Storing /\ UNCHANGED <<file, object>> BY DEF Index, Storing
<1>2. Stored(r).image # Nil BY <1>1 DEF IInv, Inv, Drawn, Storing
<1>3. faults' \in 0 .. MaxFaults
  BY PipelineAssumption DEF Index, NoFault, Fault, IInv, Types, TypeOK
<1>4. CASE Raise(r)
  <2>1. Objected(r) BY <1>1 DEF Objected, IInv, Types, TypeOK
  <2> QED BY <1>1, <1>3, <1>4, <2>1, RaiseSound
<1>5. ASSUME NEW o \in {"good", "bad"}, manifest' = [manifest EXCEPT ![r][next[r]] = o],
             Goto(r, "fetch"), UNCHANGED private
      PROVE  Sound(r)
  <2>1. /\ manifest' \in [Runs -> [1 .. MaxIterations -> Objects]]
        /\ \A s \in Runs : s # r => manifest'[s] = manifest[s]
        /\ \A i \in 1 .. next[r] - 1 : manifest'[r][i] = manifest[r][i]
    BY <1>5, PipelineAssumption DEF Objects, IInv, Types, TypeOK
  <2>2. "fetch" \in Storing BY DEF Storing
  <2>3. UNCHANGED <<attempts, iters, calls, next>> BY <1>5 DEF private
  <2> QED BY <1>1, <1>2, <1>3, <1>5, <2>1, <2>2, <2>3, StageSound DEF IInv, Types, TypeOK
<1> QED BY <1>4, <1>5 DEF Index

LEMMA FetchSound == ASSUME IInv, NEW r \in Runs, Fetch(r) PROVE Sound(r)
<1>1. pc[r] = "fetch" /\ pc[r] \in Storing BY DEF Fetch, Storing
<1>2. /\ Inv(r) /\ Stored(r).image # Nil /\ Live(r)
      /\ next[r] \in 1 .. Len(iters[r]) /\ Len(iters[r]) \in Nat /\ Len(iters[r]) <= MaxIterations
  BY <1>1, PipelineAssumption DEF IInv, Inv, Shape, Drawn, Storing, Types, TypeOK
<1>3. CASE RemoteRaises(r) BY <1>3, RemoteRaisesSound
<1>4. CASE NoFault /\ Raise(r) /\ UNCHANGED <<file, object>>
  BY <1>4, CheckRaisesSound DEF NoFault
<1>5. CASE /\ NoFault /\ Intact(r, next[r])
           /\ IF next[r] < Len(iters[r])
                THEN Goto(r, "preupload") /\ next' = [next EXCEPT ![r] = @ + 1]
                ELSE Goto(r, "confirm") /\ UNCHANGED next
           /\ UNCHANGED <<attempts, iters, calls, file, object, manifest>>
  <2>1. UNCHANGED <<attempts, iters, calls, file, object, manifest, faults>> BY <1>5 DEF NoFault
  <2>2. \A i \in 1 .. next[r] : Durable(r, i)
    <3>1. ASSUME NEW i \in 1 .. next[r] - 1 PROVE Durable(r, i)
      BY <1>1, <1>2, <3>1 DEF Inv, Fetched
    <3>2. Durable(r, next[r]) BY <1>2, <1>5 DEF Durable, Intact, Stored
    <3> QED BY <1>2, <3>1, <3>2
  <2>3. pc[r] # "evaluate" /\ "preupload" \in PCs /\ "confirm" \in PCs
    BY <1>1 DEF PCs, Stages
  <2>4. CASE next[r] < Len(iters[r]) /\ Goto(r, "preupload") /\ next' = [next EXCEPT ![r] = @ + 1]
    <3>1. next' \in [Runs -> 1 .. MaxIterations] /\ next'[r] = next[r] + 1
          /\ \A s \in Runs \ {r} : next'[s] = next[s]
      BY <1>2, <2>4, PipelineAssumption DEF IInv, Types, TypeOK
    <3>2. /\ Types' /\ pc'[r] = "preupload"
          /\ \A s \in Runs \ {r} : pc'[s] = pc[s]
      BY <2>1, <2>3, <2>4, <3>1, GotoTypes DEF IInv, Types, TypeOK
    <3>3. Alone(r) BY <2>1, <3>1, <3>2 DEF Alone
    <3>4. Shape(r)' /\ Drawn(r)' /\ Verdicts(r)' /\ PutsAnew(r)'
      BY <1>1, <1>2, <2>1, <2>4, <3>1, <3>2
         DEF Inv, Shape, Drawn, Drawable, Verdicts, PutsAnew, Storing, Final, Live
    <3>5. Fetched(r)'
      BY <1>1, <1>2, <2>1, <2>2, <3>1, <3>2 DEF Inv, Fetched, Durable, Storing, Final, Live
    <3> QED BY <3>2, <3>3, <3>4, <3>5 DEF Sound, Inv
  <2>5. CASE ~(next[r] < Len(iters[r])) /\ Goto(r, "confirm") /\ UNCHANGED next
    <3>1. next[r] = Len(iters[r]) BY <1>2, <2>5
    <3>2. /\ Types' /\ pc'[r] = "confirm"
          /\ \A s \in Runs \ {r} : pc'[s] = pc[s]
      BY <2>1, <2>3, <2>5, GotoTypes DEF IInv, Types, TypeOK
    <3>3. Alone(r) BY <2>1, <2>5, <3>2 DEF Alone
    <3>4. Shape(r)' /\ Drawn(r)' /\ Verdicts(r)' /\ PutsAnew(r)'
      BY <1>1, <1>2, <2>1, <2>5, <3>2
         DEF Inv, Shape, Drawn, Drawable, Verdicts, PutsAnew, Storing, Final, Stored, Live
    <3>5. Fetched(r)'
      BY <1>1, <1>2, <2>1, <2>2, <3>1, <3>2 DEF Inv, Fetched, Durable, Storing, Final, Live
    <3> QED BY <3>2, <3>3, <3>4, <3>5 DEF Sound, Inv
  <2> QED BY <1>5, <2>4, <2>5
<1> QED BY <1>3, <1>4, <1>5 DEF Fetch

LEMMA ConfirmSound == ASSUME IInv, NEW r \in Runs, Confirm(r) PROVE Sound(r)
<1>1. pc[r] = "confirm" /\ Inv(r) /\ file \in SUBSET Digests
  BY DEF Confirm, IInv, Types, TypeOK
<1>2. Live(r) BY <1>1 DEF Inv, Shape
<1>3. CASE RemoteRaises(r) BY <1>3, RemoteRaisesSound
<1>4. CASE Raise(r) /\ NoFault /\ UNCHANGED <<file, object>>
  BY <1>4, CheckRaisesSound DEF NoFault
<1>5. CASE Finish(r) /\ NoFault /\ UNCHANGED <<file, object>>
  <2>1. \A i \in 1 .. Len(iters[r]) : Durable(r, i) BY <1>1, <1>2 DEF Inv, Fetched
  <2>2. Final(r).image.digest \in file BY <1>1, <1>2 DEF Inv, Fetched
  <2> QED BY <1>1, <1>2, <1>5, <2>1, <2>2, FinishSound DEF NoFault
<1> QED BY <1>3, <1>4, <1>5 DEF Confirm

LEMMA StepSound == ASSUME IInv, NEW r \in Runs, Start(r) \/ Step(r) PROVE Sound(r)
  BY StartSound, GenerateSound, EvaluateDemoSound, EvaluateLiveSound, PublishSound,
     PreuploadSound, PutSound, IndexSound, FetchSound, ConfirmSound DEF Step

LEMMA CrashSound == ASSUME IInv, Crash PROVE IInv'
<1> DEFINE dies(r) == Executing(r)
<1>1. /\ pc'       = [r \in Runs |-> IF dies(r) THEN "failed" ELSE pc[r]]
      /\ iters'    = [r \in Runs |-> IF dies(r) THEN <<>> ELSE iters[r]]
      /\ calls'    = [r \in Runs |-> IF dies(r) THEN 0 ELSE calls[r]]
      /\ next'     = [r \in Runs |-> IF dies(r) THEN 1 ELSE next[r]]
      /\ manifest' = [r \in Runs |-> IF dies(r) THEN Unwritten ELSE manifest[r]]
      /\ UNCHANGED <<attempts, file, object>>
  BY DEF Crash
<1>2. faults' \in 0 .. MaxFaults
  BY PipelineAssumption DEF Crash, Fault, IInv, Types, TypeOK
<1>3. /\ pc' \in [Runs -> PCs] /\ calls' \in [Runs -> 0 .. 1]
      /\ \A r \in Runs : calls'[r] = 1 => pc'[r] = "evaluate"
  BY <1>1 DEF IInv, Types, TypeOK, PCs
<1>4. /\ iters' \in [Runs -> Seq(Iterations)]
      /\ \A r \in Runs : Len(iters'[r]) <= MaxIterations
  BY <1>1, PipelineAssumption DEF IInv, Types, TypeOK
<1>5. /\ next' \in [Runs -> 1 .. MaxIterations]
      /\ manifest' \in [Runs -> [1 .. MaxIterations -> Objects]]
  BY <1>1, PipelineAssumption DEF IInv, Types, TypeOK, Unwritten, Objects
<1>6. Types' BY <1>1, <1>2, <1>3, <1>4, <1>5 DEF IInv, Types, TypeOK
<1>7. ASSUME NEW r \in Runs PROVE Inv(r)'
  <2>1. CASE dies(r)
    <3>1. pc'[r] = "failed" /\ iters'[r] = <<>> /\ next'[r] = 1 BY <1>1, <2>1
    <3> QED BY <3>1 DEF Inv, Shape, Drawn, Verdicts, Fetched, PutsAnew, Storing
  <2>2. CASE ~dies(r)
    <3>1. /\ pc'[r] = pc[r] /\ iters'[r] = iters[r] /\ next'[r] = next[r]
          /\ manifest'[r] = manifest[r] /\ UNCHANGED <<file, object>> /\ Inv(r)
      BY <1>1, <2>2 DEF IInv
    <3> QED BY <3>1 DEF Inv, Shape, Drawn, Drawable, Verdicts, Fetched, Durable,
                        PutsAnew, Stored, Final, Live
  <2> QED BY <2>1, <2>2
<1> QED BY <1>6, <1>7 DEF IInv

LEMMA InitSound == Init => IInv
<1> SUFFICES ASSUME Init PROVE IInv OBVIOUS
<1>1. Types BY InitTypes
<1>2. ASSUME NEW r \in Runs PROVE Inv(r)
  <2>1. pc[r] = "idle" /\ iters[r] = <<>> /\ next[r] = 1 BY DEF Init
  <2> QED BY <2>1 DEF Inv, Shape, Drawn, Verdicts, Fetched, PutsAnew, Storing
<1> QED BY <1>1, <1>2 DEF IInv

LEMMA NextSound == IInv /\ [Next]_vars => IInv'
<1> SUFFICES ASSUME IInv, [Next]_vars PROVE IInv' OBVIOUS
<1>1. ASSUME NEW r \in Runs, Start(r) \/ Step(r) PROVE IInv'
  <2>1. Sound(r) BY <1>1, StepSound
  <2>2. \A s \in Runs : Inv(s)' BY <2>1, OthersKept DEF Sound
  <2> QED BY <2>1, <2>2 DEF Sound, IInv
<1>2. CASE Crash BY <1>2, CrashSound
<1>3. CASE UNCHANGED vars
  <2>1. UNCHANGED <<pc, attempts, iters, calls, next, file, object, manifest, faults>>
    BY <1>3 DEF vars, private, remote
  <2>2. Types' BY <2>1 DEF IInv, Types, TypeOK
  <2>3. ASSUME NEW r \in Runs PROVE Inv(r)'
    <3>1. Inv(r) BY DEF IInv
    <3> QED BY <2>1, <3>1 DEF Inv, Shape, Drawn, Drawable, Verdicts, Fetched, Durable,
                              PutsAnew, Stored, Final, Live
  <2> QED BY <2>2, <2>3 DEF IInv
<1> QED BY <1>1, <1>2, <1>3 DEF Next

---------------------------------------------------------------------------
(* Theorems.                                                               *)

LEMMA Invariance == Spec => []IInv
  BY InitSound, NextSound, PTL DEF Spec

(* The execution's locals, files and objects have their types.             *)
THEOREM TypeCorrect == Spec => []TypeOK
<1>1. IInv => TypeOK BY DEF IInv, Types
<1> QED BY <1>1, Invariance, PTL

(* However many runs overlap, whatever B2 loses or garbles and whenever    *)
(* the server dies, a completed live run names only intact objects.        *)
THEOREM DurableResults == Spec => []ResultIsDurable
<1>1. IInv => ResultIsDurable
  BY DEF IInv, Inv, Fetched, Durable, ResultIsDurable, Live
<1> QED BY <1>1, Invariance, PTL

(* No run completes below its threshold, but a demo run that asks for more *)
(* than the demo evaluator gives.                                          *)
THEOREM ThresholdMet == Spec => []QualityIsMet
<1>1. IInv => QualityIsMet
  BY DEF IInv, Inv, Verdicts, QualityIsMet, Live
<1> QED BY <1>1, Invariance, PTL

(* No upload, of a retry or of another run, replaces good bytes, where no  *)
(* PUT of bytes that two live runs draw is garbled (PipelineAssumption).   *)
THEOREM ObjectsImmutable == Spec => ObjectsAreKept
<1> DEFINE Kept == \A d \in Digests : object[d] = "good" => object'[d] = "good"
<1>1. IInv /\ [Next]_vars => [Kept]_object
  <2> SUFFICES ASSUME IInv, [Next]_vars PROVE Kept \/ UNCHANGED object OBVIOUS
  <2>1. ASSUME NEW r \in Runs, Start(r) \/ Step(r) PROVE Kept
    <3>1. Alone(r) BY <2>1, StepSound DEF Sound
    <3> QED BY <3>1, GoodKept
  <2>2. CASE Crash \/ UNCHANGED vars BY <2>2 DEF Crash, vars, remote
  <2> QED BY <2>1, <2>2 DEF Next
<1> QED BY <1>1, Invariance, PTL DEF Spec, ObjectsAreKept
===========================================================================
