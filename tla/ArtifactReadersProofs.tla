----------------------- MODULE ArtifactReadersProofs -----------------------
(* Theorems about ArtifactReaders, for every value of its constants.  The  *)
(* lemmas of RunLifecycleProofs say nothing of who else may hold the lock, *)
(* so they apply to its steps as they are.                                 *)
EXTENDS ArtifactReaders, RunLifecycleProofs

ReaderTyped ==
  /\ reader \in [Readers -> {"unsent", "file"} \cup Answers]
  /\ copy   \in [Readers -> Assets \cup {Nil}]
  /\ lock   \in Requests \cup Readers \cup {Nil}

(* A GET changes the lock and its own locals only.                         *)
ReaderStep ==
  (\E v \in Readers, i \in Ids : ReadRow(v, i)) \/ \E v \in Readers : ReadFile(v)

LEMMA ReaderFrame ==
  ASSUME ReaderStep
  PROVE  UNCHANGED <<up, status, keyOf, receipt, file, pc, rid, created, retried,
                     held, victims, doomed>>
  BY DEF ReaderStep, ReadRow, ReadFile, rows, local, prune

LEMMA ANextCases ==
  ASSUME [ANext]_avars
  PROVE  \/ ReaderStep
         \/ ACrash
         \/ [Next]_vars /\ UNCHANGED reading
  BY DEF ANext, ReaderStep, Next, avars

LEMMA ANextTyped == Typed /\ [ANext]_avars => Typed'
<1> SUFFICES ASSUME Typed, [ANext]_avars PROVE Typed'
  OBVIOUS
<1>1. CASE ReaderStep BY <1>1, ReaderFrame DEF Typed, StateOK, Located
<1>2. CASE ACrash     BY <1>2, NextTyped DEF ACrash, Next
<1>3. CASE [Next]_vars BY <1>3, NextTyped
<1> QED BY <1>1, <1>2, <1>3, ANextCases

LEMMA AlwaysATyped == ASpec => []Typed
<1>1. AInit => Typed BY InitTyped DEF AInit
<1> QED BY <1>1, ANextTyped, PTL DEF ASpec

LEMMA ANextReaderTyped ==
  Typed /\ ReaderTyped /\ [ANext]_avars => ReaderTyped'
<1> SUFFICES ASSUME Typed, ReaderTyped, [ANext]_avars PROVE ReaderTyped'
  OBVIOUS
<1> USE DEF ReaderTyped
<1>1. CASE \E v \in Readers, i \in Ids : ReadRow(v, i)
  BY <1>1 DEF ReadRow, Reply, Answers, Typed, StateOK
<1>2. CASE \E v \in Readers : ReadFile(v)
  BY <1>2 DEF ReadFile, Reply, Release, Answers
<1>3. CASE ACrash BY <1>3 DEF ACrash, Crash, Answers
<1>4. CASE [Next]_vars /\ UNCHANGED reading
  <2>1. lock' \in {lock, Nil} \cup Requests
    BY <1>4 DEF Next, Post, HandlerStep, Lookup, Verify, Condemn, Reread,
       QueueRetry, Dispatch, TaskStep, StartRun, Acquire, Render, RenderRaises,
       CompleteRun, Fail, PruneSelect, PruneDelete, PruneUnlink, Release, Crash,
       Restart, Corrupt, vars
  <2> QED BY <1>4, <2>1 DEF reading
<1> QED BY <1>1, <1>2, <1>3, <1>4, ANextCases DEF ReaderStep

(* The readers' answers, the receipts they read and the lock they share    *)
(* with tasks and pruners keep their types, and so does everything else.   *)
THEOREM ReadersTypeCorrect == ASpec => []ATypeOK
<1>1. AInit => ReaderTyped BY DEF AInit, Init, ReaderTyped
<1>2. Typed /\ ReaderTyped => ATypeOK BY DEF Typed, ReaderTyped, ATypeOK
<1> QED BY <1>1, <1>2, ANextReaderTyped, AlwaysATyped, PTL DEF ASpec

---------------------------------------------------------------------------
(* A reader is served.  It holds the lock from the row to the file, the    *)
(* only step that removes a file belongs to a pruning thread that holds    *)
(* the lock too, and a completed row's file is on disk.                    *)
LEMMA ANextCustody == Typed /\ Custody /\ [ANext]_avars => Custody'
<1> SUFFICES ASSUME Typed, Custody, [ANext]_avars PROVE Custody'
  OBVIOUS
<1>1. CASE ReaderStep
  <2> USE ReaderFrame, <1>1 DEF Custody
  <2>1. lock' # lock => lock \notin Requests
    BY ReadersAssumption, LifecycleAssumption
    DEF ReaderStep, ReadRow, ReadFile, Release
  <2>2. LockHeld' BY <2>1 DEF LockHeld, IsDemo
  <2>3. KnownRow' /\ ReceiptIsOwn' /\ HeldIsOnDisk' /\ CompletedHasArtifact'
    BY DEF KnownRow, ReceiptIsOwn, HeldIsOnDisk, CompletedHasArtifact
  <2>4. DoomedIsDemo' /\ DoomedIsUnused' BY DEF DoomedIsDemo, DoomedIsUnused
  <2> QED BY <2>2, <2>3, <2>4
<1>2. CASE ACrash      BY <1>2, NextCustody DEF ACrash, Next
<1>3. CASE [Next]_vars BY <1>3, NextCustody
<1> QED BY <1>1, <1>2, <1>3, ANextCases

LEMMA AlwaysACustody == ASpec => []Custody
<1>1. AInit => Custody BY InitCustody DEF AInit
<1> QED BY <1>1, ANextCustody, AlwaysATyped, PTL DEF ASpec

(* Nothing here damages a file.                                            *)
NoDamage == \A a \in Assets : file[a] # "corrupt"

(* A file leaves the disk by an unlink and no other way.                   *)
FilesStay == \A a \in Assets : file[a] = "good" => file'[a] = "good"

LEMMA ThreadFiles ==
  ASSUME Typed, Custody, NEW r \in Requests, HandlerStep(r) \/ TaskStep(r)
  PROVE  /\ NoDamage => NoDamage'
         /\ lock \in Readers => FilesStay /\ lock' = lock
<1> USE DEF Typed, StateOK, At
<1>1. CASE PruneUnlink(r)
  <2>1. lock = r BY <1>1 DEF PruneUnlink, Custody, LockHeld
  <2> QED BY <1>1, <2>1, ReadersAssumption DEF PruneUnlink, NoDamage
<1>2. CASE Render(r) \/ RenderRaises(r)
  BY <1>2, ReadersAssumption DEF Render, RenderRaises, Release, NoDamage, FilesStay
<1>3. CASE UNCHANGED file
  <2>1. CASE UNCHANGED lock BY <1>3, <2>1 DEF NoDamage, FilesStay
  <2>2. CASE CompleteRun(r)
    BY <1>3, <2>2, ReadersAssumption DEF CompleteRun, Release, NoDamage, FilesStay
  <2>3. CASE lock = Nil
    BY <1>3, <2>3, ReadersAssumption DEF NoDamage
  <2> QED
    BY <1>3, <2>1, <2>2, <2>3, <1>1, <1>2
    DEF HandlerStep, Lookup, Verify, Condemn, Reread, QueueRetry, Dispatch,
        TaskStep, StartRun, Acquire, Fail, PruneSelect, PruneDelete, Render,
        RenderRaises, PruneUnlink
<1> QED
  BY <1>1, <1>2, <1>3
  DEF HandlerStep, Lookup, Verify, Condemn, Reread, QueueRetry, Dispatch,
      TaskStep, StartRun, Acquire, CompleteRun, Fail, PruneSelect, PruneDelete

ReaderHoldsFile ==
  \A v \in Readers : reader[v] = "file" =>
    /\ lock = v
    /\ copy[v] \in Assets
    /\ file[copy[v]] = "good"

Shielded == NoDamage /\ ReaderHoldsFile /\ NoReaderLosesItsFile

LEMMA InitShielded == AInit => Shielded
  BY DEF AInit, Init, Shielded, NoDamage, ReaderHoldsFile, NoReaderLosesItsFile

LEMMA ReadRowShielded ==
  ASSUME Typed, Custody, ReaderTyped, Shielded,
         NEW v \in Readers, NEW i \in Ids, ReadRow(v, i)
  PROVE  Shielded'
<1>1. /\ lock = Nil /\ reader[v] = "unsent"
      /\ copy' = [copy EXCEPT ![v] = receipt[i]]
      /\ UNCHANGED file
  BY DEF ReadRow
<1>2. \A w \in Readers : reader[w] # "file"
  BY <1>1, ReadersAssumption DEF Shielded, ReaderHoldsFile
<1>3. NoDamage' BY <1>1 DEF Shielded, NoDamage
<1>4. CASE status[i] = "completed"
  <2>1. lock' = v /\ reader' = [reader EXCEPT ![v] = "file"]
    BY <1>4 DEF ReadRow, Reply
  <2>2. receipt[i] \in Assets /\ file[receipt[i]] = "good"
    BY <1>4 DEF Custody, CompletedHasArtifact, Typed, StateOK, Files,
                Shielded, NoDamage
  <2>3. ReaderHoldsFile'
    BY <1>1, <1>2, <2>1, <2>2 DEF ReaderHoldsFile, ReaderTyped
  <2>4. NoReaderLosesItsFile'
    BY <2>1 DEF Shielded, NoReaderLosesItsFile, ReaderTyped
  <2> QED BY <1>3, <2>3, <2>4 DEF Shielded
<1>5. CASE status[i] # "completed"
  <2>1. reader' = [reader EXCEPT ![v] = "unavailable"]
    BY <1>5 DEF ReadRow, Reply
  <2>2. ReaderHoldsFile' BY <1>2, <2>1 DEF ReaderHoldsFile, ReaderTyped
  <2>3. NoReaderLosesItsFile'
    BY <2>1 DEF Shielded, NoReaderLosesItsFile, ReaderTyped
  <2> QED BY <1>3, <2>2, <2>3 DEF Shielded
<1> QED BY <1>4, <1>5

LEMMA ReadFileShielded ==
  ASSUME ReaderTyped, Shielded, NEW v \in Readers, ReadFile(v)
  PROVE  Shielded'
<1>1. /\ reader[v] = "file" /\ lock = v /\ file[copy[v]] = "good"
      /\ UNCHANGED <<file, copy>>
  BY DEF ReadFile, Shielded, ReaderHoldsFile
<1>2. reader' = [reader EXCEPT ![v] = "served"] BY <1>1 DEF ReadFile, Reply
<1>3. \A w \in Readers \ {v} : reader[w] # "file"
  BY <1>1 DEF Shielded, ReaderHoldsFile
<1>4. ReaderHoldsFile' BY <1>2, <1>3 DEF ReaderHoldsFile, ReaderTyped
<1>5. NoDamage' /\ NoReaderLosesItsFile'
  BY <1>1, <1>2 DEF Shielded, NoDamage, NoReaderLosesItsFile, ReaderTyped
<1> QED BY <1>4, <1>5 DEF Shielded

LEMMA ANextShielded ==
  Typed /\ Custody /\ ReaderTyped /\ Shielded /\ [ANext]_avars => Shielded'
<1> SUFFICES ASSUME Typed, Custody, ReaderTyped, Shielded, [ANext]_avars
             PROVE  Shielded'
  OBVIOUS
<1>1. CASE \E v \in Readers, i \in Ids : ReadRow(v, i) BY <1>1, ReadRowShielded
<1>2. CASE \E v \in Readers : ReadFile(v)              BY <1>2, ReadFileShielded
<1>3. CASE ACrash
  BY <1>3 DEF ACrash, Crash, Shielded, NoDamage, ReaderHoldsFile,
              NoReaderLosesItsFile
<1>4. CASE UNCHANGED <<file, lock, reading>>
  BY <1>4 DEF reading, Shielded, NoDamage, ReaderHoldsFile, NoReaderLosesItsFile
<1>5. CASE (\E r \in Requests : HandlerStep(r) \/ TaskStep(r)) /\ UNCHANGED reading
  <2>1. NoDamage' /\ (lock \in Readers => FilesStay /\ lock' = lock)
    BY <1>5, ThreadFiles DEF Shielded
  <2>2. ReaderHoldsFile'
    BY <1>5, <2>1 DEF reading, Shielded, ReaderHoldsFile, FilesStay
  <2>3. NoReaderLosesItsFile' BY <1>5 DEF reading, Shielded, NoReaderLosesItsFile
  <2> QED BY <2>1, <2>2, <2>3 DEF Shielded
<1> QED BY <1>1, <1>2, <1>3, <1>4, <1>5 DEF ANext, Post, Restart, avars, vars

(* A GET that finds a completed run is served from its file: no prune of   *)
(* this run or of one with the same bytes comes between the row and the    *)
(* file, and no crash of the server makes one (main.py's asset and         *)
(* evidence endpoints, prune_demo_runs).                                   *)
THEOREM ReadersAreServed == ASpec => []NoReaderLosesItsFile
<1>1. AInit => ReaderTyped BY DEF AInit, Init, ReaderTyped
<1>2. ASpec => []ReaderTyped
  BY <1>1, ANextReaderTyped, AlwaysATyped, PTL DEF ASpec
<1>3. ASpec => []Shielded
  BY <1>2, InitShielded, ANextShielded, AlwaysATyped, AlwaysACustody, PTL DEF ASpec
<1> QED BY <1>3, PTL DEF Shielded

---------------------------------------------------------------------------
(* Readers take no part in the life of a run: what RunLifecycle promises   *)
(* while files and receipts stay sound, it promises beside them.           *)
LEMMA ANextSole ==
  ASSUME OnlyCrashes
  PROVE  Typed /\ Custody /\ Sole /\ [ANext]_avars => Sole'
<1> SUFFICES ASSUME Typed, Custody, Sole, [ANext]_avars PROVE Sole'
  OBVIOUS
<1>1. CASE ReaderStep
  BY <1>1, ReaderFrame DEF Sole, OneWorker, Works, Owes, Executes,
     WorkerMovesRow, LookerOwesNothing, SnapshotHolds, Undamaged, DeadHasNoThreads
<1>2. CASE ACrash      BY <1>2, NextSole DEF ACrash, Next
<1>3. CASE [Next]_vars BY <1>3, NextSole
<1> QED BY <1>1, <1>2, <1>3, ANextCases

LEMMA AlwaysASole == ASSUME OnlyCrashes PROVE ASpec => []Sole
<1>1. AInit => Sole BY InitSole DEF AInit
<1>2. Typed /\ Custody /\ Sole /\ [ANext]_avars => Sole' BY ANextSole
<1> QED BY <1>1, <1>2, AlwaysATyped, AlwaysACustody, PTL DEF ASpec

(* Two tasks never execute one run while clients read, as long as nothing  *)
(* damages a file (create_run, start_run).                                 *)
THEOREM OneTaskPerRunRead ==
  ASSUME OnlyCrashes
  PROVE  ASpec => []AtMostOneExecutor
<1>1. Sole => AtMostOneExecutor
  BY DEF Sole, OneWorker, Works, AtMostOneExecutor
<1> QED BY <1>1, AlwaysASole, PTL

(* Under the same conditions a completed run stays completed until it is   *)
(* pruned, readers or no readers.                                          *)
THEOREM ResultsReadAreFinal ==
  ASSUME OnlyCrashes
  PROVE  ASpec => CompletedIsFinal
<1> DEFINE Final == \A i \in Ids : status[i] = "completed" =>
                      status'[i] \in {"completed", "deleted"}
<1>1. Typed /\ Sole /\ [ANext]_avars => [Final]_vars
  <2> SUFFICES ASSUME Typed, Sole, [ANext]_avars PROVE Final
    OBVIOUS
  <2>1. CASE ReaderStep BY <2>1, ReaderFrame
  <2>2. CASE ACrash BY <2>2 DEF ACrash, Crash, rows
  <2>3. CASE [Next]_vars BY <2>3, NextRowsLast DEF RowsLast
  <2> QED BY <2>1, <2>2, <2>3, ANextCases
<1>2. ASpec => [][Final]_vars
  <2> HIDE DEF Final
  <2> QED BY <1>1, AlwaysATyped, AlwaysASole, PTL DEF ASpec
<1> QED BY <1>2 DEF CompletedIsFinal
===========================================================================
