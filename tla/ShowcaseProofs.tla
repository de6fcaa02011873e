--------------------------- MODULE ShowcaseProofs ---------------------------
(***************************************************************************)
(* Theorems about Showcase and PublicShowcase, for every value of their    *)
(* constants; where publish's promise holds only for one failure per       *)
(* publication, as its rollback is itself a call that may fail, the        *)
(* theorem says so (OneFault).                                             *)
(***************************************************************************)
EXTENDS PublicShowcase, TLAPS

OneFault == MaxFaults <= 1

---------------------------------------------------------------------------
(* Types, and the publication lock.                                        *)

(* The lock is held by the request that is between Enter and the end of    *)
(* publish, and by no other.                                               *)
LockHeld == \A r \in Reviews : pc[r] \in Critical <=> lock = r

Typed == TypeOK /\ LockHeld

LEMMA InitTyped == Init => Typed
  BY ShowcaseAssumption DEF Init, Typed, TypeOK, LockHeld, PCs, Critical, Objects

LEMMA StepTyped == Typed /\ [Next]_vars => Typed'
<1> SUFFICES ASSUME Typed, [Next]_vars PROVE Typed'
  OBVIOUS
<1> USE ShowcaseAssumption
    DEF Typed, TypeOK, LockHeld, PCs, Critical, Objects, At, Goto, NoFault, Fault, Put, ReceiptKey
<1>1. ASSUME NEW r \in Reviews, Approve(r) PROVE Typed'
  BY <1>1 DEF Approve
<1>2. ASSUME NEW r \in Reviews, Reject(r) PROVE Typed'
  BY <1>2 DEF Reject
<1>3. ASSUME NEW r \in Reviews, Snapshot(r) PROVE Typed'
  BY <1>3 DEF Snapshot
<1>4. ASSUME NEW r \in Reviews, Enter(r) PROVE Typed'
  BY <1>4 DEF Enter
<1>5. ASSUME NEW r \in Reviews, PutReceipt(r) PROVE Typed'
  BY <1>5 DEF PutReceipt
<1>6. ASSUME NEW r \in Reviews, CheckReceipt(r) PROVE Typed'
  BY <1>6 DEF CheckReceipt
<1>7. ASSUME NEW r \in Reviews, PutPointer(r) PROVE Typed'
  BY <1>7 DEF PutPointer
<1>8. ASSUME NEW r \in Reviews, Load(r) PROVE Typed'
  BY <1>8 DEF Load
<1>9. ASSUME NEW r \in Reviews, Rollback(r) PROVE Typed'
  BY <1>9 DEF Rollback
<1>10. ASSUME NEW r \in Reviews, Record(r) PROVE Typed'
  BY <1>10 DEF Record
<1>11. CASE Crash
  <2>1. \A r \in Reviews : pc'[r] \notin Critical /\ pc'[r] \in PCs
    BY <1>11 DEF Crash, InFlight
  <2>2. pc' \in [Reviews -> PCs]
    BY <1>11, <2>1 DEF Crash
  <2>3. faults' \in [Reviews -> 0 .. MaxFaults]
    <3>1. CASE lock = Nil
      BY <1>11, <3>1 DEF Crash
    <3>2. CASE lock # Nil
      <4>1. lock \in Reviews /\ Fault(lock)
        BY <1>11, <3>2 DEF Crash
      <4> QED BY <4>1
    <3> QED BY <3>1, <3>2
  <2> QED BY <1>11, <2>1, <2>2, <2>3 DEF Crash
<1>12. CASE Restart
  BY <1>12 DEF Restart
<1>13. CASE UNCHANGED vars
  BY <1>13 DEF vars
<1> QED
  BY <1>1, <1>2, <1>3, <1>4, <1>5, <1>6, <1>7, <1>8, <1>9, <1>10, <1>11, <1>12, <1>13
  DEF Next, PublishStep

LEMMA TypedInvariant == Init /\ [][Next]_vars => []Typed
  BY InitTyped, StepTyped, PTL

---------------------------------------------------------------------------
(* Where a publication stands.                                             *)

(* What publish has established before each of its calls: the receipt it   *)
(* has verified is its own, the pointer is the previous one until it puts  *)
(* its own, and only a failure leads to the rollback.                      *)
Progress ==
  \A r \in Reviews :
    /\ pc[r] = "check" /\ faults[r] = 0 => receipt[r] = r
    /\ pc[r] \in {"point", "load"} => receipt[r] = r
    /\ pc[r] \in {"receipt", "check", "point"} => pointer = prev[r]
    /\ pc[r] = "load" => pointer \in {r, Garbage} /\ (faults[r] = 0 => pointer = r)
    /\ pc[r] = "rollback" => faults[r] > 0 /\ pointer \in {prev[r], r, Garbage}

LEMMA InitProgress == Init => Progress
  BY DEF Init, Progress

LEMMA StepProgress == Typed /\ Progress /\ [Next]_vars => Progress'
<1> SUFFICES ASSUME Typed, Progress, [Next]_vars PROVE Progress'
  OBVIOUS
<1> USE ShowcaseAssumption
    DEF Typed, TypeOK, LockHeld, PCs, Critical, Progress, At, Goto, NoFault, Fault, Put,
        ReceiptKey, Loads
<1>1. ASSUME NEW r \in Reviews, Approve(r) PROVE Progress'
  BY <1>1 DEF Approve
<1>2. ASSUME NEW r \in Reviews, Reject(r) PROVE Progress'
  BY <1>2 DEF Reject
<1>3. ASSUME NEW r \in Reviews, Snapshot(r) PROVE Progress'
  BY <1>3 DEF Snapshot
<1>4. ASSUME NEW r \in Reviews, Enter(r) PROVE Progress'
  BY <1>4 DEF Enter
<1>5. ASSUME NEW r \in Reviews, PutReceipt(r) PROVE Progress'
  BY <1>5 DEF PutReceipt
<1>6. ASSUME NEW r \in Reviews, CheckReceipt(r) PROVE Progress'
  BY <1>6 DEF CheckReceipt
<1>7. ASSUME NEW r \in Reviews, PutPointer(r) PROVE Progress'
  BY <1>7 DEF PutPointer
<1>8. ASSUME NEW r \in Reviews, Load(r) PROVE Progress'
  BY <1>8 DEF Load, Verified
<1>9. ASSUME NEW r \in Reviews, Rollback(r) PROVE Progress'
  BY <1>9 DEF Rollback
<1>10. ASSUME NEW r \in Reviews, Record(r) PROVE Progress'
  BY <1>10 DEF Record
<1>11. CASE Crash
  <2>1. \A r \in Reviews : pc'[r] \notin Critical
    BY <1>11 DEF Crash, InFlight
  <2> QED BY <2>1
<1>12. CASE Restart
  BY <1>12 DEF Restart
<1>13. CASE UNCHANGED vars
  BY <1>13 DEF vars
<1> QED
  BY <1>1, <1>2, <1>3, <1>4, <1>5, <1>6, <1>7, <1>8, <1>9, <1>10, <1>11, <1>12, <1>13
  DEF Next, PublishStep

---------------------------------------------------------------------------
(* What the public would be shown.                                         *)

Shown == IF lock = Nil THEN pointer ELSE prev[lock]

(* The outcome of each approval, as the register counts it.                *)
Outcome ==
  [r \in Reviews |->
    CASE pc[r] = "dead" -> "lost"
      [] pc[r] = "published" \/ (pc[r] = "done" /\ status[r] = "published") -> "shown"
      [] pc[r] = "failed" \/ (pc[r] = "done" /\ status[r] # "published") -> "refused"
      [] OTHER -> "open"]

Settled(r) == pc[r] \in {"dead", "published"} \/ (pc[r] = "done" /\ status[r] = "published")

(* What is shown loads, and is an approval whose publication succeeded, or *)
(* died with the server.                                                   *)
ShownSound ==
  /\ Shown = Nil \/ (Shown \in Reviews /\ receipt[Shown] = Shown /\ Settled(Shown))
  /\ \A r \in Reviews : status[r] = "failed" => pc[r] = "done"

LEMMA InitShown == Init => ShownSound
  BY DEF Init, ShownSound, Shown

LEMMA StepShown ==
  ASSUME OneFault, Typed, Progress, ShownSound, [Next]_vars
  PROVE  ShownSound'
<1>1. MaxFaults \in 0 .. 1
  BY ShowcaseAssumption DEF OneFault
<1> USE ShowcaseAssumption
    DEF Typed, TypeOK, LockHeld, PCs, Critical, At, Goto, NoFault, Fault, Put,
        ReceiptKey, ShownSound, Shown, Settled
<1>2. ASSUME NEW r \in Reviews, Approve(r) PROVE ShownSound'
  BY <1>2 DEF Approve
<1>3. ASSUME NEW r \in Reviews, Reject(r) PROVE ShownSound'
  BY <1>3 DEF Reject
<1>4. ASSUME NEW r \in Reviews, Snapshot(r) PROVE ShownSound'
  BY <1>4 DEF Snapshot
<1>5. ASSUME NEW r \in Reviews, Enter(r) PROVE ShownSound'
  BY <1>5 DEF Enter
<1>6. ASSUME NEW r \in Reviews, PutReceipt(r) PROVE ShownSound'
  BY <1>6 DEF PutReceipt
<1>7. ASSUME NEW r \in Reviews, CheckReceipt(r) PROVE ShownSound'
  BY <1>7 DEF CheckReceipt
<1>8. ASSUME NEW r \in Reviews, PutPointer(r) PROVE ShownSound'
  BY <1>8 DEF PutPointer
<1>9. ASSUME NEW r \in Reviews, Load(r) PROVE ShownSound'
  BY <1>9 DEF Load, Verified, Loads, Progress
<1>10. ASSUME NEW r \in Reviews, Rollback(r) PROVE ShownSound'
  <2>1. ~(faults[r] < MaxFaults)
    BY <1>1, <1>10 DEF Rollback, Progress
  <2> QED BY <1>10, <2>1 DEF Rollback
<1>11. ASSUME NEW r \in Reviews, Record(r) PROVE ShownSound'
  BY <1>11 DEF Record
<1>12. CASE Crash
  <2>1. \A r \in Reviews : pc'[r] = IF pc[r] \in {"unsent", "done", "dead"} THEN pc[r] ELSE "dead"
    BY <1>12 DEF Crash, InFlight
  <2>2. lock' = Nil /\ UNCHANGED <<status, receipt, pointer>>
    BY <1>12 DEF Crash
  <2>3. CASE lock = Nil
    BY <2>1, <2>2, <2>3
  <2>4. CASE lock # Nil
    <3>1. lock \in Reviews /\ pc[lock] \in Critical /\ faults[lock] < MaxFaults
      BY <1>12, <2>4 DEF Crash
    <3>2. faults[lock] = 0
      BY <1>1, <3>1
    <3>3. pointer = prev[lock] \/ (pointer = lock /\ receipt[lock] = lock)
      BY <3>1, <3>2 DEF Progress
    <3> QED BY <2>1, <2>2, <2>4, <3>1, <3>3
  <2> QED BY <2>3, <2>4
<1>13. CASE Restart
  BY <1>13 DEF Restart
<1>14. CASE UNCHANGED vars
  BY <1>14 DEF vars
<1> QED
  BY <1>2, <1>3, <1>4, <1>5, <1>6, <1>7, <1>8, <1>9, <1>10, <1>11, <1>12, <1>13, <1>14
  DEF Next, PublishStep

---------------------------------------------------------------------------
(* The register.                                                           *)

LEMMA InitRegister == Init => Register!Init
  BY DEF Init, Register!Init

(* Each step of publish is a step of the register or leaves it alone: Load *)
(* shows, whatever else ends a publication refuses, and a crash shows at   *)
(* most the approval that held the lock.                                   *)
LEMMA StepRegister ==
  ASSUME OneFault, Typed, Progress, ShownSound, [Next]_vars
  PROVE  Register!Next \/ (Shown' = Shown /\ Outcome' = Outcome)
<1>1. MaxFaults \in 0 .. 1
  BY ShowcaseAssumption DEF OneFault
<1> DEFINE Stutter == Shown' = Shown /\ Outcome' = Outcome
           Refuses(r) == /\ Outcome[r] = "open" /\ Shown' = Shown
                         /\ Outcome' = [Outcome EXCEPT ![r] = "refused"]
           Shows(r) == /\ Outcome[r] = "open" /\ Shown' = r
                       /\ Outcome' = [Outcome EXCEPT ![r] = "shown"]
<1>2. ASSUME NEW r \in Reviews, Refuses(r) PROVE Register!Next
  BY <1>2 DEF Register!Next, Register!Refuse, Shown, Outcome
<1>3. ASSUME NEW r \in Reviews, Shows(r) PROVE Register!Next
  BY <1>3 DEF Register!Next, Register!Show, Shown, Outcome
<1> USE ShowcaseAssumption
    DEF Typed, TypeOK, LockHeld, PCs, Critical, At, Goto, NoFault, Fault, Put, Shown, Outcome
<1>4. ASSUME NEW r \in Reviews, Approve(r) PROVE Stutter
  BY <1>4 DEF Approve
<1>5. ASSUME NEW r \in Reviews, Reject(r) PROVE Refuses(r)
  BY <1>5 DEF Reject
<1>6. ASSUME NEW r \in Reviews, Snapshot(r) PROVE Stutter \/ Refuses(r)
  BY <1>6 DEF Snapshot
<1>7. ASSUME NEW r \in Reviews, Enter(r) PROVE Stutter \/ Refuses(r)
  BY <1>7 DEF Enter
<1>8. ASSUME NEW r \in Reviews, PutReceipt(r) PROVE Stutter
  BY <1>8 DEF PutReceipt
<1>9. ASSUME NEW r \in Reviews, CheckReceipt(r) PROVE Stutter
  BY <1>9 DEF CheckReceipt
<1>10. ASSUME NEW r \in Reviews, PutPointer(r) PROVE Stutter
  BY <1>10 DEF PutPointer
<1>11. ASSUME NEW r \in Reviews, Load(r) PROVE Stutter \/ Shows(r)
  <2>1. CASE Verified(r) /\ Goto(r, "published") /\ lock' = Nil
    <3>1. Shown' = r
      BY <1>11, <2>1 DEF Load, Verified, Loads, Progress
    <3>2. pc[r] = "load" /\ pc' = [pc EXCEPT ![r] = "published"] /\ status' = status
      BY <1>11, <2>1 DEF Load
    <3>3. Outcome[r] = "open" /\ Outcome' = [Outcome EXCEPT ![r] = "shown"]
      BY <3>2
    <3> QED BY <3>1, <3>3
  <2>2. CASE Goto(r, "rollback") /\ UNCHANGED lock
    BY <1>11, <2>2 DEF Load
  <2> QED BY <1>11, <2>1, <2>2 DEF Load
<1>12. ASSUME NEW r \in Reviews, Rollback(r) PROVE Refuses(r)
  <2>1. ~(faults[r] < MaxFaults)
    BY <1>1, <1>12 DEF Rollback, Progress
  <2> QED BY <1>12, <2>1 DEF Rollback
<1>13. ASSUME NEW r \in Reviews, Record(r) PROVE Stutter
  BY <1>13 DEF Record
<1>14. CASE Restart \/ UNCHANGED vars
  BY <1>14 DEF Restart, vars
<1>15. CASE Crash
  <2> DEFINE L == {r \in Reviews : InFlight(r) \/ pc[r] = "dead"}
  <2>1. \A r \in Reviews : pc'[r] = IF pc[r] \in {"unsent", "done", "dead"} THEN pc[r] ELSE "dead"
    BY <1>15 DEF Crash, InFlight
  <2>2. lock' = Nil /\ UNCHANGED <<status, pointer>>
    BY <1>15 DEF Crash
  <2>3. Outcome' = [r \in Reviews |-> IF r \in L THEN "lost" ELSE Outcome[r]]
    BY <2>1, <2>2 DEF InFlight
  <2>4. Shown' \in {Shown} \cup {r \in L : Outcome[r] = "open"}
    <3>1. CASE lock = Nil
      BY <2>2, <3>1
    <3>2. CASE lock # Nil
      <4>1. lock \in Reviews /\ pc[lock] \in Critical /\ faults[lock] < MaxFaults
        BY <1>15, <3>2 DEF Crash
      <4>2. faults[lock] = 0
        BY <1>1, <4>1
      <4>3. pointer = prev[lock] \/ pointer = lock
        BY <4>1, <4>2 DEF Progress
      <4>4. lock \in L /\ Outcome[lock] = "open"
        BY <4>1 DEF InFlight
      <4> QED BY <2>2, <3>2, <4>3, <4>4
    <3> QED BY <3>1, <3>2
  <2>5. Register!Crash
    BY <2>3, <2>4 DEF Register!Crash
  <2> QED BY <2>5 DEF Register!Next
<1> HIDE DEF Stutter, Refuses, Shows, Typed, TypeOK, LockHeld, PCs, Critical, At, Goto, NoFault,
             Fault, Put, Shown, Outcome
<1>16. ASSUME NEW r \in Reviews, Approve(r) \/ Reject(r) \/ PublishStep(r)
       PROVE  Stutter \/ Refuses(r) \/ Shows(r)
  BY <1>4, <1>5, <1>6, <1>7, <1>8, <1>9, <1>10, <1>11, <1>12, <1>13, <1>16 DEF PublishStep
<1> QED BY <1>2, <1>3, <1>14, <1>15, <1>16 DEF Next, Stutter

LEMMA AtomicPublication == OneFault => (Init /\ [][Next]_vars => PublishIsAtomic)
<1> SUFFICES ASSUME OneFault PROVE Init /\ [][Next]_vars => PublishIsAtomic
  OBVIOUS
<1>1. Typed /\ Progress /\ ShownSound /\ [Next]_vars =>
        [Register!Next]_<<Shown, Outcome>>
  BY StepRegister
<1>2. Typed /\ Progress /\ ShownSound /\ [Next]_vars => ShownSound'
  BY StepShown
<1> QED BY <1>1, <1>2, InitTyped, StepTyped, InitProgress, StepProgress, InitShown,
           InitRegister, PTL
        DEF PublishIsAtomic, Register!Spec, Shown, Outcome

---------------------------------------------------------------------------
(* The run under review and the public.                                    *)

(* PublicShowcase is a Showcase: it says what the candidate is, and who    *)
(* looks on.                                                               *)
LEMMA PublicInit == PInit => Init
  BY DEF PInit

LEMMA PublicStep == [PNext]_pvars => [Next]_vars
  BY DEF PNext, Complete, Spoil, Condemn, View, Review, PublishOne, Candidate, Publish, PublishStep,
         ReadPointer, ReadReceipt, PCrash, Next, pvars, vars

LEMMA PublicTyped == PSpec => [](Typed /\ Progress)
  BY PublicInit, PublicStep, InitTyped, StepTyped, InitProgress, StepProgress, PTL DEF PSpec

Screens ==
  /\ generation \in Generations
  /\ completed \in BOOLEAN /\ spoilt \in BOOLEAN
  /\ viewed \in [Reviews -> Generations]
  /\ sent   \in [Reviews -> Generations]
  /\ visit  \in [Visits -> {"unsent", "receipt", "none", "refused", "shown", "dead"}]
  /\ target \in [Visits -> Objects]

LEMMA InitScreens == PInit => Screens
<1>1. 0 \in Generations
  BY PublicAssumption DEF Generations
<1> QED BY <1>1 DEF PInit, Screens, Objects

LEMMA StepScreens == Typed /\ Screens /\ [PNext]_pvars => Screens'
<1> SUFFICES ASSUME Typed, Screens, [PNext]_pvars PROVE Screens'
  OBVIOUS
<1> USE PublicAssumption DEF Screens, Generations, work, screen, public
<1>1. CASE Complete
  <2>1. generation + 1 \in 0 .. MaxGeneration
    BY <1>1 DEF Complete
  <2> QED BY <1>1, <2>1 DEF Complete
<1>2. CASE Spoil \/ Condemn
  BY <1>2 DEF Spoil, Condemn
<1>3. ASSUME NEW r \in Reviews, View(r) PROVE Screens'
  BY <1>3 DEF View
<1>4. ASSUME NEW r \in Reviews, Review(r) \/ PublishOne(r) PROVE Screens'
  BY <1>4 DEF Review, PublishOne, Candidate, Publish
<1>5. ASSUME NEW v \in Visits, ReadPointer(v) PROVE Screens'
  BY <1>5 DEF ReadPointer, Answer, Typed, TypeOK
<1>6. ASSUME NEW v \in Visits, ReadReceipt(v) PROVE Screens'
  BY <1>6 DEF ReadReceipt, Answer
<1>7. CASE PCrash
  BY <1>7 DEF PCrash
<1>8. CASE Restart /\ UNCHANGED <<work, screen, public>>
  BY <1>8
<1>9. CASE UNCHANGED pvars
  BY <1>9 DEF pvars
<1> QED BY <1>1, <1>2, <1>3, <1>4, <1>5, <1>6, <1>7, <1>8, <1>9 DEF PNext

---------------------------------------------------------------------------
(* Visitors while no call fails.                                           *)

Quiet == \A r \in Reviews : faults[r] = 0

(* While nothing has failed, the pointer and whatever pointer a visitor    *)
(* has read name receipts that verify.                                     *)
Served ==
  Quiet =>
    /\ pointer = Nil \/ Loads(pointer)
    /\ \A v \in Visits : /\ visit[v] = "receipt" => Loads(target[v])
                         /\ visit[v] # "refused"

LEMMA InitServed == PInit => Served
  BY DEF PInit, Init, Served

(* Failures are never forgotten.                                           *)
LEMMA QuietBefore ==
  ASSUME Typed, [Next]_vars, Quiet'
  PROVE  Quiet
<1> SUFFICES ASSUME NEW s \in Reviews PROVE faults[s] = 0
  BY DEF Quiet
<1>1. faults[s] \in Nat /\ faults'[s] = 0
  BY ShowcaseAssumption DEF Typed, TypeOK, Quiet
<1>2. ASSUME NEW r \in Reviews, Fault(r) PROVE faults[s] = 0
  BY <1>1, <1>2 DEF Fault, Typed, TypeOK
<1>3. CASE faults' = faults
  BY <1>1, <1>3
<1>4. ASSUME NEW r \in Reviews, Approve(r) \/ Reject(r) \/ PublishStep(r)
      PROVE  faults' = faults \/ Fault(r)
  BY <1>4 DEF Approve, Reject, PublishStep, Snapshot, Enter, PutReceipt, CheckReceipt, PutPointer,
              Load, Rollback, Record, Put, NoFault
<1>5. CASE Crash
  BY <1>2, <1>3, <1>5 DEF Crash, NoFault, Typed, TypeOK
<1>6. CASE Restart \/ UNCHANGED vars
  BY <1>3, <1>6 DEF Restart, vars
<1> QED BY <1>2, <1>3, <1>4, <1>5, <1>6 DEF Next

(* A step of publish without failures keeps the receipts that verify, and  *)
(* puts a pointer to one.                                                  *)
LEMMA StepLoads ==
  ASSUME Typed, Progress, [Next]_vars, Quiet', pointer = Nil \/ Loads(pointer)
  PROVE  /\ pointer' = Nil \/ Loads(pointer)'
         /\ \A p \in Reviews : Loads(p) => Loads(p)'
<1>0. Quiet
  BY QuietBefore
<1> USE ShowcaseAssumption
    DEF Typed, TypeOK, Objects, At, Goto, NoFault, Fault, Put, ReceiptKey, Loads, Quiet
<1>1. ASSUME NEW r \in Reviews, Fault(r) PROVE FALSE
  BY <1>0, <1>1
<1>2. ASSUME NEW r \in Reviews, PutReceipt(r)
      PROVE  pointer' = pointer /\ receipt' = [receipt EXCEPT ![r] = r]
  BY <1>1, <1>2 DEF PutReceipt
<1>3. ASSUME NEW r \in Reviews, PutPointer(r)
      PROVE  receipt' = receipt /\ pointer' = r /\ receipt[r] = r
  BY <1>1, <1>3 DEF PutPointer, Progress
<1>4. ASSUME NEW r \in Reviews, Rollback(r) PROVE FALSE
  BY <1>0, <1>4 DEF Rollback, Progress
<1>5. ASSUME NEW r \in Reviews, Approve(r) \/ Reject(r) \/ Snapshot(r) \/ Enter(r)
                               \/ CheckReceipt(r) \/ Load(r) \/ Record(r)
      PROVE  UNCHANGED <<pointer, receipt>>
  BY <1>5 DEF Approve, Reject, Snapshot, Enter, CheckReceipt, Load, Record
<1>6. CASE Crash \/ Restart \/ UNCHANGED vars
  BY <1>6 DEF Crash, Restart, vars
<1> QED BY <1>2, <1>3, <1>4, <1>5, <1>6 DEF Next, PublishStep

LEMMA StepServed ==
  ASSUME Typed, Progress, Screens, Served, [PNext]_pvars
  PROVE  Served'
<1> SUFFICES ASSUME Quiet'
             PROVE  /\ pointer' = Nil \/ Loads(pointer)'
                    /\ \A v \in Visits : /\ visit'[v] = "receipt" => Loads(target[v])'
                                         /\ visit'[v] # "refused"
  BY DEF Served
<1>1. [Next]_vars
  BY PublicStep
<1>2. /\ pointer = Nil \/ Loads(pointer)
      /\ \A v \in Visits : /\ visit[v] = "receipt" => Loads(target[v])
                           /\ visit[v] # "refused"
  BY <1>1, QuietBefore DEF Served
<1>3. /\ pointer' = Nil \/ Loads(pointer)'
      /\ \A p \in Reviews : Loads(p) => Loads(p)'
  BY <1>1, <1>2, StepLoads
<1>4. CASE UNCHANGED public
  BY <1>2, <1>3, <1>4 DEF public, Loads
<1>5. ASSUME NEW v \in Visits, ReadPointer(v)
      PROVE  \A w \in Visits : /\ visit'[w] = "receipt" => Loads(target[w])'
                              /\ visit'[w] # "refused"
  <2>1. UNCHANGED <<pointer, receipt>> /\ target' = [target EXCEPT ![v] = pointer]
    BY <1>5 DEF ReadPointer, vars
  <2>2. pointer # Garbage
    BY <1>2, ShowcaseAssumption DEF Loads
  <2>3. visit' = [visit EXCEPT ![v] = IF pointer = Nil THEN "none" ELSE "receipt"]
    BY <1>5, <2>2 DEF ReadPointer, Answer
  <2> QED BY <1>2, <2>1, <2>3 DEF Loads, Screens
<1>6. ASSUME NEW v \in Visits, ReadReceipt(v)
      PROVE  \A w \in Visits : /\ visit'[w] = "receipt" => Loads(target[w])'
                              /\ visit'[w] # "refused"
  <2>1. UNCHANGED <<pointer, receipt, target>> /\ Loads(target[v])
    BY <1>2, <1>6 DEF ReadReceipt, vars
  <2>2. visit' = [visit EXCEPT ![v] = "shown"]
    BY <1>6, <2>1 DEF ReadReceipt, Answer
  <2> QED BY <1>2, <2>1, <2>2 DEF Loads, Screens
<1>7. CASE PCrash
  BY <1>2, <1>3, <1>7 DEF PCrash, Crash, Loads
<1>8. CASE Complete \/ Spoil \/ Condemn \/ UNCHANGED pvars
  BY <1>4, <1>8 DEF Complete, Spoil, Condemn, pvars
<1>9. ASSUME NEW r \in Reviews, View(r) \/ Review(r) \/ PublishOne(r) PROVE UNCHANGED public
  BY <1>9 DEF View, Review, PublishOne, Candidate, Publish
<1> QED BY <1>3, <1>4, <1>5, <1>6, <1>7, <1>8, <1>9 DEF PNext

---------------------------------------------------------------------------
(* The theorems.                                                           *)

(* The review rows, the objects in B2 and publish's locals keep their      *)
(* types, and so do the operators' screens and the public's requests,      *)
(* whatever fails in whatever order.                                       *)
THEOREM ShowcaseTypeCorrect == PSpec => []PTypeOK
<1>1. Typed /\ Screens => PTypeOK
  BY DEF Typed, Screens, PTypeOK
<1> QED BY <1>1, PublicTyped, InitScreens, StepScreens, PTL DEF PSpec

(* While no call on the object store fails, no visitor is refused: between *)
(* the two reads of GET /api/showcase publications never take away or      *)
(* overwrite the receipt that the pointer named.                           *)
THEOREM VisitorsAlwaysServed == PSpec => []VisitorsAreServed
<1>1. Served => VisitorsAreServed
  BY DEF Served, Quiet, VisitorsAreServed
<1>2. Typed /\ Progress /\ Screens /\ Served /\ [PNext]_pvars => Served'
  BY StepServed
<1> QED BY <1>1, <1>2, PublicTyped, InitScreens, StepScreens, InitServed, PTL DEF PSpec

LEMMA PublicShown == OneFault => (PSpec => [](Typed /\ Progress /\ ShownSound))
<1> SUFFICES ASSUME OneFault PROVE PSpec => [](Typed /\ Progress /\ ShownSound)
  OBVIOUS
<1>1. Typed /\ Progress /\ ShownSound /\ [Next]_vars => ShownSound'
  BY StepShown
<1> QED BY <1>1, PublicInit, PublicStep, PublicTyped, InitShown, PTL DEF PSpec

(* With at most one failure per publication, an approval recorded as       *)
(* failed is not the public showcase, for any number of approvals          *)
(* published at once (publish's rollback, set_review_publication).         *)
THEOREM FailedStaysUnpublished == OneFault => (PSpec => []FailedIsUnpublished)
<1> SUFFICES ASSUME OneFault PROVE PSpec => []FailedIsUnpublished
  OBVIOUS
<1>1. Typed /\ Progress /\ ShownSound => FailedIsUnpublished
  <2> SUFFICES ASSUME Typed, Progress, ShownSound, NEW r \in Reviews, status[r] = "failed"
               PROVE  pointer # r
    BY DEF FailedIsUnpublished
  <2>1. pc[r] = "done" /\ Shown # r
    BY ShowcaseAssumption DEF ShownSound, Settled
  <2>2. CASE lock = Nil
    BY <2>1, <2>2 DEF Shown
  <2>3. CASE lock # Nil
    <3>1. lock \in Reviews /\ pc[lock] \in Critical
      BY <2>3 DEF Typed, TypeOK, LockHeld
    <3>2. lock # r /\ prev[lock] # r
      BY <2>1, <2>3, <3>1 DEF Shown, Critical
    <3>3. pointer \in {prev[lock], lock, Garbage}
      BY <3>1 DEF Progress, Critical
    <3> QED BY <3>2, <3>3, ShowcaseAssumption
  <2> QED BY <2>2, <2>3
<1> QED BY <1>1, PublicShown, PTL

(* With at most one failure per publication, the pointer names a receipt   *)
(* that verifies, or there is none, whenever no publication is under way.  *)
THEOREM ShowcaseAlwaysLoads == OneFault => (PSpec => []ShowcaseLoads)
<1> SUFFICES ASSUME OneFault PROVE PSpec => []ShowcaseLoads
  OBVIOUS
<1>1. ShownSound => ShowcaseLoads
  BY DEF ShownSound, Shown, ShowcaseLoads, Loads, ReceiptKey
<1> QED BY <1>1, PublicShown, PTL

(* With at most one failure per publication, publish implements the        *)
(* register of ShowcaseRegister: an approval replaces what is shown, or    *)
(* leaves it exactly as it was.                                            *)
THEOREM PublishImplementsRegister == OneFault => (PSpec => PublishIsAtomic)
<1> SUFFICES ASSUME OneFault PROVE PSpec => PublishIsAtomic
  OBVIOUS
<1>1. PSpec => Init /\ [][Next]_vars
  BY PublicInit, PublicStep, PTL DEF PSpec
<1> QED BY <1>1, AtomicPublication
===========================================================================
