------------------------ MODULE ServerStartProofs ------------------------
(* Theorems about ServerStart, for any number of starts and attempts.      *)
EXTENDS ServerStart, TLAPS

(* A start that has not given up has an attempt left.                      *)
AttemptLeft == \A s \in Starts : pc[s] # "failed" => tries[s] < Attempts

Typed == TypeOK /\ AttemptLeft

LEMMA InitTyped == Init => Typed
  BY StartAssumption DEF Init, Typed, TypeOK, AttemptLeft, PCs, Columns, Keys

(* A locked database changes the attempts and the place of one start.      *)
LEMMA LockedTyped ==
  ASSUME Typed, NEW s \in Starts, pc[s] # "failed",
         NEW again \in PCs \ {"failed"}, Locked(s, again)
  PROVE  Typed'
<1>1. tries[s] + 1 \in 0 .. Attempts
  BY StartAssumption DEF Typed, TypeOK, AttemptLeft
<1>2. /\ tries' = [tries EXCEPT ![s] = tries[s] + 1]
      /\ pc' = [pc EXCEPT ![s] = IF tries[s] + 1 = Attempts THEN "failed" ELSE again]
      /\ UNCHANGED <<keyFile, reviews, columns, active, key, todo, rows>>
  BY DEF Locked, Goto, disk
<1>3. TypeOK' BY <1>1, <1>2 DEF Typed, TypeOK, PCs
<1>4. AttemptLeft'
  BY <1>1, <1>2, StartAssumption DEF Typed, TypeOK, AttemptLeft
<1> QED BY <1>3, <1>4 DEF Typed

LEMMA StepTyped == ASSUME Typed, NEW s \in Starts, Step(s) PROVE Typed'
<1> USE DEF PCs, Goto, disk, local
<1>1. CASE OpenKey(s)   BY <1>1 DEF OpenKey, Typed, TypeOK, AttemptLeft
<1>2. CASE WriteKey(s)  BY <1>2 DEF WriteKey, Typed, TypeOK, AttemptLeft, Keys
<1>3. CASE ReadKey(s)   BY <1>3 DEF ReadKey, Typed, TypeOK, AttemptLeft, Keys
<1>4. CASE CreateTables(s)
  <2>1. CASE Locked(s, "create") BY <1>4, <2>1, LockedTyped DEF CreateTables
  <2> QED BY <1>4, <2>1 DEF CreateTables, Typed, TypeOK, AttemptLeft, Columns
<1>5. CASE Inspect(s)
  <2>1. CASE Locked(s, "create") BY <1>5, <2>1, LockedTyped DEF Inspect
  <2> QED BY <1>5, <2>1 DEF Inspect, Typed, TypeOK, AttemptLeft, Columns
<1>6. CASE Alter(s)
  <2>1. CASE Locked(s, "create") BY <1>6, <2>1, LockedTyped DEF Alter
  <2> QED BY <1>6, <2>1 DEF Alter, Typed, TypeOK, AttemptLeft
<1>7. CASE Initialized(s)
  BY <1>7, StartAssumption DEF Initialized, Typed, TypeOK, AttemptLeft
<1>8. CASE SelectInterrupted(s)
  <2>1. CASE Locked(s, "select") BY <1>8, <2>1, LockedTyped DEF SelectInterrupted
  <2> QED BY <1>8, <2>1 DEF SelectInterrupted, Typed, TypeOK, AttemptLeft
<1>9. CASE FailInterrupted(s)
  <2>1. CASE Locked(s, "select") BY <1>9, <2>1, LockedTyped DEF FailInterrupted
  <2> QED BY <1>9, <2>1 DEF FailInterrupted, Typed, TypeOK, AttemptLeft
<1> QED BY <1>1, <1>2, <1>3, <1>4, <1>5, <1>6, <1>7, <1>8, <1>9 DEF Step

LEMMA NextTyped == Typed /\ [Next]_vars => Typed'
<1> SUFFICES ASSUME Typed, [Next]_vars PROVE Typed' OBVIOUS
<1>1. ASSUME NEW s \in Starts, Step(s) PROVE Typed' BY <1>1, StepTyped
<1>2. ASSUME NEW s \in Starts, Kill(s) PROVE Typed'
  BY <1>2 DEF Kill, Starting, Goto, Typed, TypeOK, AttemptLeft, PCs, disk, local
<1>3. CASE UNCHANGED vars BY <1>3 DEF vars, disk, local, Typed, TypeOK, AttemptLeft
<1> QED BY <1>1, <1>2, <1>3 DEF Next

LEMMA AlwaysTyped == Spec => []Typed
  BY InitTyped, NextTyped, PTL DEF Spec

(* Every variable keeps its type, and the retry loops their bound.         *)
THEOREM TypeCorrect == Spec => []TypeOK
<1>1. Typed => TypeOK BY DEF Typed
<1> QED BY <1>1, AlwaysTyped, PTL

---------------------------------------------------------------------------
(* The key.                                                                *)

(* The file has one writer at most, and is short as long as it writes.     *)
OneWriter ==
  \A s \in Starts : pc[s] = "write" =>
    keyFile = "short" /\ \A t \in Starts : pc[t] = "write" => t = s

(* Who holds a key holds that of the file.                                 *)
KeyOfFile == \A s \in Starts : key[s] # Nil => key[s] = keyFile

KeyInv == OneWriter /\ KeyOfFile

LEMMA InitKey == Init => KeyInv
  BY DEF Init, KeyInv, OneWriter, KeyOfFile

(* Steps that leave the file alone and do not open it.                     *)
LEMMA KeyKept ==
  ASSUME KeyInv, UNCHANGED <<keyFile, key>>,
         \A t \in Starts : pc'[t] = "write" => pc[t] = "write"
  PROVE  KeyInv'
  BY DEF KeyInv, OneWriter, KeyOfFile

LEMMA NextKey == Typed /\ KeyInv /\ [Next]_vars => KeyInv'
<1> SUFFICES ASSUME Typed, KeyInv, [Next]_vars PROVE KeyInv' OBVIOUS
<1> USE DEF Goto, disk, local
<1>1. ASSUME NEW s \in Starts, OpenKey(s) PROVE KeyInv'
  BY <1>1, StartAssumption DEF OpenKey, KeyInv, OneWriter, KeyOfFile, Typed, TypeOK, Keys
<1>2. ASSUME NEW s \in Starts, WriteKey(s) PROVE KeyInv'
  <2>1. \A t \in Starts : key[t] = Nil
    BY <1>2, StartAssumption DEF WriteKey, KeyInv, OneWriter, KeyOfFile, Typed, TypeOK, Keys
  <2>2. \A t \in Starts : pc'[t] # "write"
    BY <1>2 DEF WriteKey, KeyInv, OneWriter, Typed, TypeOK
  <2> QED BY <1>2, <2>1, <2>2 DEF WriteKey, KeyInv, OneWriter, KeyOfFile
<1>3. ASSUME NEW s \in Starts, ReadKey(s) PROVE KeyInv'
  BY <1>3 DEF ReadKey, KeyInv, OneWriter, KeyOfFile, Typed, TypeOK
<1>4. ASSUME NEW s \in Starts,
             \/ CreateTables(s) \/ Inspect(s) \/ Alter(s) \/ Initialized(s)
             \/ SelectInterrupted(s) \/ FailInterrupted(s) \/ Kill(s)
      PROVE  KeyInv'
  <2>1. UNCHANGED <<keyFile, key>>
    BY <1>4 DEF CreateTables, Inspect, Alter, Initialized, SelectInterrupted,
                FailInterrupted, Kill, Locked
  <2>2. \A t \in Starts : pc'[t] = "write" => pc[t] = "write"
    BY <1>4 DEF CreateTables, Inspect, Alter, Initialized, SelectInterrupted,
                FailInterrupted, Kill, Locked, Typed, TypeOK
  <2> QED BY <2>1, <2>2, KeyKept
<1>5. CASE UNCHANGED vars BY <1>5, KeyKept DEF vars
<1> QED BY <1>1, <1>2, <1>3, <1>4, <1>5 DEF Next, Step

(* Whatever starts overlap, race for the key file or are killed with it    *)
(* half written, all that come up hold the same key.                       *)
THEOREM OneKeyForAll == Spec => []OneKey
<1>1. KeyInv => OneKey BY DEF KeyInv, KeyOfFile, OneKey
<1> QED BY <1>1, InitKey, NextKey, AlwaysTyped, PTL DEF Spec

---------------------------------------------------------------------------
(* The schema.                                                             *)

Past(s, stages) == pc[s] \in stages

(* What a start still has to add covers what the table lacks, whoever else *)
(* alters it meanwhile.                                                    *)
SchemaInv ==
  /\ \A s \in Starts : Past(s, {"inspect", "alter", "select", "update", "serving"}) => reviews
  /\ \A s \in Starts : Past(s, {"alter"}) => Columns \ columns \subseteq todo[s]
  /\ \A s \in Starts : Past(s, {"select", "update", "serving"}) => columns = Columns

LEMMA InitSchema == Init => SchemaInv
  BY DEF Init, SchemaInv, Past

(* The schema only grows, so a start that does not move keeps its part.    *)
LEMMA SchemaOfOthers ==
  ASSUME Typed, Typed', SchemaInv, NEW t \in Starts,
         pc'[t] = pc[t], todo'[t] = todo[t],
         reviews => reviews', reviews => columns \subseteq columns'
  PROVE  /\ Past(t, {"inspect", "alter", "select", "update", "serving"})' => reviews'
         /\ Past(t, {"alter"})' => Columns \ columns' \subseteq todo'[t]
         /\ Past(t, {"select", "update", "serving"})' => columns' = Columns
  BY DEF Typed, TypeOK, SchemaInv, Past

LEMMA SchemaStep ==
  ASSUME Typed, Typed', SchemaInv, NEW s \in Starts, Step(s) \/ Kill(s)
  PROVE  SchemaInv'
<1> USE DEF Goto, disk, local
<1>1. /\ reviews => reviews' /\ columns \subseteq columns'
      /\ \A t \in Starts \ {s} : pc'[t] = pc[t] /\ todo'[t] = todo[t]
  BY DEF Step, OpenKey, WriteKey, ReadKey, CreateTables, Inspect, Alter,
         Initialized, SelectInterrupted, FailInterrupted, Kill, Locked,
         Typed, TypeOK
<1>2. /\ Past(s, {"inspect", "alter", "select", "update", "serving"})' => reviews'
      /\ Past(s, {"alter"})' => Columns \ columns' \subseteq todo'[s]
      /\ Past(s, {"select", "update", "serving"})' => columns' = Columns
  <2> USE DEF Past, Typed, TypeOK, SchemaInv
  <2>1. CASE OpenKey(s) \/ WriteKey(s) \/ ReadKey(s) \/ Kill(s)
    BY <2>1 DEF OpenKey, WriteKey, ReadKey, Kill
  <2>2. CASE CreateTables(s)  BY <2>2 DEF CreateTables, Locked
  <2>3. CASE Inspect(s)       BY <2>3 DEF Inspect, Locked
  <2>4. CASE Alter(s)         BY <2>4 DEF Alter, Locked
  <2>5. CASE Initialized(s)   BY <2>5 DEF Initialized
  <2>6. CASE SelectInterrupted(s) BY <2>6 DEF SelectInterrupted, Locked
  <2>7. CASE FailInterrupted(s)   BY <2>7 DEF FailInterrupted, Locked
  <2> QED BY <2>1, <2>2, <2>3, <2>4, <2>5, <2>6, <2>7 DEF Step
<1> QED BY <1>1, <1>2, SchemaOfOthers DEF SchemaInv

LEMMA NextSchema == Typed /\ Typed' /\ SchemaInv /\ [Next]_vars => SchemaInv'
<1> SUFFICES ASSUME Typed, Typed', SchemaInv, [Next]_vars PROVE SchemaInv' OBVIOUS
<1>1. ASSUME NEW s \in Starts, Step(s) \/ Kill(s) PROVE SchemaInv'
  BY <1>1, SchemaStep
<1>2. CASE UNCHANGED vars BY <1>2 DEF vars, disk, local, SchemaInv, Past
<1> QED BY <1>1, <1>2 DEF Next

(* No interleaving of snapshots and ALTERs, and no kill between two of     *)
(* them, lets a server come up without a column.                           *)
THEOREM ServersAreMigrated == Spec => []ServesMigrated
<1>1. SchemaInv => ServesMigrated BY DEF SchemaInv, Past, ServesMigrated
<1> QED BY <1>1, InitSchema, NextSchema, AlwaysTyped, PTL DEF Spec

---------------------------------------------------------------------------
(* The recovery.                                                           *)

(* No run becomes active during starts, so a snapshot covers what is left. *)
RecoveryInv ==
  /\ \A s \in Starts : pc[s] = "update" => active \subseteq rows[s]
  /\ ServesRecovered

LEMMA NextRecovery == Typed /\ RecoveryInv /\ [Next]_vars => RecoveryInv'
<1> SUFFICES ASSUME Typed, RecoveryInv, [Next]_vars PROVE RecoveryInv' OBVIOUS
<1> USE DEF Goto, disk, local, Typed, TypeOK, RecoveryInv, ServesRecovered
<1>1. ASSUME NEW s \in Starts, OpenKey(s) \/ WriteKey(s) \/ ReadKey(s) \/ Kill(s)
      PROVE  RecoveryInv'
  BY <1>1 DEF OpenKey, WriteKey, ReadKey, Kill
<1>2. ASSUME NEW s \in Starts,
             CreateTables(s) \/ Inspect(s) \/ Alter(s) \/ Initialized(s)
      PROVE  RecoveryInv'
  BY <1>2 DEF CreateTables, Inspect, Alter, Initialized, Locked
<1>3. ASSUME NEW s \in Starts, SelectInterrupted(s) PROVE RecoveryInv'
  BY <1>3 DEF SelectInterrupted, Locked
<1>4. ASSUME NEW s \in Starts, FailInterrupted(s) PROVE RecoveryInv'
  BY <1>4 DEF FailInterrupted, Locked
<1>5. CASE UNCHANGED vars BY <1>5 DEF vars
<1> QED BY <1>1, <1>2, <1>3, <1>4, <1>5 DEF Next, Step

(* Whoever serves has left no interrupted run queued or running, however   *)
(* often its recovery found the database locked.                           *)
THEOREM ServersHaveRecovered == Spec => []ServesRecovered
<1>1. Init => RecoveryInv BY DEF Init, RecoveryInv, ServesRecovered
<1>2. RecoveryInv => ServesRecovered BY DEF RecoveryInv
<1> QED BY <1>1, <1>2, NextRecovery, AlwaysTyped, PTL DEF Spec

---------------------------------------------------------------------------
(* The causes of a failed start.                                           *)

CauseInv ==
  /\ keyFile = "short" => \E s \in Starts : pc[s] \in {"write", "killed"}
  /\ \A s \in Starts : pc[s] \in {"off", "write", "read"} => key[s] = Nil
  /\ FailsForCause

LEMMA InitCause == Init => CauseInv
  BY StartAssumption DEF Init, CauseInv, FailsForCause, Keys

(* A start that failed keeps its reason: others never go back to "off".    *)
LEMMA CauseKept ==
  ASSUME Typed, CauseInv, NEW s \in Starts, Step(s) \/ Kill(s)
  PROVE  /\ pc[s] # "failed"
         /\ pc'[s] # "off"
         /\ \A t \in Starts \ {s} :
              pc'[t] = pc[t] /\ key'[t] = key[t] /\ tries'[t] = tries[t]
  BY DEF Step, OpenKey, WriteKey, ReadKey, CreateTables, Inspect, Alter,
         Initialized, SelectInterrupted, FailInterrupted, Kill, Starting,
         Locked, Goto, disk, local, Typed, TypeOK

LEMMA CauseStep ==
  ASSUME Typed, CauseInv, NEW s \in Starts, Step(s) \/ Kill(s)
  PROVE  CauseInv'
<1> USE DEF Goto, disk, local
<1>1. (keyFile = "short" => \E t \in Starts : pc[t] \in {"write", "killed"})'
  BY StartAssumption, CauseKept
     DEF Step, OpenKey, WriteKey, ReadKey, CreateTables, Inspect, Alter,
         Initialized, SelectInterrupted, FailInterrupted, Kill, Starting,
         Locked, Typed, TypeOK, CauseInv
<1>2. pc'[s] \in {"off", "write", "read"} => key'[s] = Nil
  BY DEF Step, OpenKey, WriteKey, ReadKey, CreateTables, Inspect, Alter,
         Initialized, SelectInterrupted, FailInterrupted, Kill, Locked,
         Typed, TypeOK, CauseInv
<1>3. pc'[s] = "failed" =>
        \/ tries'[s] = Attempts
        \/ key'[s] = Nil /\ \E t \in Starts \ {s} : pc[t] # "off"
  <2>1. CASE ReadKey(s) BY <2>1 DEF ReadKey, Typed, TypeOK, CauseInv
  <2> QED
    BY <2>1 DEF Step, OpenKey, WriteKey, CreateTables, Inspect, Alter,
         Initialized, SelectInterrupted, FailInterrupted, Kill, Locked,
         Typed, TypeOK
<1>4. \A t \in Starts : pc'[t] \in {"off", "write", "read"} => key'[t] = Nil
  BY <1>2, CauseKept DEF CauseInv
<1>5. FailsForCause'
  <2>1. \A t \in Starts : pc[t] # "off" => pc'[t] # "off" BY CauseKept
  <2>2. \A t \in Starts \ {s} : pc'[t] = "failed" =>
          \/ tries'[t] = Attempts
          \/ key'[t] = Nil /\ \E u \in Starts \ {t} : pc[u] # "off"
    BY CauseKept DEF CauseInv, FailsForCause
  <2> QED BY <1>3, <2>1, <2>2 DEF FailsForCause
<1> QED BY <1>1, <1>4, <1>5 DEF CauseInv

LEMMA NextCause == Typed /\ CauseInv /\ [Next]_vars => CauseInv'
<1> SUFFICES ASSUME Typed, CauseInv, [Next]_vars PROVE CauseInv' OBVIOUS
<1>1. ASSUME NEW s \in Starts, Step(s) \/ Kill(s) PROVE CauseInv'
  BY <1>1, CauseStep
<1>2. CASE UNCHANGED vars BY <1>2 DEF vars, disk, local, CauseInv, FailsForCause
<1> QED BY <1>1, <1>2 DEF Next

(* A start gives up only for a database that was locked at each attempt or *)
(* a key file that another start has not written or died writing.          *)
THEOREM FailuresHaveACause == Spec => []FailsForCause
<1>1. CauseInv => FailsForCause BY DEF CauseInv
<1> QED BY <1>1, InitCause, NextCause, AlwaysTyped, PTL DEF Spec
===========================================================================
