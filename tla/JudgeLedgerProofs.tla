------------------------- MODULE JudgeLedgerProofs -------------------------
(***************************************************************************)
(* Theorems about JudgeLedger, for every value of its constants.           *)
(*                                                                         *)
(* A call writes back an object that it computed from a copy, and the      *)
(* copy may be older than what other calls wrote meanwhile.  Whatever the  *)
(* order, the object is the result of the ledger's operations on an object *)
(* that was once stored.  So what is proved of one object, and preserved   *)
(* by each operation, holds of the stored object and of every copy.        *)
(***************************************************************************)
EXTENDS JudgeLedger, FiniteSetTheorems, TLAPS

(* The lane's holder has a reservation.                                    *)
LaneHeld(st) == st.lane # Nil => LeasesOf(st, st.lane) # {}

(* No reservation outlives its term, counted from clock n.                 *)
TermsEnd(st, n) ==
  \A k \in Idems : st.lease[k] # Nil => st.lease[k].expiresAt <= n + LeaseTTL

(* The lifetime counter covers the charges of the open sessions.           *)
Counted(st) ==
  /\ IsFiniteSet(Charges(st))
  /\ Cardinality(Charges(st)) <= st.total

Sound(st, n) == st \in StoredType /\ LaneHeld(st) /\ TermsEnd(st, n) /\ Counted(st)

---------------------------------------------------------------------------
(* What the ledger's operations do to one object, n being the clock of the *)
(* step and t the clock of the copy.                                       *)

LEMMA Constants ==
  /\ SessionTTL \in Nat /\ LeaseTTL \in Nat /\ Window \in Nat /\ MaxFailures \in Nat
  /\ MaxRuns \in Nat /\ Lifetime \in Nat /\ Idle \in Nat /\ MaxTime \in Nat /\ MaxCalls \in Nat
  /\ LeaseTTL > 0
  BY LedgerAssumption

(* An object that charges no more, and counts the same, counts enough.     *)
LEMMA FewerCharges ==
  ASSUME NEW st \in StoredType, NEW new \in StoredType, Counted(st),
         Charges(new) \subseteq Charges(st), new.total = st.total
  PROVE  Counted(new)
<1>1. /\ IsFiniteSet(Charges(new))
      /\ Cardinality(Charges(new)) <= Cardinality(Charges(st))
  BY FS_Subset DEF Counted
<1>2. Cardinality(Charges(new)) \in Nat /\ Cardinality(Charges(st)) \in Nat
  BY <1>1, FS_CardinalityType DEF Counted
<1>3. st.total \in Nat
  BY Constants DEF StoredType
<1> QED BY <1>1, <1>2, <1>3 DEF Counted

(* The head of every call leaves a sound object, and in it no reservation  *)
(* that has expired.                                                       *)
LEMMA SweepSound ==
  ASSUME NEW st, NEW n \in Nat, Sound(st, n), NEW t \in 0 .. MaxTime
  PROVE  /\ Sound(Sweep(st, t), n)
         /\ \A k \in Idems : Sweep(st, t).lease[k] # Nil => Sweep(st, t).lease[k].expiresAt > t
<1> DEFINE new == Sweep(st, t)
           dead == {k \in Idems : st.lease[k] # Nil /\ st.lease[k].expiresAt <= t}
<1>0. st \in StoredType
  BY DEF Sound
<1>1. new \in StoredType
  BY <1>0 DEF StoredType, Sweep
<1>2. /\ new.total = st.total
      /\ \A s \in Sessions : new.session[s] \in {Nil, st.session[s]}
      /\ \A k \in Idems : new.lease[k] = IF k \in dead THEN Nil ELSE st.lease[k]
      /\ new.lane = IF \E k \in dead : st.lease[k].holder = st.lane THEN Nil ELSE st.lane
  BY <1>0 DEF StoredType, Sweep
<1>3. Charges(new) \subseteq Charges(st)
  BY <1>2 DEF Charges
<1>4. Counted(new)
  BY <1>0, <1>1, <1>2, <1>3, FewerCharges DEF Sound
<1>5. LaneHeld(new)
  <2> SUFFICES ASSUME new.lane # Nil PROVE LeasesOf(new, new.lane) # {}
    BY DEF LaneHeld
  <2>1. new.lane = st.lane /\ ~ \E k \in dead : st.lease[k].holder = st.lane
    BY <1>2
  <2>2. PICK k \in Idems : st.lease[k] # Nil /\ st.lease[k].holder = st.lane
    BY <2>1 DEF Sound, LaneHeld, LeasesOf
  <2> QED BY <1>2, <2>1, <2>2 DEF LeasesOf
<1>6. TermsEnd(new, n)
  BY <1>2 DEF Sound, TermsEnd
<1>7. ASSUME NEW k \in Idems, new.lease[k] # Nil
      PROVE  new.lease[k].expiresAt > t
  <2>1. st.lease[k] # Nil /\ ~(st.lease[k].expiresAt <= t) /\ new.lease[k] = st.lease[k]
    BY <1>2, <1>7
  <2>2. st.lease[k] \in LeaseType
    BY <1>0, <2>1 DEF StoredType
  <2>3. st.lease[k].expiresAt \in Nat
    BY <2>2, Constants DEF LeaseType, Times
  <2> QED BY <2>1, <2>3
<1> QED BY <1>1, <1>4, <1>5, <1>6, <1>7 DEF Sound

(* A failed login counts.                                                  *)
LEMMA FailureSound ==
  ASSUME NEW st, NEW n \in Nat, Sound(st, n), NEW t \in 0 .. MaxTime,
         Failures(st, t).count < MaxFailures
  PROVE  Sound([st EXCEPT !.failures = [Failures(st, t) EXCEPT !.count = @ + 1]], n)
<1> DEFINE f   == Failures(st, t)
           new == [st EXCEPT !.failures = [f EXCEPT !.count = @ + 1]]
<1>0. st \in StoredType
  BY DEF Sound
<1>1. f \in [count : 0 .. MaxFailures, start : 0 .. MaxTime]
  BY <1>0, Constants DEF StoredType, Failures
<1>2. [f EXCEPT !.count = @ + 1] \in [count : 0 .. MaxFailures, start : 0 .. MaxTime]
  BY <1>1, Constants
<1> HIDE DEF f
<1>3. new \in StoredType
  BY <1>0, <1>2 DEF StoredType
<1>4. new.session = st.session /\ new.lease = st.lease /\ new.total = st.total /\ new.lane = st.lane
  BY <1>0 DEF StoredType
<1>5. Charges(new) = Charges(st) /\ LeasesOf(new, new.lane) = LeasesOf(st, st.lane)
  BY <1>4 DEF Charges, LeasesOf
<1> HIDE DEF new
<1>6. Sound(new, n)
  BY <1>3, <1>4, <1>5 DEF Sound, LaneHeld, TermsEnd, Counted
<1> QED BY <1>6 DEF new, f

(* A login that opens a session recovers the lane of an idle one.          *)
LEMMA OpenSound ==
  ASSUME NEW st, NEW n \in Nat, Sound(st, n), NEW t \in 0 .. MaxTime, NEW s \in Sessions
  PROVE  Sound(OpenSession(st, t, s), n)
<1> DEFINE rec    == Recover(st, t)
           opened == [expiresAt |-> t + SessionTTL, used |-> 0, active |-> Nil, lastSeen |-> t]
           new    == OpenSession(st, t, s)
<1>0. st \in StoredType
  BY DEF Sound
<1>1. Sound(rec, n)
  <2>1. CASE ~ LaneIdle(st, t)
    BY <2>1 DEF Recover
  <2>2. CASE LaneIdle(st, t)
    <3> DEFINE kept == DropLeases(st, LeasesOf(st, st.lane))
    <3>1. st.lane \in Sessions
      BY <1>0, <2>2 DEF StoredType, LaneIdle
    <3>2. /\ kept \in StoredType
          /\ kept.total = st.total /\ kept.session = st.session
          /\ \A k \in Idems : kept.lease[k] \in {Nil, st.lease[k]}
      BY <1>0 DEF StoredType, DropLeases
    <3>3. rec = [SetActive(kept, st.lane, Nil) EXCEPT !.lane = Nil]
      BY <2>2 DEF Recover
    <3> HIDE DEF kept, rec
    <3>4. CASE kept.session[st.lane] = Nil
      <4>1. rec = [kept EXCEPT !.lane = Nil]
        BY <3>3, <3>4 DEF SetActive
      <4>2. /\ rec \in StoredType /\ rec.lane = Nil
            /\ rec.total = st.total /\ rec.session = st.session /\ rec.lease = kept.lease
        BY <3>2, <4>1 DEF StoredType
      <4>3. Charges(rec) \subseteq Charges(st)
        BY <4>2 DEF Charges
      <4> QED BY <1>0, <3>2, <4>2, <4>3, FewerCharges DEF Sound, LaneHeld, TermsEnd
    <3>5. CASE kept.session[st.lane] # Nil
      <4>1. kept.session[st.lane] \in SessionType
        BY <3>1, <3>2, <3>5 DEF StoredType
      <4> DEFINE freed == [kept.session[st.lane] EXCEPT !.active = Nil]
      <4>2. freed \in SessionType /\ freed.used = kept.session[st.lane].used
        BY <4>1 DEF SessionType
      <4>3. rec = [kept EXCEPT !.session = [kept.session EXCEPT ![st.lane] = freed], !.lane = Nil]
        BY <3>2, <3>3, <3>5 DEF SetActive, StoredType
      <4> HIDE DEF freed
      <4>4. /\ rec \in StoredType /\ rec.lane = Nil
            /\ rec.total = st.total /\ rec.lease = kept.lease
            /\ rec.session = [kept.session EXCEPT ![st.lane] = freed]
        BY <3>1, <3>2, <4>2, <4>3 DEF StoredType
      <4>5. ASSUME NEW q \in Sessions, rec.session[q] # Nil
            PROVE  st.session[q] # Nil /\ rec.session[q].used = st.session[q].used
        BY <3>1, <3>2, <3>5, <4>2, <4>4, <4>5 DEF StoredType
      <4>6. Charges(rec) \subseteq Charges(st)
        BY <4>5 DEF Charges
      <4> QED BY <1>0, <3>2, <4>4, <4>6, FewerCharges DEF Sound, LaneHeld, TermsEnd
    <3> QED BY <3>4, <3>5
  <2> QED BY <2>1, <2>2
<1> HIDE DEF rec
<1>2. rec \in StoredType
  BY <1>1 DEF Sound
<1>3. opened \in SessionType
  BY Constants DEF SessionType, Times
<1>4. new = [rec EXCEPT !.session = [rec.session EXCEPT ![s] = opened], !.failures = Nil]
  BY <1>2 DEF OpenSession, StoredType, rec
<1>5. opened.used = 0
  OBVIOUS
<1> HIDE DEF opened, new
<1>6. /\ new \in StoredType /\ new.total = rec.total /\ new.lease = rec.lease /\ new.lane = rec.lane
      /\ new.session = [rec.session EXCEPT ![s] = opened]
  BY <1>2, <1>3, <1>4 DEF StoredType
<1>7. ASSUME NEW q \in Sessions, NEW i \in 1 .. MaxRuns, new.session[q] # Nil, i <= new.session[q].used
      PROVE  rec.session[q] # Nil /\ i <= rec.session[q].used
  BY <1>2, <1>5, <1>6, <1>7 DEF StoredType
<1>8. Charges(new) \subseteq Charges(rec)
  BY <1>7 DEF Charges
<1>9. Counted(new)
  BY <1>1, <1>2, <1>6, <1>8, FewerCharges DEF Sound
<1>10. LaneHeld(new) /\ TermsEnd(new, n)
  BY <1>1, <1>6 DEF Sound, LaneHeld, TermsEnd, LeasesOf
<1>11. Sound(new, n)
  BY <1>6, <1>9, <1>10 DEF Sound
<1> QED BY <1>11 DEF new

(* A reservation charges its session and the ledger together.              *)
LEMMA ReserveSound ==
  ASSUME NEW st, NEW n \in Nat, Sound(st, n), NEW t \in 0 .. MaxTime, t <= n,
         NEW s \in Sessions, NEW k \in Idems, Verdict(st, s, k) = "reserved"
  PROVE  Sound(Reserve(st, t, s, k), n)
<1> DEFINE lease  == [holder |-> s, run |-> Nil, expiresAt |-> t + LeaseTTL]
           charged == [st.session[s] EXCEPT !.lastSeen = t, !.used = @ + 1, !.active = k]
           new    == Reserve(st, t, s, k)
<1>0. st \in StoredType
  BY DEF Sound
<1>1. st.session[s] # Nil /\ ~ QuotaSpent(st, s)
  BY DEF Verdict
<1>2. st.session[s] \in SessionType
  BY <1>0, <1>1 DEF StoredType
<1>3. st.session[s].used \in 0 .. MaxRuns - 1 /\ st.total \in 0 .. Lifetime - 1
  BY <1>0, <1>1, <1>2, Constants DEF QuotaSpent, StoredType, SessionType
<1>4. charged \in SessionType /\ charged.used = st.session[s].used + 1
  <2> DEFINE u == st.session[s].used
  <2>1. u + 1 \in 0 .. MaxRuns
    BY <1>3, Constants
  <2>2. st.session[s] \in [expiresAt : Times, used : 0 .. MaxRuns,
                           active : Idems \cup Runs \cup {Nil}, lastSeen : 0 .. MaxTime]
    BY <1>2 DEF SessionType
  <2> HIDE DEF u
  <2>3. charged \in SessionType
    BY <2>1, <2>2 DEF SessionType, u
  <2>4. charged.used = u + 1
    BY <2>2 DEF u
  <2> QED BY <2>3, <2>4 DEF u
<1>5. /\ lease \in LeaseType /\ lease # Nil /\ lease.holder = s
      /\ lease.expiresAt = t + LeaseTTL
  BY LedgerAssumption, Constants DEF LeaseType, Times
<1>6. /\ DOMAIN new = {"session", "lease", "failures", "total", "lane"}
      /\ new = [f \in {"session", "lease", "failures", "total", "lane"} |-> new[f]]
      /\ new.failures = st.failures /\ new.lane = s /\ new.total = st.total + 1
      /\ new.lease = [st.lease EXCEPT ![k] = lease]
  BY <1>0 DEF Reserve, StoredType
<1>7. new.session = [st.session EXCEPT ![s] = charged]
  <2>1. st.session = [q \in Sessions |-> st.session[q]]
    BY <1>0 DEF StoredType
  <2>2. st.session[s] = [expiresAt |-> st.session[s].expiresAt, used |-> st.session[s].used,
                         active |-> st.session[s].active, lastSeen |-> st.session[s].lastSeen]
    BY <1>2 DEF SessionType
  <2> QED BY <1>0, <2>1, <2>2 DEF Reserve, StoredType
<1> HIDE DEF lease, charged, new
<1>8. new \in StoredType
  <2>1. /\ new.session \in [Sessions -> SessionType \cup {Nil}]
        /\ new.lease \in [Idems -> LeaseType \cup {Nil}]
        /\ new.failures \in [count : 0 .. MaxFailures, start : 0 .. MaxTime] \cup {Nil}
        /\ new.lane \in Sessions \cup {Nil}
    BY <1>0, <1>4, <1>5, <1>6, <1>7 DEF StoredType
  <2>2. new.total \in 0 .. Lifetime
    BY <1>3, <1>6, Constants
  <2>3. new = [session |-> new.session, lease |-> new.lease, failures |-> new.failures,
               total |-> new.total, lane |-> new.lane]
    BY <1>6
  <2> HIDE DEF new
  <2> QED BY <2>1, <2>2, <2>3 DEF StoredType
<1>9. LaneHeld(new)
  BY <1>0, <1>5, <1>6, <1>7 DEF LaneHeld, LeasesOf, StoredType
<1>10. TermsEnd(new, n)
  BY <1>0, <1>5, <1>6, <1>7, Constants DEF Sound, TermsEnd, StoredType
<1>11. Counted(new)
  <2> DEFINE u == st.session[s].used
  <2>1. ASSUME NEW q \in Sessions, NEW i \in 1 .. MaxRuns, new.session[q] # Nil,
               i <= new.session[q].used
        PROVE  <<q, i>> \in Charges(st) \cup {<<s, u + 1>>}
    BY <1>0, <1>1, <1>3, <1>4, <1>6, <1>7, <2>1 DEF Charges, StoredType
  <2>2. Charges(new) \subseteq Charges(st) \cup {<<s, u + 1>>}
    BY <2>1 DEF Charges
  <2>3. /\ IsFiniteSet(Charges(st) \cup {<<s, u + 1>>})
        /\ Cardinality(Charges(st) \cup {<<s, u + 1>>}) <= Cardinality(Charges(st)) + 1
    <3>1. IsFiniteSet(Charges(st)) /\ Cardinality(Charges(st)) \in Nat
      BY FS_CardinalityType DEF Sound, Counted
    <3>2. /\ IsFiniteSet(Charges(st) \cup {<<s, u + 1>>})
          /\ Cardinality(Charges(st) \cup {<<s, u + 1>>})
               \in {Cardinality(Charges(st)), Cardinality(Charges(st)) + 1}
      BY <3>1, FS_AddElement, Zenon
    <3> QED BY <3>1, <3>2
  <2>4. /\ IsFiniteSet(Charges(new))
        /\ Cardinality(Charges(new)) <= Cardinality(Charges(st) \cup {<<s, u + 1>>})
    BY <2>2, <2>3, FS_Subset
  <2>5. /\ Cardinality(Charges(new)) \in Nat /\ Cardinality(Charges(st)) \in Nat
        /\ Cardinality(Charges(st) \cup {<<s, u + 1>>}) \in Nat
    BY <2>3, <2>4, FS_CardinalityType DEF Sound, Counted
  <2> QED BY <1>3, <1>6, <1>7, <2>3, <2>4, <2>5 DEF Sound, Counted
<1>12. Sound(new, n)
  BY <1>8, <1>9, <1>10, <1>11 DEF Sound
<1> QED BY <1>12 DEF new

(* Binding a reservation to its run changes neither its holder nor its     *)
(* term.                                                                   *)
LEMMA BindSound ==
  ASSUME NEW st, NEW n \in Nat, Sound(st, n),
         NEW s \in Sessions, NEW k \in LeasesOf(st, s), NEW b \in Runs
  PROVE  Sound(Bind(st, s, k, b), n)
<1> DEFINE lease  == [st.lease[k] EXCEPT !.run = b]
           bound  == [st EXCEPT !.lease[k].run = b]
           active == [st.session[s] EXCEPT !.active = b]
           new    == Bind(st, s, k, b)
<1>0. st \in StoredType /\ k \in Idems
  BY DEF Sound, LeasesOf
<1>1. st.lease[k] \in LeaseType /\ st.lease[k].holder = s
  BY <1>0 DEF StoredType, LeasesOf
<1>2. /\ lease \in LeaseType /\ lease # Nil
      /\ lease.holder = s /\ lease.expiresAt = st.lease[k].expiresAt
  <2>1. lease \in LeaseType /\ lease.holder = s /\ lease.expiresAt = st.lease[k].expiresAt
    BY <1>1 DEF LeaseType
  <2>2. LeaseType \subseteq [holder : Sessions, run : Runs \cup {Nil}, expiresAt : Nat]
    BY Constants DEF LeaseType, Times
  <2> HIDE DEF lease
  <2> QED BY <2>1, <2>2, LedgerAssumption
<1>3. bound = [st EXCEPT !.lease = [st.lease EXCEPT ![k] = lease]]
  BY <1>0 DEF StoredType
<1> HIDE DEF lease, bound
<1>4. /\ bound \in StoredType /\ bound.lane = st.lane /\ bound.total = st.total
      /\ bound.session = st.session /\ bound.lease = [st.lease EXCEPT ![k] = lease]
  BY <1>0, <1>2, <1>3 DEF StoredType
<1>5. CASE st.session[s] = Nil
  <2>1. new = bound
    BY <1>4, <1>5 DEF Bind, SetActive, bound
  <2> HIDE DEF new
  <2>2. Charges(new) \subseteq Charges(st)
    BY <1>4, <2>1 DEF Charges
  <2>3. LaneHeld(new)
    BY <1>0, <1>2, <1>4, <2>1 DEF Sound, LaneHeld, LeasesOf, StoredType
  <2>4. TermsEnd(new, n)
    BY <1>0, <1>1, <1>2, <1>4, <2>1, LedgerAssumption, Constants
    DEF Sound, TermsEnd, StoredType, LeaseType, Times
  <2>5. Sound(new, n)
    BY <1>0, <1>4, <2>1, <2>2, <2>3, <2>4, FewerCharges DEF Sound
  <2> QED BY <2>5 DEF new
<1>6. CASE st.session[s] # Nil
  <2>1. st.session[s] \in SessionType
    BY <1>0, <1>6 DEF StoredType
  <2>2. active \in SessionType /\ active.used = st.session[s].used
    BY <2>1 DEF SessionType
  <2>3. new = [bound EXCEPT !.session = [st.session EXCEPT ![s] = active]]
    BY <1>4, <1>6 DEF Bind, SetActive, bound, StoredType
  <2> HIDE DEF active, new
  <2>4. /\ new \in StoredType /\ new.lane = st.lane /\ new.total = st.total
        /\ new.session = [st.session EXCEPT ![s] = active] /\ new.lease = bound.lease
    BY <1>0, <1>4, <2>2, <2>3 DEF StoredType
  <2>5. ASSUME NEW q \in Sessions, new.session[q] # Nil
        PROVE  st.session[q] # Nil /\ new.session[q].used = st.session[q].used
    BY <1>0, <1>6, <2>2, <2>4, <2>5 DEF StoredType
  <2>6. Charges(new) \subseteq Charges(st)
    BY <2>5 DEF Charges
  <2>7. LaneHeld(new)
    BY <1>0, <1>2, <1>4, <2>4 DEF Sound, LaneHeld, LeasesOf, StoredType
  <2>8. TermsEnd(new, n)
    BY <1>0, <1>1, <1>2, <1>4, <2>4, LedgerAssumption, Constants
    DEF Sound, TermsEnd, StoredType, LeaseType, Times
  <2>9. Sound(new, n)
    BY <1>0, <2>4, <2>6, <2>7, <2>8, FewerCharges DEF Sound
  <2> QED BY <2>9 DEF new
<1> QED BY <1>5, <1>6

(* A release frees the lane together with the reservations it drops: they  *)
(* are all of the session that loses the lane.                             *)
LEMMA ReleaseSound ==
  ASSUME NEW st, NEW n \in Nat, Sound(st, n), NEW t \in 0 .. MaxTime, NEW s \in Sessions,
         NEW b \in Runs \cup {Nil}, st.session[s] # Nil
  PROVE  Sound(Release(st, t, s, b), n)
<1> DEFINE kept  == DropLeases(st, Matching(st, s, b))
           freed == [st.session[s] EXCEPT !.lastSeen = t, !.active = Nil]
           new   == Release(st, t, s, b)
<1>0. st \in StoredType
  BY DEF Sound
<1>1. st.session[s] \in SessionType
  BY <1>0 DEF StoredType
<1>2. freed \in SessionType /\ freed.used = st.session[s].used
  BY <1>1 DEF SessionType
<1>3. /\ kept \in StoredType
      /\ kept.total = st.total /\ kept.session = st.session /\ kept.lane = st.lane
      /\ \A k \in Idems : kept.lease[k] \in {Nil, st.lease[k]}
      /\ \A k \in Idems : st.lease[k] # Nil /\ st.lease[k].holder # s => kept.lease[k] = st.lease[k]
  BY <1>0 DEF StoredType, DropLeases, Matching, LeasesOf
<1>4. new = [kept EXCEPT !.session = [st.session EXCEPT ![s] = freed],
                         !.lane = IF st.lane = s THEN Nil ELSE st.lane]
  <2>1. st.session[s] = [expiresAt |-> st.session[s].expiresAt, used |-> st.session[s].used,
                         active |-> st.session[s].active, lastSeen |-> st.session[s].lastSeen]
    BY <1>1 DEF SessionType
  <2> HIDE DEF kept
  <2> QED BY <1>3, <2>1 DEF Release, StoredType, kept
<1> HIDE DEF kept, freed, new
<1>5. /\ new \in StoredType /\ new.total = st.total /\ new.lease = kept.lease
      /\ new.lane = (IF st.lane = s THEN Nil ELSE st.lane)
      /\ new.session = [st.session EXCEPT ![s] = freed]
  BY <1>0, <1>2, <1>3, <1>4 DEF StoredType
<1>6. ASSUME NEW q \in Sessions, new.session[q] # Nil
      PROVE  st.session[q] # Nil /\ new.session[q].used = st.session[q].used
  BY <1>0, <1>2, <1>5, <1>6 DEF StoredType
<1>7. Charges(new) \subseteq Charges(st)
  BY <1>6 DEF Charges
<1>8. LaneHeld(new)
  BY <1>3, <1>5 DEF Sound, LaneHeld, LeasesOf
<1>9. TermsEnd(new, n)
  BY <1>3, <1>5 DEF Sound, TermsEnd
<1>10. Sound(new, n)
  BY <1>0, <1>5, <1>7, <1>8, <1>9, FewerCharges DEF Sound
<1> QED BY <1>10 DEF new

---------------------------------------------------------------------------
(* The steps.                                                              *)

(* A call that needs a session, a key or a run has it.                     *)
Addressed ==
  \A c \in Calls :
    /\ pc[c] \in {"login", "release", "authorize", "container", "bind"} => arg[c].session \in Sessions
    /\ pc[c] \in {"authorize", "container", "bind"} => arg[c].idem \in Idems /\ arg[c].run \in Runs

Copies ==
  /\ snap = [c \in Calls |-> snap[c]]
  /\ \A c \in Calls : snap[c] # Nil => snap[c].t \in 0 .. now /\ Sound(snap[c].st, now)

Shapes ==
  /\ now \in 0 .. MaxTime
  /\ calls \in 0 .. MaxCalls
  /\ tokens \subseteq Sessions
  /\ run \in [Runs -> {"none", "running", "settled"}]
  /\ pc \in [Calls -> LedgerOps \cup {"idle", "container"}]
  /\ arg \in [Calls -> [session : Sessions \cup {Nil}, idem : Idems \cup {Nil},
                        run : Runs \cup {Nil}]]

(* The inductive invariant.                                                *)
IInv == Shapes /\ Addressed /\ Copies /\ Sound(stored, now)

LEMMA InitHolds == Init => IInv
<1> SUFFICES ASSUME Init PROVE IInv
  OBVIOUS
<1>1. Shapes
  BY Constants DEF Init, Shapes, NoArg, LedgerOps
<1>2. Addressed
  BY DEF Init, Addressed
<1>3. Copies
  BY DEF Init, Copies
<1>4. stored \in StoredType
  BY Constants DEF Init, StoredType
<1>5. LaneHeld(stored) /\ TermsEnd(stored, now)
  BY DEF Init, LaneHeld, TermsEnd
<1>6. Counted(stored)
  <2>1. Charges(stored) = {}
    BY DEF Init, Charges
  <2> QED BY <2>1, FS_EmptySet DEF Init, Counted
<1> QED BY <1>1, <1>2, <1>3, <1>4, <1>5, <1>6 DEF IInv, Sound

LEMMA CopySound ==
  ASSUME IInv
  PROVE  Copy.t \in 0 .. now /\ Sound(Copy.st, now)
<1>1. now \in 0 .. MaxTime /\ now \in Nat /\ Sound(stored, now)
  BY Constants DEF IInv, Shapes
<1> QED BY <1>1, SweepSound DEF Copy

LEMMA BeginHolds ==
  ASSUME IInv, NEW c \in Calls, NEW op \in {"login", "badlogin", "authorize", "release"},
         NEW s \in Sessions \cup {Nil}, NEW k \in Idems \cup {Nil}, NEW b \in Runs \cup {Nil},
         op # "badlogin" => s \in Sessions,
         op = "authorize" => k \in Idems /\ b \in Runs,
         Begin(c, op, s, k, b), tokens' \subseteq Sessions,
         snap' \in {snap, [snap EXCEPT ![c] = Copy]}
  PROVE  IInv'
<1>1. Shapes'
  BY Constants DEF IInv, Shapes, Begin, LedgerOps
<1>2. Addressed'
  BY DEF IInv, Shapes, Addressed, Begin
<1>3. Copies'
  BY CopySound DEF IInv, Copies, Begin
<1>4. Sound(stored, now)'
  BY DEF IInv, Begin
<1> QED BY <1>1, <1>2, <1>3, <1>4 DEF IInv

LEMMA ReadHolds ==
  ASSUME IInv, NEW c \in Calls, Read(c)
  PROVE  IInv'
<1>1. Shapes' /\ Addressed'
  BY DEF IInv, Shapes, Addressed, Read
<1>2. Copies'
  BY CopySound DEF IInv, Copies, Read
<1>3. Sound(stored, now)'
  BY DEF IInv, Read
<1> QED BY <1>1, <1>2, <1>3 DEF IInv

(* A call may write any sound object.                                      *)
LEMMA AnswerHolds ==
  ASSUME IInv, NEW c \in Calls, NEW st, Sound(st, now), NEW next \in {"idle", "container"},
         next = "container" => pc[c] = "authorize",
         Answer(c, st, next)
  PROVE  IInv'
<1>1. Shapes'
  BY DEF IInv, Shapes, Answer, LedgerOps, NoArg
<1>2. Addressed'
  BY DEF IInv, Shapes, Addressed, Answer
<1>3. Copies'
  BY DEF IInv, Copies, Answer
<1>4. Sound(stored, now)'
  BY DEF Answer
<1> QED BY <1>1, <1>2, <1>3, <1>4 DEF IInv

(* The copy a handler works on.                                            *)
LEMMA CopyHeld ==
  ASSUME IInv, NEW c \in Calls, snap[c] # Nil
  PROVE  /\ snap[c].t \in 0 .. MaxTime /\ snap[c].t <= now /\ now \in Nat
         /\ Sound(snap[c].st, now)
  BY Constants DEF IInv, Shapes, Copies

LEMMA HandleLoginHolds ==
  ASSUME IInv, NEW c \in Calls, HandleLogin(c)
  PROVE  IInv'
<1> DEFINE st == snap[c].st
           t  == snap[c].t
           f  == Failures(st, t)
<1>1. pc[c] \in {"login", "badlogin"} /\ snap[c] # Nil
  BY DEF HandleLogin
<1>2. t \in 0 .. MaxTime /\ now \in Nat /\ Sound(st, now)
  BY <1>1, CopyHeld
<1> HIDE DEF st, t
<1>3. CASE f.count >= MaxFailures /\ Answer(c, st, "idle")
  BY <1>2, <1>3, AnswerHolds
<1>4. CASE /\ f.count < MaxFailures
           /\ Answer(c, [st EXCEPT !.failures = [f EXCEPT !.count = @ + 1]], "idle")
  <2>1. Sound([st EXCEPT !.failures = [f EXCEPT !.count = @ + 1]], now)
    BY <1>2, <1>4, FailureSound
  <2> HIDE DEF f
  <2> QED BY <1>4, <2>1, AnswerHolds
<1>5. CASE pc[c] = "login" /\ Answer(c, OpenSession(st, t, arg[c].session), "idle")
  <2>1. arg[c].session \in Sessions
    BY <1>5 DEF IInv, Addressed
  <2>2. Sound(OpenSession(st, t, arg[c].session), now)
    BY <1>2, <2>1, OpenSound
  <2> QED BY <1>5, <2>2, AnswerHolds
<1> QED BY <1>3, <1>4, <1>5 DEF HandleLogin, st, t

LEMMA HandleAuthorizeHolds ==
  ASSUME IInv, NEW c \in Calls, HandleAuthorize(c)
  PROVE  IInv'
<1> DEFINE st == snap[c].st
           t  == snap[c].t
           s  == arg[c].session
           k  == arg[c].idem
<1>1. pc[c] = "authorize" /\ snap[c] # Nil
  BY DEF HandleAuthorize, Handles
<1>2. t \in 0 .. MaxTime /\ t <= now /\ now \in Nat /\ Sound(st, now)
  BY <1>1, CopyHeld
<1>3. s \in Sessions /\ k \in Idems
  BY <1>1 DEF IInv, Addressed
<1> HIDE DEF st, t, s, k
<1>4. CASE Answer(c, st, "idle")
  BY <1>2, <1>4, AnswerHolds
<1>5. CASE Answer(c, st, "container")
  BY <1>1, <1>2, <1>5, AnswerHolds
<1>6. CASE Verdict(st, s, k) = "reserved" /\ Answer(c, Reserve(st, t, s, k), "container")
  <2>1. Sound(Reserve(st, t, s, k), now)
    BY <1>2, <1>3, <1>6, ReserveSound
  <2> QED BY <1>1, <1>6, <2>1, AnswerHolds
<1> QED BY <1>4, <1>5, <1>6 DEF HandleAuthorize, st, t, s, k

LEMMA HandleBindHolds ==
  ASSUME IInv, NEW c \in Calls, HandleBind(c)
  PROVE  IInv'
<1> DEFINE st == snap[c].st
           s  == arg[c].session
           k  == arg[c].idem
           b  == arg[c].run
           new == IF k \in LeasesOf(st, s) THEN Bind(st, s, k, b) ELSE stored
<1>1. pc[c] = "bind" /\ snap[c] # Nil
  BY DEF HandleBind, Handles
<1>2. now \in Nat /\ Sound(st, now) /\ Sound(stored, now)
  BY <1>1, CopyHeld DEF IInv
<1>3. s \in Sessions /\ b \in Runs
  BY <1>1 DEF IInv, Addressed
<1>4. Answer(c, new, "idle")
  BY DEF HandleBind
<1> HIDE DEF st, s, k, b
<1>5. Sound(new, now)
  BY <1>2, <1>3, BindSound
<1> HIDE DEF new
<1> QED BY <1>4, <1>5, AnswerHolds

LEMMA HandleReleaseHolds ==
  ASSUME IInv, NEW c \in Calls, HandleRelease(c)
  PROVE  IInv'
<1> DEFINE st == snap[c].st
           t  == snap[c].t
           s  == arg[c].session
           b  == arg[c].run
           new == IF st.session[s] # Nil THEN Release(st, t, s, b) ELSE stored
<1>1. pc[c] = "release" /\ snap[c] # Nil
  BY DEF HandleRelease, Handles
<1>2. t \in 0 .. MaxTime /\ now \in Nat /\ Sound(st, now) /\ Sound(stored, now)
  BY <1>1, CopyHeld DEF IInv
<1>3. s \in Sessions /\ b \in Runs \cup {Nil}
  BY <1>1 DEF IInv, Addressed, Shapes
<1>4. Answer(c, new, "idle")
  BY DEF HandleRelease
<1> HIDE DEF st, t, s, b
<1>5. Sound(new, now)
  BY <1>2, <1>3, ReleaseSound
<1> HIDE DEF new
<1> QED BY <1>4, <1>5, AnswerHolds

LEMMA NextHolds == IInv /\ [Next]_vars => IInv'
<1> SUFFICES ASSUME IInv, [Next]_vars PROVE IInv'
  OBVIOUS
<1>1. ASSUME NEW c \in Calls, Login(c) PROVE IInv'
  <2>1. PICK s \in Sessions \ tokens : Send(c, "login", s, Nil, Nil) /\ tokens' = tokens \cup {s}
    BY <1>1 DEF Login
  <2> QED BY <2>1, BeginHolds DEF Send, IInv, Shapes
<1>2. ASSUME NEW c \in Calls, BadLogin(c) PROVE IInv'
  BY <1>2, BeginHolds DEF BadLogin, Send, IInv, Shapes
<1>3. ASSUME NEW c \in Calls, Post(c) PROVE IInv'
  <2>1. PICK s \in tokens, k \in Idems, b \in Runs : Send(c, "authorize", s, k, b)
    BY <1>3 DEF Post
  <2>2. UNCHANGED tokens
    BY <1>3 DEF Post
  <2> QED BY <2>1, <2>2, BeginHolds DEF Send, IInv, Shapes
<1>4. ASSUME NEW c \in Calls, Poll(c) PROVE IInv'
  <2>1. PICK s \in tokens, b \in Runs : Begin(c, "release", s, Nil, b)
    BY <1>4 DEF Poll
  <2>2. UNCHANGED <<tokens, snap>>
    BY <1>4 DEF Poll
  <2> QED BY <2>1, <2>2, BeginHolds DEF IInv, Shapes
<1>5. ASSUME NEW c \in Calls, Logout(c) PROVE IInv'
  <2>1. PICK s \in tokens : Send(c, "release", s, Nil, Nil)
    BY <1>5 DEF Logout
  <2>2. UNCHANGED tokens
    BY <1>5 DEF Logout
  <2> QED BY <2>1, <2>2, BeginHolds DEF Send, IInv, Shapes
<1>6. ASSUME NEW c \in Calls, ContainerPost(c) PROVE IInv'
  <2>1. Shapes'
    BY <1>6 DEF IInv, Shapes, ContainerPost, LedgerOps, NoArg
  <2>2. Addressed'
    BY <1>6 DEF IInv, Shapes, Addressed, ContainerPost
  <2>3. Copies' /\ Sound(stored, now)'
    BY <1>6 DEF IInv, Copies, ContainerPost
  <2> QED BY <2>1, <2>2, <2>3 DEF IInv
<1>7. ASSUME NEW b \in Runs, Settle(b) PROVE IInv'
  <2>1. Shapes' /\ Addressed'
    BY <1>7 DEF IInv, Shapes, Addressed, Settle, request
  <2>2. Copies' /\ Sound(stored, now)'
    BY <1>7 DEF IInv, Copies, Settle, request
  <2> QED BY <2>1, <2>2 DEF IInv
<1>8. CASE Tick
  <2>1. now \in Nat /\ now' = now + 1
    BY <1>8, Constants DEF Tick, IInv, Shapes
  <2>2. ASSUME NEW st, Sound(st, now) PROVE Sound(st, now')
    <3>1. ASSUME NEW k \in Idems, st.lease[k] # Nil
          PROVE  st.lease[k].expiresAt <= now' + LeaseTTL
      <4>1. st.lease[k].expiresAt \in Nat /\ st.lease[k].expiresAt <= now + LeaseTTL
        BY <2>2, <3>1, Constants DEF Sound, TermsEnd, StoredType, LeaseType, Times
      <4> QED BY <2>1, <4>1, Constants
    <3> QED BY <2>2, <3>1 DEF Sound, TermsEnd
  <2>3. Shapes' /\ Addressed'
    BY <1>8, Constants DEF IInv, Shapes, Addressed, Tick, request
  <2>4. Copies' /\ Sound(stored, now)'
    BY <1>8, <2>1, <2>2 DEF IInv, Copies, Tick, request
  <2> QED BY <2>3, <2>4 DEF IInv
<1>9. CASE UNCHANGED vars
  BY <1>9 DEF vars, request, IInv, Shapes, Addressed, Copies
<1> QED
  BY <1>1, <1>2, <1>3, <1>4, <1>5, <1>6, <1>7, <1>8, <1>9,
     ReadHolds, HandleLoginHolds, HandleAuthorizeHolds, HandleBindHolds, HandleReleaseHolds
  DEF Next

LEMMA Invariant == Spec => []IInv
  BY InitHolds, NextHolds, PTL DEF Spec

---------------------------------------------------------------------------
(* The theorems.                                                           *)

(* Whatever calls overwrite each other's writes, the stored object keeps   *)
(* its shape: no session is charged more runs than its quota, the ledger   *)
(* no more than its lifetime, and no window counts more failed logins than *)
(* are allowed (writeState in deploy/cloudflare/src/index.js).             *)
THEOREM LedgerTypeCorrect == Spec => []LedgerTypeOK
<1>1. IInv => LedgerTypeOK
  <2> SUFFICES ASSUME IInv PROVE LedgerTypeOK
    OBVIOUS
  <2>1. ASSUME NEW c \in Calls, snap[c] # Nil
        PROVE  snap[c].st \in StoredType /\ snap[c].t <= now
    BY <2>1, CopyHeld DEF Sound
  <2> QED BY <2>1 DEF IInv, Shapes, Sound, LedgerTypeOK
<1> QED BY <1>1, Invariant, PTL

(* The lane is never held without a reservation of its holder that expires *)
(* within LeaseTTL: no order of authorizations, binds, releases, logins    *)
(* and sweeps shuts judges out for longer.                                 *)
THEOREM LaneRunsOut == Spec => []LaneIsLeased
<1>1. IInv => LaneIsLeased
  <2> SUFFICES ASSUME IInv PROVE LaneIsLeased
    OBVIOUS
  <2> DEFINE st == Sweep(stored, now)
  <2>1. now \in 0 .. MaxTime /\ now \in Nat /\ Sound(stored, now)
    BY Constants DEF IInv, Shapes
  <2>2. /\ Sound(st, now)
        /\ \A k \in Idems : st.lease[k] # Nil => st.lease[k].expiresAt > now
    BY <2>1, SweepSound
  <2> HIDE DEF st
  <2>3. ASSUME st.lane # Nil
        PROVE  \E k \in LeasesOf(st, st.lane) : st.lease[k].expiresAt - now \in 1 .. LeaseTTL
    <3>1. PICK k \in LeasesOf(st, st.lane) : TRUE
      BY <2>2, <2>3 DEF Sound, LaneHeld
    <3>2. k \in Idems /\ st.lease[k] # Nil
      BY <3>1 DEF LeasesOf
    <3>3. st.lease[k].expiresAt \in Nat
      BY <2>2, <3>2, Constants DEF Sound, StoredType, LeaseType, Times
    <3>4. st.lease[k].expiresAt > now /\ st.lease[k].expiresAt <= now + LeaseTTL
      BY <2>2, <3>2 DEF Sound, TermsEnd
    <3> QED BY <2>1, <3>1, <3>3, <3>4, Constants
  <2> QED BY <2>3 DEF LaneIsLeased, st
<1> QED BY <1>1, Invariant, PTL

(* What the open sessions have been charged is covered by the lifetime     *)
(* counter: no order of reads and writes refunds the ledger and not the    *)
(* session, for any number of sessions and calls.                          *)
THEOREM SpendStaysCounted == Spec => []SpendIsCounted
<1>1. IInv => SpendIsCounted
  BY DEF IInv, Sound, Counted, SpendIsCounted
<1> QED BY <1>1, Invariant, PTL
===========================================================================
