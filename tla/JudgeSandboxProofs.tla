------------------------- MODULE JudgeSandboxProofs -------------------------
(* Theorems about JudgeSandbox, for every value of its constants. *)
EXTENDS JudgeSandbox, RunLifecycleProofs, FiniteSetTheorems

(* A capability being redeemed has been issued.                            *)
Presented == \A s \in Sessions : xpc[s] = "redeem" => CapOf[s] \in issued

JTyped == Typed /\ JTypeOK /\ Presented

LEMMA InitJTyped == JInit => JTyped
  BY InitTyped, SandboxAssumption
  DEF JInit, JTyped, JTypeOK, Presented, Permits

(* The two steps of reserve_judge_run that touch what RunLifecycle keeps.  *)
LEMMA DenyTyped ==
  ASSUME Typed, NEW r \in Requests, Deny(r)
  PROVE  Typed'
<1> USE DEF Typed, StateOK, Located, At, Goto, PCs, rows, prune
<1>1. rid[r] \in Ids BY DEF Deny, AtReserve
<1>2. CASE created[r]  BY <1>1, <1>2 DEF Deny, FailRun, SetRow, Statuses
<1>3. CASE ~created[r] BY <1>1, <1>3 DEF Deny
<1> QED BY <1>2, <1>3

LEMMA GotoDoneTyped ==
  ASSUME Typed, NEW r \in Requests, Goto(r, "done"),
         UNCHANGED <<up, rows, file, lock, rid, created, retried, held, prune>>
  PROVE  Typed'
  BY DEF Typed, StateOK, Located, Goto, PCs, rows, prune

LEMMA SameTyped == ASSUME Typed, UNCHANGED vars PROVE Typed'
  BY NextTyped

LEMMA ReserveJTyped ==
  ASSUME JTyped, NEW r \in Requests, ReserveStep(r)
  PROVE  JTyped'
<1> USE DEF JTyped, AtReserve, At, Judged, Permit
<1>1. rid[r] \in Ids /\ keyOf[rid[r]] \in Keys /\ Scope(r) \in Sessions
  BY SandboxAssumption DEF Typed, Located, Scope, ReserveStep, ReserveRead,
     ReserveCheck, ReserveQuota, ReserveSpend, Deny
<1>2. CASE ReserveRead(r)
  <2>1. Typed' BY <1>2, SameTyped DEF ReserveRead
  <2> QED BY <1>1, <1>2, <2>1
          DEF ReserveRead, JTypeOK, Presented, Permits, tickets, quota
<1>3. CASE ReserveCheck(r)
  <2>1. Typed' BY <1>3, SameTyped DEF ReserveCheck
  <2> QED BY <1>3, <2>1
          DEF ReserveCheck, JTypeOK, Presented, Permits, tickets, quota
<1>4. CASE ReserveQuota(r)
  <2>1. Typed' BY <1>4, SameTyped DEF ReserveQuota
  <2> QED BY <1>4, <2>1 DEF ReserveQuota, JTypeOK, Presented, Permits, tickets
<1>5. CASE ReserveSpend(r)
  <2>1. Typed' BY <1>5, SameTyped, GotoDoneTyped DEF ReserveSpend
  <2>2. CASE holder[rid[r]] = Nil
    <3>1. /\ holder' = [holder EXCEPT ![rid[r]] = Scope(r)]
          /\ used'   = [used EXCEPT ![Scope(r)] = @ + 1]
          /\ active' = [active EXCEPT ![Scope(r)] = rid[r]]
          /\ permit' = [permit EXCEPT ![r] = "granted"]
          /\ UNCHANGED <<tickets, seen>>
      BY <1>5, <2>2 DEF ReserveSpend
    <3>2. used' \in [Sessions -> Nat] BY <1>1, <3>1 DEF JTypeOK
    <3> QED BY <1>1, <2>1, <3>1, <3>2 DEF JTypeOK, Presented, Permits, tickets
  <2>3. CASE holder[rid[r]] # Nil
    BY <1>5, <2>1, <2>3 DEF ReserveSpend, JTypeOK, Presented, tickets, quota
  <2> QED BY <2>2, <2>3
<1>6. CASE Deny(r)
  <2>1. Typed' BY <1>6, DenyTyped
  <2> QED BY <1>6, <2>1 DEF Deny, JTypeOK, Presented, judge, tickets, quota
<1> QED BY <1>2, <1>3, <1>4, <1>5, <1>6 DEF ReserveStep

LEMMA CapabilityJTyped ==
  ASSUME JTyped, NEW c \in Capabilities, Issue(c) \/ Expire(c)
  PROVE  JTyped'
<1>1. Typed' BY SameTyped DEF JTyped, Issue, Expire
<1> QED BY <1>1 DEF JTyped, JTypeOK, Presented, Issue, Expire, quota

LEMMA SessionJTyped ==
  ASSUME JTyped, NEW s \in Sessions, Present(s) \/ Redeem(s)
  PROVE  JTyped'
<1>1. Typed' BY SameTyped DEF JTyped, Present, Redeem
<1>2. CASE Present(s)
  BY <1>1, <1>2 DEF JTyped, JTypeOK, Presented, Present, quota
<1>3. CASE Redeem(s)
  BY <1>1, <1>3 DEF JTyped, JTypeOK, Presented, Redeem, quota
<1> QED BY <1>2, <1>3

LEMMA NextJTyped == JTyped /\ [JNext]_jvars => JTyped'
<1> SUFFICES ASSUME JTyped, [JNext]_jvars PROVE JTyped'
  OBVIOUS
<1> DEFINE Kept == UNCHANGED judge /\ [Next]_vars
<1>1. CASE \E c \in Capabilities : Issue(c) \/ Expire(c)
  BY <1>1, CapabilityJTyped
<1>2. CASE \E s \in Sessions : Present(s) \/ Redeem(s)
  BY <1>2, SessionJTyped
<1>3. CASE \E r \in Requests : ReserveStep(r)
  BY <1>3, ReserveJTyped
<1>4. CASE JCrash
  <2>1. Typed' BY <1>4, NextTyped DEF JCrash, Next, JTyped
  <2> QED BY <1>4, <2>1 DEF JCrash, JTyped, JTypeOK, Presented, quota
<1>5. CASE Kept
  <2>1. Typed' BY <1>5, NextTyped DEF JTyped
  <2> QED BY <1>5, <2>1 DEF JTyped, JTypeOK, Presented, judge, tickets, quota
<1>6. CASE \E r \in Requests, k \in Keys : MayPost(k) /\ Post(r, k) /\ UNCHANGED judge
  BY <1>5, <1>6 DEF Next
<1>7. CASE \E r \in Requests : RunStep(r)
  BY <1>5, <1>7 DEF Next, RunStep
<1>8. CASE Restart /\ UNCHANGED judge
  BY <1>5, <1>8 DEF Next
<1>9. CASE \E a \in Assets : Corrupt(a) /\ UNCHANGED judge
  BY <1>5, <1>9 DEF Next
<1>10. CASE UNCHANGED jvars
  BY <1>5, <1>10 DEF jvars
<1> QED
  BY <1>1, <1>2, <1>3, <1>4, <1>6, <1>7, <1>8, <1>9, <1>10 DEF JNext

(* The judge tables and reserve_judge_run's locals keep their types, and   *)
(* only an issued capability is ever redeemed.                             *)
THEOREM SandboxTypeCorrect == JSpec => []JTypeOK
<1>1. JSpec => []JTyped BY InitJTyped, NextJTyped, PTL DEF JSpec
<1> QED BY <1>1, PTL DEF JTyped

LEMMA SandboxTyped == JSpec => []JTyped
  BY InitJTyped, NextJTyped, PTL DEF JSpec

---------------------------------------------------------------------------
(* One session per capability.  The guarded UPDATE is what decides the     *)
(* race, so an open session's capability is a redeemed one.                *)
OpenIsRedeemed == \A s \in Sessions : xpc[s] = "open" => CapOf[s] \in redeemed

Exchanged == OpenIsRedeemed /\ OneSessionPerCapability

LEMMA InitExchanged == JInit => Exchanged
  BY DEF JInit, Exchanged, OpenIsRedeemed, OneSessionPerCapability

LEMMA NextExchanged == JTyped /\ Exchanged /\ [JNext]_jvars => Exchanged'
<1> SUFFICES ASSUME JTyped, Exchanged, [JNext]_jvars PROVE Exchanged'
  OBVIOUS
<1> USE DEF Exchanged, OpenIsRedeemed, OneSessionPerCapability
<1>1. CASE \E s \in Sessions : Present(s)
  BY <1>1 DEF Present, JTyped, JTypeOK
<1>2. CASE \E s \in Sessions : Redeem(s)
  <2>1. PICK s \in Sessions : Redeem(s) BY <1>2
  <2>2. /\ redeemed' = redeemed \cup {CapOf[s]}
        /\ xpc' = [xpc EXCEPT ![s] =
             IF CapOf[s] \notin redeemed THEN "open" ELSE "refused"]
    BY <2>1 DEF Redeem
  <2>3. CASE CapOf[s] \in redeemed
    BY <2>2, <2>3 DEF JTyped, JTypeOK
  <2>4. CASE CapOf[s] \notin redeemed
    <3>1. \A t \in Sessions : xpc[t] = "open" => CapOf[t] # CapOf[s]
      BY <2>4
    <3> QED BY <2>2, <2>4, <3>1 DEF JTyped, JTypeOK
  <2> QED BY <2>3, <2>4
<1>3. CASE JCrash BY <1>3 DEF JCrash
<1>4. CASE UNCHANGED <<redeemed, xpc>> BY <1>4
<1> QED
  BY <1>1, <1>2, <1>3, <1>4 DEF JNext, Issue, Expire, ReserveStep, ReserveRead,
     ReserveCheck, ReserveQuota, ReserveSpend, Deny, RunStep, jvars, judge, tickets

(* However many exchanges race for a capability, one session comes of it   *)
(* (redeem_judge_capability).                                              *)
THEOREM OneSessionComesOfACapability == JSpec => []OneSessionPerCapability
<1>1. JSpec => []Exchanged
  BY InitExchanged, NextExchanged, SandboxTyped, PTL DEF JSpec
<1> QED BY <1>1, PTL DEF Exchanged

---------------------------------------------------------------------------
(* A judge's run is charged before its provider is called.  The permit of  *)
(* a request says what it has read; that it stays true is a matter of what *)
(* never changes: the id a request works on, the key of a row that was     *)
(* inserted, and the holder of a reservation.                              *)
RowKnown ==
  /\ \A r \in Requests : rid[r] # Nil => status[rid[r]] # "unused"
  /\ \A r \in Requests : pc[r] = "unsent" => rid[r] = Nil /\ permit[r] = "none"

GrantIsCharged ==
  \A r \in Requests : permit[r] = "granted" =>
    Judged(r) /\ holder[rid[r]] = Scope(r)

TaskIsGranted ==
  \A r \in Requests :
    pc[r] \in {"task", "acquire", "render", "complete", "fail"} /\ Judged(r) =>
      permit[r] = "granted"

Charged == RowKnown /\ GrantIsCharged /\ TaskIsGranted

LEMMA InitCharged == JInit => Charged
  BY DEF JInit, Init, Charged, RowKnown, GrantIsCharged, TaskIsGranted

(* What a step by request r leaves alone: the ids, keys and reservations   *)
(* of the requests that have them, and the threads of the others.          *)
Rooted ==
  \A s \in Requests : rid[s] # Nil =>
    /\ rid'[s] = rid[s] /\ keyOf'[rid[s]] = keyOf[rid[s]]
    /\ status'[rid[s]] # "unused"

LEMMA HandlerRooted ==
  ASSUME Typed, RowKnown, NEW r \in Requests, HandlerStep(r)
  PROVE  Rooted /\ rid' = rid
<1> USE DEF Typed, StateOK, Located, Rooted, RowKnown, rows, At
<1>1. CASE Lookup(r)     BY <1>1 DEF Lookup
<1>2. CASE Verify(r)     BY <1>2 DEF Verify
<1>3. CASE Condemn(r)    BY <1>3 DEF Condemn, FailRun, SetRow
<1>4. CASE Reread(r)     BY <1>4 DEF Reread
<1>5. CASE QueueRetry(r) BY <1>5 DEF QueueRetry, SetRow
<1>6. CASE Dispatch(r)   BY <1>6 DEF Dispatch
<1> QED BY <1>1, <1>2, <1>3, <1>4, <1>5, <1>6 DEF HandlerStep

LEMMA TaskRooted ==
  ASSUME Typed, RowKnown, NEW r \in Requests, TaskStep(r)
  PROVE  Rooted /\ rid' = rid
<1> USE DEF Typed, StateOK, Located, Rooted, RowKnown, rows, At
<1>1. CASE StartRun(r)     BY <1>1 DEF StartRun, SetRow
<1>2. CASE Acquire(r)      BY <1>2 DEF Acquire
<1>3. CASE Render(r)       BY <1>3 DEF Render
<1>4. CASE RenderRaises(r) BY <1>4 DEF RenderRaises
<1>5. CASE CompleteRun(r)  BY <1>5 DEF CompleteRun, SetRow
<1>6. CASE Fail(r)         BY <1>6 DEF Fail, FailRun, SetRow
<1>7. CASE PruneSelect(r)  BY <1>7 DEF PruneSelect
<1>8. CASE PruneDelete(r)  BY <1>8 DEF PruneDelete
<1>9. CASE PruneUnlink(r)  BY <1>9 DEF PruneUnlink
<1> QED
  BY <1>1, <1>2, <1>3, <1>4, <1>5, <1>6, <1>7, <1>8, <1>9 DEF TaskStep

LEMMA PostCharged ==
  ASSUME JTyped, Charged, NEW r \in Requests, NEW k \in Keys, Post(r, k),
         UNCHANGED judge
  PROVE  Charged'
<1>1. /\ pc[r] = "unsent" /\ rid[r] = Nil /\ permit[r] = "none"
      /\ pc' = [pc EXCEPT ![r] = "lookup"]
      /\ UNCHANGED <<permit, holder>>
  BY DEF Post, At, Goto, Charged, RowKnown, judge, quota
<1>2. PICK j \in Ids : rid' = [rid EXCEPT ![r] = j] /\ status'[j] # "unused"
  BY DEF Post, Exists, rows, JTyped, Typed, StateOK
<1>3. \A i \in Ids : status[i] # "unused" =>
        status'[i] # "unused" /\ keyOf'[i] = keyOf[i]
  BY DEF Post, rows, JTyped, Typed, StateOK
<1>4. ASSUME NEW s \in Requests, s # r
      PROVE  /\ pc'[s] = pc[s] /\ rid'[s] = rid[s]
             /\ rid[s] # Nil => /\ status'[rid[s]] # "unused"
                                /\ keyOf'[rid[s]] = keyOf[rid[s]]
  BY <1>1, <1>2, <1>3, <1>4 DEF Charged, RowKnown, JTyped, Typed, StateOK
<1>5. pc'[r] = "lookup" /\ rid'[r] = j
  BY <1>1, <1>2 DEF JTyped, Typed, StateOK
<1>6. RowKnown' BY <1>1, <1>2, <1>4, <1>5 DEF Charged, RowKnown
<1>7. GrantIsCharged'
  BY <1>1, <1>4 DEF Charged, GrantIsCharged, Judged, Scope
<1>8. TaskIsGranted'
  BY <1>1, <1>4, <1>5 DEF Charged, TaskIsGranted, Judged, Scope
<1> QED BY <1>6, <1>7, <1>8 DEF Charged

(* A thread of create_run or process goes on: it becomes a task only       *)
(* through Dispatch, and a judge's request passes that with its permit.    *)
LEMMA RunCharged ==
  ASSUME JTyped, Charged, NEW r \in Requests, RunStep(r)
  PROVE  Charged'
<1> DEFINE Tasks == {"task", "acquire", "render", "complete", "fail"}
<1>1. Rooted /\ rid' = rid /\ UNCHANGED <<permit, holder>>
  BY HandlerRooted, TaskRooted
  DEF RunStep, JTyped, Charged, judge, quota
<1>2. PICK next \in PCs \ {"unsent"} : pc' = [pc EXCEPT ![r] = next]
  BY DEF RunStep, HandlerStep, TaskStep, Lookup, Verify, Condemn, Reread,
     QueueRetry, Dispatch, StartRun, Acquire, Render, RenderRaises, CompleteRun,
     Fail, PruneSelect, PruneDelete, PruneUnlink, Goto, PCs
<1>3. pc'[r] \in Tasks => pc[r] \in Tasks \/ pc[r] = "dispatch"
  BY DEF RunStep, HandlerStep, TaskStep, Lookup, Verify, Condemn, Reread,
     QueueRetry, Dispatch, StartRun, Acquire, Render, RenderRaises, CompleteRun,
     Fail, PruneSelect, PruneDelete, PruneUnlink, Goto, At, JTyped, Typed, StateOK
<1>4. pc[r] = "dispatch" /\ Judged(r) => permit[r] = "granted"
  BY DEF RunStep
<1>5. \A s \in Requests : Judged(s)' = Judged(s) /\ (Judged(s) => Scope(s)' = Scope(s))
  BY <1>1 DEF Rooted, Judged, Scope
<1>6. RowKnown'
  BY <1>1, <1>2 DEF Charged, RowKnown, Rooted, JTyped, Typed, StateOK
<1>7. GrantIsCharged' BY <1>1, <1>5 DEF Charged, GrantIsCharged
<1>8. TaskIsGranted'
  BY <1>1, <1>2, <1>3, <1>4, <1>5 DEF Charged, TaskIsGranted, JTyped, Typed, StateOK
<1> QED BY <1>6, <1>7, <1>8 DEF Charged

(* The reads and refusals of reserve_judge_run: one permit changes, and it *)
(* becomes a grant only over a reservation of the session's own.           *)
LEMMA PermitCharged ==
  ASSUME JTyped, Charged, NEW r \in Requests, NEW next \in Permits,
         AtReserve(r, permit[r]), permit[r] # "granted", Permit(r, next),
         next = "granted" => holder[rid[r]] = Scope(r),
         UNCHANGED <<vars, holder>>
  PROVE  Charged'
<1>1. \A s \in Requests : Judged(s)' = Judged(s) /\ Scope(s)' = Scope(s)
  BY DEF Judged, Scope, vars, rows, local
<1>2. permit' = [permit EXCEPT ![r] = next] BY DEF Permit
<1>3. pc[r] = "dispatch" /\ Judged(r) BY DEF AtReserve, At
<1>4. UNCHANGED <<status, pc, rid, holder>> BY DEF vars, rows, local
<1>5. RowKnown' BY <1>2, <1>3, <1>4 DEF Charged, RowKnown, JTyped, JTypeOK
<1>6. GrantIsCharged'
  BY <1>1, <1>2, <1>3, <1>4 DEF Charged, GrantIsCharged, JTyped, JTypeOK
<1>7. TaskIsGranted'
  BY <1>1, <1>2, <1>3, <1>4 DEF Charged, TaskIsGranted, JTyped, JTypeOK
<1> QED BY <1>5, <1>6, <1>7 DEF Charged

(* A reservation is written where there was none, so nobody's grant is     *)
(* taken away.                                                             *)
LEMMA SpendCharged ==
  ASSUME JTyped, Charged, NEW r \in Requests, AtReserve(r, permit[r]),
         holder[rid[r]] = Nil,
         holder' = [holder EXCEPT ![rid[r]] = Scope(r)],
         Permit(r, "granted"), UNCHANGED vars
  PROVE  Charged'
<1>1. \A s \in Requests : Judged(s)' = Judged(s) /\ Scope(s)' = Scope(s)
  BY DEF Judged, Scope, vars, rows, local
<1>2. permit' = [permit EXCEPT ![r] = "granted"] BY DEF Permit
<1>3. pc[r] = "dispatch" /\ Judged(r) BY DEF AtReserve, At
<1>4. UNCHANGED <<status, pc, rid>> BY DEF vars, rows, local
<1>5. RowKnown' BY <1>2, <1>3, <1>4 DEF Charged, RowKnown, JTyped, JTypeOK
<1>6. GrantIsCharged'
  <2> SUFFICES ASSUME NEW s \in Requests, permit'[s] = "granted"
               PROVE  Judged(s) /\ holder'[rid[s]] = Scope(s)
    BY <1>1, <1>4 DEF GrantIsCharged
  <2>1. rid[r] \in Ids BY <1>3 DEF Judged, JTyped, Typed, StateOK
  <2>2. CASE s = r BY <1>3, <2>1, <2>2 DEF JTyped, JTypeOK
  <2>3. CASE s # r
    <3>1. Judged(s) /\ holder[rid[s]] = Scope(s)
      BY <1>2, <2>3 DEF Charged, GrantIsCharged, JTyped, JTypeOK
    <3>2. rid[s] # rid[r] BY <3>1 DEF Judged
    <3>3. rid[s] \in Ids BY <3>1 DEF Judged, JTyped, Typed, StateOK
    <3> QED BY <2>1, <3>1, <3>2, <3>3 DEF JTyped, JTypeOK
  <2> QED BY <2>2, <2>3
<1>7. TaskIsGranted'
  BY <1>1, <1>2, <1>3, <1>4 DEF Charged, TaskIsGranted, JTyped, JTypeOK
<1> QED BY <1>5, <1>6, <1>7 DEF Charged

(* A refused request, or one whose INSERT failed, is done.                 *)
LEMMA DoneCharged ==
  ASSUME JTyped, Charged, NEW r \in Requests, Goto(r, "done"),
         \A i \in Ids : status[i] # "unused" => status'[i] # "unused",
         UNCHANGED <<keyOf, rid, permit, holder>>
  PROVE  Charged'
<1>1. \A s \in Requests : Judged(s)' = Judged(s) /\ Scope(s)' = Scope(s)
  BY DEF Judged, Scope
<1>2. pc' = [pc EXCEPT ![r] = "done"] BY DEF Goto
<1>3. RowKnown' BY <1>2 DEF Charged, RowKnown, JTyped, Typed, StateOK
<1>4. GrantIsCharged' BY <1>1 DEF Charged, GrantIsCharged
<1>5. TaskIsGranted'
  BY <1>1, <1>2 DEF Charged, TaskIsGranted, JTyped, Typed, StateOK
<1> QED BY <1>3, <1>4, <1>5 DEF Charged

LEMMA ReserveCharged ==
  ASSUME JTyped, Charged, NEW r \in Requests, ReserveStep(r)
  PROVE  Charged'
<1>1. CASE ReserveRead(r)
  BY <1>1, PermitCharged DEF ReserveRead, AtReserve, quota, Permits
<1>2. CASE ReserveCheck(r)
  BY <1>2, PermitCharged DEF ReserveCheck, AtReserve, quota, Permits
<1>3. CASE ReserveQuota(r)
  BY <1>3, PermitCharged DEF ReserveQuota, AtReserve, Permits
<1>4. CASE ReserveSpend(r)
  <2>1. CASE holder[rid[r]] = Nil
    BY <1>4, <2>1, SpendCharged DEF ReserveSpend, AtReserve
  <2>2. CASE holder[rid[r]] # Nil
    BY <1>4, <2>2, DoneCharged DEF ReserveSpend, rows, quota
  <2> QED BY <2>1, <2>2
<1>5. CASE Deny(r)
  <2>1. /\ UNCHANGED <<keyOf, rid, permit, holder>>
        /\ \A i \in Ids : status[i] # "unused" => status'[i] # "unused"
    BY <1>5 DEF Deny, FailRun, SetRow, rows, judge, quota, JTyped, Typed, StateOK
  <2> QED BY <1>5, <2>1, DoneCharged DEF Deny
<1> QED BY <1>1, <1>2, <1>3, <1>4, <1>5 DEF ReserveStep

(* The process dies or comes back: rows stay rows and no thread is left to *)
(* execute.                                                                *)
LEMMA CrashCharged == ASSUME JTyped, Charged, JCrash PROVE Charged'
<1>1. /\ UNCHANGED <<status, keyOf, rid, holder, permit>>
      /\ pc' = [r \in Requests |-> IF pc[r] = "unsent" THEN "unsent" ELSE "done"]
  BY DEF JCrash, Crash, rows, quota
<1>2. \A r \in Requests : pc'[r] \in {"unsent", "done"} /\ (pc'[r] = "unsent" => pc[r] = "unsent")
  BY <1>1
<1>3. \A s \in Requests : Judged(s)' = Judged(s) /\ Scope(s)' = Scope(s)
  BY <1>1 DEF Judged, Scope
<1>4. RowKnown' BY <1>1, <1>2 DEF Charged, RowKnown
<1>5. GrantIsCharged' BY <1>1, <1>3 DEF Charged, GrantIsCharged
<1>6. TaskIsGranted' BY <1>2 DEF Charged, TaskIsGranted
<1> QED BY <1>4, <1>5, <1>6 DEF Charged

(* Every other step keeps the ids, keys, permits, reservations and threads.*)
LEMMA QuietCharged ==
  ASSUME JTyped, Charged,
         \A i \in Ids : status[i] # "unused" => status'[i] # "unused",
         UNCHANGED <<pc, keyOf, rid, permit, holder>>
  PROVE  Charged'
<1>1. \A s \in Requests : Judged(s)' = Judged(s) /\ Scope(s)' = Scope(s)
  BY DEF Judged, Scope
<1>2. RowKnown' BY DEF Charged, RowKnown, JTyped, Typed, StateOK
<1>3. GrantIsCharged' BY <1>1 DEF Charged, GrantIsCharged
<1>4. TaskIsGranted' BY <1>1 DEF Charged, TaskIsGranted
<1> QED BY <1>2, <1>3, <1>4 DEF Charged

LEMMA NextCharged == JTyped /\ Charged /\ [JNext]_jvars => Charged'
<1> SUFFICES ASSUME JTyped, Charged, [JNext]_jvars PROVE Charged'
  OBVIOUS
<1>1. CASE \E r \in Requests, k \in Keys : MayPost(k) /\ Post(r, k) /\ UNCHANGED judge
  BY <1>1, PostCharged
<1>2. CASE \E r \in Requests : ReserveStep(r) BY <1>2, ReserveCharged
<1>3. CASE \E r \in Requests : RunStep(r)     BY <1>3, RunCharged
<1>4. CASE JCrash                             BY <1>4, CrashCharged
<1>5. CASE Restart /\ UNCHANGED judge
  <2>1. \A i \in Ids : status[i] # "unused" => status'[i] # "unused"
    BY <1>5 DEF Restart, Active
  <2> QED BY <1>5, <2>1, QuietCharged DEF Restart, local, judge, quota
<1>6. CASE UNCHANGED <<rows, pc, rid, permit, holder>>
  BY <1>6, QuietCharged DEF rows
<1>7. CASE \E c \in Capabilities : Issue(c) \/ Expire(c)
  BY <1>6, <1>7 DEF Issue, Expire, vars, local, quota
<1>8. CASE \E s \in Sessions : Present(s) \/ Redeem(s)
  BY <1>6, <1>8 DEF Present, Redeem, vars, local, quota
<1>9. CASE \E a \in Assets : Corrupt(a) /\ UNCHANGED judge
  BY <1>6, <1>9 DEF Corrupt, local, judge, quota
<1>10. CASE UNCHANGED jvars
  BY <1>6, <1>10 DEF jvars, vars, local, judge, quota
<1> QED
  BY <1>1, <1>2, <1>3, <1>4, <1>5, <1>7, <1>8, <1>9, <1>10 DEF JNext

(* The provider is never called for a judge's run nobody was charged for,  *)
(* whatever requests share the run and whenever the server restarts        *)
(* (create_run, reserve_judge_run).                                        *)
THEOREM JudgeRunsAreCharged == JSpec => []JudgeSpendIsReserved
<1>1. JTyped /\ Charged => JudgeSpendIsReserved
  BY DEF Charged, TaskIsGranted, GrantIsCharged, JudgeSpendIsReserved, Executes
<1>2. JSpec => []Charged
  BY InitCharged, NextCharged, SandboxTyped, PTL DEF JSpec
<1> QED BY <1>1, <1>2, SandboxTyped, PTL

---------------------------------------------------------------------------
(* runs_used is the number of the session's reservations.                  *)
Reserved(s) == {i \in Ids : holder[i] = s}

Counted ==
  \A s \in Sessions : IsFiniteSet(Reserved(s)) /\ used[s] = Cardinality(Reserved(s))

LEMMA InitCounted == JInit => Counted
<1> SUFFICES ASSUME JInit, NEW s \in Sessions
             PROVE  IsFiniteSet(Reserved(s)) /\ used[s] = Cardinality(Reserved(s))
  BY DEF Counted
<1>1. Reserved(s) = {} BY SandboxAssumption DEF JInit, Reserved
<1>2. used[s] = 0 BY DEF JInit
<1> QED BY <1>1, <1>2, FS_EmptySet

(* The spending transaction adds one reservation and one to the counter.   *)
LEMMA SpendCounted ==
  ASSUME JTyped, Counted, NEW i \in Ids, NEW s \in Sessions, holder[i] = Nil,
         holder' = [holder EXCEPT ![i] = s],
         used'   = [used EXCEPT ![s] = @ + 1]
  PROVE  Counted'
<1> SUFFICES ASSUME NEW t \in Sessions
             PROVE  /\ IsFiniteSet(Reserved(t)')
                    /\ used'[t] = Cardinality(Reserved(t)')
  BY DEF Counted
<1>1. IsFiniteSet(Reserved(t)) /\ used[t] = Cardinality(Reserved(t))
  BY DEF Counted
<1>2. CASE t # s
  <2>1. Reserved(t)' = Reserved(t)
    BY <1>2, SandboxAssumption DEF Reserved, JTyped, JTypeOK
  <2>2. used'[t] = used[t] BY <1>2 DEF JTyped, JTypeOK
  <2> QED BY <1>1, <2>1, <2>2
<1>3. CASE t = s
  <2>1. Reserved(t)' = Reserved(t) \cup {i}
    BY <1>3 DEF Reserved, JTyped, JTypeOK
  <2>2. i \notin Reserved(t)
    BY <1>3, SandboxAssumption DEF Reserved
  <2>3. used'[t] = used[t] + 1 BY <1>3 DEF JTyped, JTypeOK
  <2>4. /\ IsFiniteSet(Reserved(t) \cup {i})
        /\ Cardinality(Reserved(t) \cup {i}) = Cardinality(Reserved(t)) + 1
    BY <1>1, <2>2, FS_AddElement
  <2> QED BY <1>1, <2>1, <2>3, <2>4
<1> QED BY <1>2, <1>3

LEMMA NextCounted == JTyped /\ Counted /\ [JNext]_jvars => Counted'
<1> SUFFICES ASSUME JTyped, Counted, [JNext]_jvars PROVE Counted'
  OBVIOUS
<1>1. CASE UNCHANGED <<used, holder>>
  BY <1>1 DEF Counted, Reserved
<1>2. CASE \E r \in Requests : ReserveSpend(r) /\ holder[rid[r]] = Nil
  <2>1. PICK r \in Requests : ReserveSpend(r) /\ holder[rid[r]] = Nil BY <1>2
  <2>2. rid[r] \in Ids /\ Scope(r) \in Sessions
    BY <2>1, SandboxAssumption
    DEF ReserveSpend, AtReserve, At, Judged, Scope, JTyped, Typed, Located
  <2>3. /\ holder' = [holder EXCEPT ![rid[r]] = Scope(r)]
        /\ used'   = [used EXCEPT ![Scope(r)] = @ + 1]
    BY <2>1 DEF ReserveSpend
  <2> QED BY <2>1, <2>2, <2>3, SpendCounted
<1> QED
  BY <1>1, <1>2 DEF JNext, Issue, Expire, Present, Redeem, ReserveStep,
     ReserveRead, ReserveCheck, ReserveQuota, ReserveSpend, Deny, RunStep,
     JCrash, jvars, judge, quota

(* The counter of a session is the number of runs reserved for it, though  *)
(* every request reads it before the transaction that writes it            *)
(* (reserve_judge_run).                                                    *)
THEOREM QuotaIsCounted == JSpec => []QuotaAccounting
<1>1. Counted => QuotaAccounting BY DEF Counted, QuotaAccounting, Reserved
<1>2. JSpec => []Counted
  BY InitCounted, NextCounted, SandboxTyped, PTL DEF JSpec
<1> QED BY <1>1, <1>2, PTL

---------------------------------------------------------------------------
(* The sandbox breaks nothing that RunLifecycle promises of files and      *)
(* tasks.  To RunLifecycle a refused request, or one whose INSERT failed,  *)
(* is a thread that leaves between the queue and its task.                 *)
Quits(r) ==
  /\ At(r, "dispatch")
  /\ Goto(r, "done")
  /\ (created[r] /\ FailRun(rid[r])) \/ UNCHANGED rows
  /\ UNCHANGED <<up, file, lock, rid, created, retried, held, prune>>

LEMMA JNextCases ==
  ASSUME [JNext]_jvars
  PROVE  [Next]_vars \/ \E r \in Requests : Quits(r)
<1>1. CASE \E r \in Requests : ReserveStep(r)
  <2>1. PICK r \in Requests : ReserveStep(r) BY <1>1
  <2>2. UNCHANGED vars \/ Quits(r)
    BY <2>1 DEF ReserveStep, ReserveRead, ReserveCheck, ReserveQuota,
       ReserveSpend, Deny, AtReserve, Quits, rows
  <2> QED BY <2>2
<1>2. CASE UNCHANGED vars BY <1>2
<1>3. CASE Next BY <1>3
<1> QED
  BY <1>1, <1>2, <1>3 DEF JNext, Issue, Expire, Present, Redeem, RunStep, JCrash,
     Next, jvars

LEMMA QuitsCustody ==
  ASSUME Typed, Custody, NEW r \in Requests, Quits(r)
  PROVE  Custody'
<1> USE DEF Typed, StateOK, Located, At, Goto, PCs
<1>1. rid[r] \in Ids BY DEF Quits
<1>2. CASE created[r] /\ FailRun(rid[r])
  BY <1>1, <1>2, QuietStep DEF Quits, FailRun, SetRow, Exists, rows, prune
<1>3. CASE UNCHANGED rows BY <1>3, QuietStep DEF Quits, rows, prune
<1> QED BY <1>2, <1>3 DEF Quits

LEMMA JNextCustody == JTyped /\ Custody /\ [JNext]_jvars => Custody'
  BY JNextCases, NextCustody, QuitsCustody DEF JTyped

(* A judge's run, charged or refused, costs no completed run its file      *)
(* (create_run, prune_demo_runs).                                          *)
THEOREM JudgedRunsKeepTheirFile == JSpec => []CompletedHasArtifact
<1>1. JInit => Custody BY InitCustody DEF JInit
<1>2. JSpec => []Custody BY <1>1, JNextCustody, SandboxTyped, PTL DEF JSpec
<1> QED BY <1>2, PTL DEF Custody

LEMMA QuitsSole ==
  ASSUME Typed, Sole, NEW r \in Requests, Quits(r)
  PROVE  Sole'
<1> USE DEF Typed, StateOK, Located, At, Goto
<1>1. /\ up /\ pc[r] = "dispatch" /\ pc' = [pc EXCEPT ![r] = "done"]
      /\ rid[r] \in Ids
      /\ UNCHANGED <<up, file, rid, created, retried, held>>
  BY DEF Quits
<1>2. created[r] => Works(r, rid[r]) /\ status[rid[r]] \in {"queued", "deleted"}
  BY <1>1 DEF Works, Owes, Sole, WorkerMovesRow
<1>3. \A i \in Ids : /\ status'[i] = status[i] \/ Works(r, i)
                     /\ receipt'[i] \in {receipt[i], Nil}
  BY <1>1, <1>2 DEF Quits, FailRun, SetRow, rows
<1>4. RowsLast
  BY <1>1, <1>2 DEF Quits, FailRun, SetRow, Exists, rows, RowsLast
<1>5. \A i \in Ids : ~Owes(r, i)' /\ ~Executes(r, i)'
  BY <1>1 DEF Owes, Executes
<1>6. OneWorker' /\ WorkerMovesRow'
  BY <1>1, <1>3, <1>5, WorkStep DEF Works
<1>7. LookerOwesNothing' BY <1>1 DEF Sole, LookerOwesNothing, Looking
<1>8. SnapshotHolds' BY <1>1, <1>4 DEF Sole, SnapshotHolds, RowsLast
<1>9. Undamaged' BY <1>1, <1>3 DEF Sole, Undamaged
<1>10. DeadHasNoThreads' BY <1>1 DEF DeadHasNoThreads
<1> QED BY <1>6, <1>7, <1>8, <1>9, <1>10 DEF Sole

LEMMA JNextSole ==
  ASSUME OnlyCrashes
  PROVE  JTyped /\ Custody /\ Sole /\ [JNext]_jvars => Sole'
  BY JNextCases, NextSole, QuitsSole DEF JTyped

(* Two tasks never execute one judge's run, though denials fail it and     *)
(* retries of refused or restarted requests queue it again, as long as     *)
(* nothing damages a file (create_run).                                    *)
THEOREM OneTaskPerJudgedRun ==
  ASSUME OnlyCrashes
  PROVE  JSpec => []AtMostOneExecutor
<1>1. JInit => Custody /\ Sole BY InitCustody, InitSole DEF JInit
<1>2. JTyped /\ Custody /\ Sole /\ [JNext]_jvars => Sole' BY JNextSole
<1>3. JSpec => []Sole
  BY <1>1, <1>2, JNextCustody, SandboxTyped, PTL DEF JSpec
<1>4. Sole => AtMostOneExecutor
  BY DEF Sole, OneWorker, Works, AtMostOneExecutor
<1> QED BY <1>3, <1>4, PTL
===========================================================================
