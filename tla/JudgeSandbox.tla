---------------------------- MODULE JudgeSandbox ----------------------------
(***************************************************************************)
(* The judge sandbox of the origin server, composed with RunLifecycle.  An *)
(* operator issues a one-time capability; /api/judge/exchange redeems it   *)
(* for a session; a POST /api/runs under a session must reserve its run    *)
(* (database.py reserve_judge_run) between create_run's retry logic and    *)
(* the dispatch of the background task.                                    *)
(*                                                                         *)
(* redeem_judge_capability and reserve_judge_run begin with SELECTs that   *)
(* run before sqlite3 opens the transaction of their first write, so the   *)
(* reads and the write are separate steps.                                 *)
(***************************************************************************)
EXTENDS RunLifecycle

CONSTANTS
  Capabilities,  \* capability ids (jti)
  Sessions,      \* session ids, one drawn by each exchange request
  CapOf,         \* CapOf[s]: the capability the exchange request presents
  ScopeOf,       \* ScopeOf[k]: the session whose id is hashed into key k,
                 \* Nil for an operator's key
  MaxRuns        \* max_runs of a capability

ASSUME SandboxAssumption ==
  /\ CapOf \in [Sessions -> Capabilities]
  /\ ScopeOf \in [Keys -> Sessions \cup {Nil}]
  /\ \A d \in DemoKeys : ScopeOf[d] = Nil
  /\ Nil \notin Sessions
  /\ MaxRuns \in Nat \ {0}

VARIABLES
  issued,    \* rows of judge_capabilities
  redeemed,  \* those whose redeemed_at is set
  expired,   \* those whose expires_at has passed; a session expires with the
             \* capability it came from
  xpc,       \* each exchange request; "open" once judge_sessions has its row
  used,      \* judge_sessions.runs_used
  active,    \* judge_sessions.active_run_id
  holder,    \* judge_runs: the session a run is reserved for
  permit,    \* where each request stands in reserve_judge_run
  seen       \* the session row the request has read

tickets == <<issued, redeemed, expired, xpc>>
quota   == <<used, active, holder>>
judge   == <<tickets, quota, permit, seen>>
jvars   == <<vars, judge>>

Scope(r)  == ScopeOf[keyOf[rid[r]]]
Judged(r) == rid[r] # Nil /\ Scope(r) # Nil

JInit ==
  /\ Init
  /\ issued   = {}
  /\ redeemed = {}
  /\ expired  = {}
  /\ xpc      = [s \in Sessions |-> "unsent"]
  /\ used     = [s \in Sessions |-> 0]
  /\ active   = [s \in Sessions |-> Nil]
  /\ holder   = [i \in Ids |-> Nil]
  /\ permit   = [r \in Requests |-> "none"]
  /\ seen     = [r \in Requests |-> [used |-> 0, active |-> Nil]]

---------------------------------------------------------------------------
(* Capabilities and sessions.                                              *)

(* POST /api/judge/issue: sign a capability and register its hash.         *)
Issue(c) ==
  /\ up
  /\ c \notin issued
  /\ issued' = issued \cup {c}
  /\ UNCHANGED <<vars, redeemed, expired, xpc, quota, permit, seen>>

(* Time passes the capability's expires_at.                                *)
Expire(c) ==
  /\ c \in issued \ expired
  /\ expired' = expired \cup {c}
  /\ UNCHANGED <<vars, issued, redeemed, xpc, quota, permit, seen>>

(* Mutant: the SELECT's missing row is not taken for "invalid".            *)
PresentAny(s) ==
  /\ up
  /\ xpc[s] = "unsent"
  /\ xpc' = [xpc EXCEPT ![s] =
       IF CapOf[s] \in redeemed \cup expired THEN "refused" ELSE "redeem"]
  /\ UNCHANGED <<vars, issued, redeemed, expired, quota, permit, seen>>

(* POST /api/judge/exchange: check the token, then the SELECT of           *)
(* redeem_judge_capability.                                                *)
Present(s) ==
  /\ up
  /\ xpc[s] = "unsent"
  /\ CapOf[s] \in issued
  /\ xpc' = [xpc EXCEPT ![s] =
       IF CapOf[s] \in redeemed \cup expired THEN "refused" ELSE "redeem"]
  /\ UNCHANGED <<vars, issued, redeemed, expired, quota, permit, seen>>

(* Mutant: the UPDATE does not repeat redeemed_at IS NULL.                 *)
RedeemUnguarded(s) ==
  /\ up
  /\ xpc[s] = "redeem"
  /\ redeemed' = redeemed \cup {CapOf[s]}
  /\ xpc' = [xpc EXCEPT ![s] = "open"]
  /\ UNCHANGED <<vars, issued, expired, quota, permit, seen>>

(* UPDATE ... WHERE redeemed_at IS NULL, then INSERT INTO judge_sessions.  *)
(* The UPDATE compares expires_at with the "now" the request read, so it   *)
(* does not notice an expiry since.                                        *)
Redeem(s) ==
  LET won == CapOf[s] \notin redeemed IN
  /\ up
  /\ xpc[s] = "redeem"
  /\ redeemed' = redeemed \cup {CapOf[s]}
  /\ xpc' = [xpc EXCEPT ![s] = IF won THEN "open" ELSE "refused"]
  /\ UNCHANGED <<vars, issued, expired, quota, permit, seen>>

---------------------------------------------------------------------------
(* create_run under a session.                                             *)

(* judge_claims: the bearer token is that of an open, unexpired session.   *)
MayPost(k) ==
  \/ ScopeOf[k] = Nil
  \/ xpc[ScopeOf[k]] = "open" /\ CapOf[ScopeOf[k]] \notin expired

AtReserve(r, here) == At(r, "dispatch") /\ Judged(r) /\ permit[r] = here

Permit(r, next) == permit' = [permit EXCEPT ![r] = next]

(* The SELECTs of the session row and of the run's own reservation.        *)
ReserveRead(r) ==
  LET s == Scope(r) IN
  /\ AtReserve(r, "none")
  /\ seen' = [seen EXCEPT ![r] = [used |-> used[s], active |-> active[s]]]
  /\ Permit(r, IF holder[rid[r]] = s THEN "granted"
               ELSE IF CapOf[s] \in expired THEN "denied"
               ELSE IF active[s] # Nil THEN "check"
               ELSE IF used[s] >= MaxRuns THEN "denied"
               ELSE "spend")
  /\ UNCHANGED <<vars, tickets, quota>>

(* The SELECT of the active run's status.                                  *)
ReserveCheck(r) ==
  /\ AtReserve(r, "check")
  /\ Permit(r, IF Active(seen[r].active) THEN "denied" ELSE "clear")
  /\ UNCHANGED <<vars, tickets, quota, seen>>

(* The transaction that clears a settled active run and finds the quota    *)
(* spent: the UPDATE is committed all the same.                            *)
ReserveQuota(r) ==
  /\ AtReserve(r, "clear")
  /\ seen[r].used >= MaxRuns
  /\ active' = [active EXCEPT ![Scope(r)] = Nil]
  /\ Permit(r, "denied")
  /\ UNCHANGED <<vars, tickets, used, holder, seen>>

(* Mutant: runs_used is written from the value read, not incremented in    *)
(* SQL.                                                                    *)
ReserveSpendLost(r) ==
  LET s == Scope(r)  i == rid[r] IN
  /\ \/ AtReserve(r, "spend")
     \/ AtReserve(r, "clear") /\ seen[r].used < MaxRuns
  /\ \/ /\ holder[i] = Nil
        /\ holder' = [holder EXCEPT ![i] = s]
        /\ used'   = [used EXCEPT ![s] = seen[r].used + 1]
        /\ active' = [active EXCEPT ![s] = i]
        /\ Permit(r, "granted")
        /\ UNCHANGED vars
     \/ /\ holder[i] # Nil
        /\ Goto(r, "done")
        /\ UNCHANGED <<up, rows, file, lock, rid, created, retried, held, prune,
                       quota, permit>>
  /\ UNCHANGED <<tickets, seen>>

(* The transaction that spends: INSERT INTO judge_runs, runs_used + 1 and  *)
(* the new active run.  It trusts the counter read before it began.  A     *)
(* reservation that another request made meanwhile violates the primary    *)
(* key: all is rolled back and the handler dies.                           *)
ReserveSpend(r) ==
  LET s == Scope(r)  i == rid[r] IN
  /\ \/ AtReserve(r, "spend")
     \/ AtReserve(r, "clear") /\ seen[r].used < MaxRuns
  /\ \/ /\ holder[i] = Nil
        /\ holder' = [holder EXCEPT ![i] = s]
        /\ used'   = [used EXCEPT ![s] = @ + 1]
        /\ active' = [active EXCEPT ![s] = i]
        /\ Permit(r, "granted")
        /\ UNCHANGED vars
     \/ /\ holder[i] # Nil
        /\ Goto(r, "done")
        /\ UNCHANGED <<up, rows, file, lock, rid, created, retried, held, prune,
                       quota, permit>>
  /\ UNCHANGED <<tickets, seen>>

(* "reservation not in {reserved, existing}": fail the run if this request *)
(* created it, then answer 401, 409 or 429.                                *)
Deny(r) ==
  /\ AtReserve(r, "denied")
  /\ IF created[r] THEN FailRun(rid[r]) ELSE UNCHANGED rows
  /\ Goto(r, "done")
  /\ UNCHANGED <<up, file, lock, rid, created, retried, held, prune, judge>>

ReserveStep(r) ==
  \/ ReserveRead(r) \/ ReserveCheck(r) \/ ReserveQuota(r) \/ ReserveSpend(r)
  \/ Deny(r)

(* Mutant: the run is dispatched without waiting for the reservation.      *)
RunStepUnreserved(r) ==
  /\ HandlerStep(r) \/ TaskStep(r)
  /\ UNCHANGED judge

(* The steps of RunLifecycle, with the dispatch behind the reservation.    *)
RunStep(r) ==
  /\ HandlerStep(r) \/ TaskStep(r)
  /\ pc[r] = "dispatch" /\ Judged(r) => permit[r] = "granted"
  /\ UNCHANGED judge

JCrash ==
  /\ Crash
  /\ xpc' = [s \in Sessions |-> IF xpc[s] = "redeem" THEN "refused" ELSE xpc[s]]
  /\ UNCHANGED <<issued, redeemed, expired, quota, permit, seen>>

JNext ==
  \/ \E c \in Capabilities : Issue(c) \/ Expire(c)
  \/ \E s \in Sessions : Present(s) \/ Redeem(s)
  \/ \E r \in Requests, k \in Keys : MayPost(k) /\ Post(r, k) /\ UNCHANGED judge
  \/ \E r \in Requests : ReserveStep(r)
  \/ \E r \in Requests : RunStep(r)
  \/ JCrash
  \/ Restart /\ UNCHANGED judge
  \/ \E a \in Assets : Corrupt(a) /\ UNCHANGED judge

JSpec == JInit /\ [][JNext]_jvars

---------------------------------------------------------------------------
(* Properties.                                                             *)

Permits == {"none", "check", "clear", "spend", "denied", "granted"}

(* Types of the judge tables and of reserve_judge_run's locals.            *)
JTypeOK ==
  /\ issued \subseteq Capabilities
  /\ redeemed \subseteq issued
  /\ expired \subseteq issued
  /\ xpc    \in [Sessions -> {"unsent", "redeem", "open", "refused"}]
  /\ used   \in [Sessions -> Nat]
  /\ active \in [Sessions -> Ids \cup {Nil}]
  /\ holder \in [Ids -> Sessions \cup {Nil}]
  /\ permit \in [Requests -> Permits]
  /\ seen   \in [Requests -> [used : Nat, active : Ids \cup {Nil}]]

(* A capability opens one session, however many exchanges race for it      *)
(* (redeem_judge_capability).                                              *)
OneSessionPerCapability ==
  \A s, t \in Sessions :
    xpc[s] = "open" /\ xpc[t] = "open" /\ CapOf[s] = CapOf[t] => s = t

(* The provider is never called for a judge's run that was not charged to  *)
(* the session (create_run reserves before it dispatches, and a retry of   *)
(* the run needs no second reservation).                                   *)
JudgeSpendIsReserved ==
  \A r \in Requests, i \in Ids :
    Executes(r, i) /\ Judged(r) => holder[i] = Scope(r)

(* runs_used counts the session's reservations exactly, though requests    *)
(* read it before they write it (reserve_judge_run increments in SQL).     *)
QuotaAccounting ==
  \A s \in Sessions : used[s] = Cardinality({i \in Ids : holder[i] = s})

(* A session spends no more than its quota ("Atomically spend one judge    *)
(* run", reserve_judge_run).                                               *)
SpendWithinQuota == \A s \in Sessions : used[s] <= MaxRuns
===========================================================================
