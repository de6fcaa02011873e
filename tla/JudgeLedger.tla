---------------------------- MODULE JudgeLedger ----------------------------
(***************************************************************************)
(* The Cloudflare edge (deploy/cloudflare/src/index.js): the Worker that   *)
(* routes judges' requests to the container, and the JudgeLedger Durable   *)
(* Object that holds their sessions, the lane of the one active run, its   *)
(* reservations and the quotas.                                            *)
(*                                                                         *)
(* The ledger keeps one stored object.  A call reads it (readState), sweeps *)
(* what has expired, awaits its request body, and writes the whole object  *)
(* back.  The platform holds other calls back during storage operations    *)
(* only, so another call may run during the await: the read and the write  *)
(* are separate steps.                                                     *)
(*                                                                         *)
(* A unit of time is 450 s, so that Idle, 300 s, passes with each unit.    *)
(***************************************************************************)
EXTENDS Naturals, FiniteSets

CONSTANTS
  Sessions,     \* session tokens, one drawn by each login
  Idems,        \* idempotency keys of live requests
  Runs,         \* run ids, one for each brief
  Calls,        \* requests the Worker serves at one time
  SessionTTL,   \* PROOFFORGE_JUDGE_TTL_SECONDS
  LeaseTTL,     \* life of a reservation (900 s)
  Idle,         \* the login recovery's allowance (300 s)
  Window,       \* the window of failed logins (900 s)
  MaxFailures,  \* failed logins allowed in a window (5)
  MaxRuns,      \* runs of a session (3)
  Lifetime,     \* runs of the ledger (6)
  MaxTime,      \* bound on the clock
  MaxCalls,     \* bound on the requests
  Nil

ASSUME LedgerAssumption ==
  /\ {SessionTTL, LeaseTTL, Window, MaxFailures, MaxRuns, Lifetime} \subseteq Nat \ {0}
  /\ {Idle, MaxTime, MaxCalls} \subseteq Nat
  /\ Nil \notin Sessions \cup Idems \cup Runs
  /\ Nil \notin [holder : Sessions, run : Runs \cup {Nil}, expiresAt : Nat]

VARIABLES
  now,      \* the clock
  calls,    \* requests so far
  stored,   \* the ledger's stored object
  tokens,   \* session tokens the Worker has minted
  run,      \* the container's run of each brief
  pc,       \* where each request stands, "idle" for a free slot
  arg,      \* its session, idempotency key and run
  snap      \* the ledger's copy of the object in this call, and its clock

request == <<pc, arg, snap>>
vars    == <<now, calls, stored, tokens, run, request>>

NoArg  == [session |-> Nil, idem |-> Nil, run |-> Nil]
LedgerOps == {"login", "badlogin", "authorize", "bind", "release"}

Init ==
  /\ now     = 0
  /\ calls   = 0
  /\ stored  = [session  |-> [s \in Sessions |-> Nil],
                lease    |-> [k \in Idems |-> Nil],
                failures |-> Nil,  \* of one client address
                total    |-> 0,
                lane     |-> Nil]
  /\ tokens  = {}
  /\ run     = [b \in Runs |-> "none"]
  /\ pc      = [c \in Calls |-> "idle"]
  /\ arg     = [c \in Calls |-> NoArg]
  /\ snap    = [c \in Calls |-> Nil]

---------------------------------------------------------------------------
(* The ledger's state, as JavaScript values.                               *)

(* The head of fetch: drop expired sessions and reservations, and the lane *)
(* of a reservation that goes.                                             *)
Sweep(st, t) ==
  LET dead == {k \in Idems : st.lease[k] # Nil /\ st.lease[k].expiresAt <= t} IN
  [st EXCEPT
    !.session = [s \in Sessions |->
      IF @[s] # Nil /\ @[s].expiresAt <= t THEN Nil ELSE @[s]],
    !.lease = [k \in Idems |-> IF k \in dead THEN Nil ELSE @[k]],
    !.lane  = IF \E k \in dead : st.lease[k].holder = @ THEN Nil ELSE @]

LeasesOf(st, s) == {k \in Idems : st.lease[k] # Nil /\ st.lease[k].holder = s}

DropLeases(st, K) == [st EXCEPT !.lease = [k \in Idems |-> IF k \in K THEN Nil ELSE @[k]]]

(* "if (session) session.<field> = <value>"                                *)
SetActive(st, s, b) ==
  IF st.session[s] = Nil THEN st ELSE [st EXCEPT !.session[s].active = b]

(* /login: the failures of the current window.                             *)
Failures(st, t) ==
  IF st.failures = Nil \/ st.failures.start + Window <= t
    THEN [count |-> 0, start |-> t] ELSE st.failures

(* /login: the lane's session is gone or has not touched the ledger for    *)
(* the allowance.                                                          *)
LaneIdle(st, t) ==
  /\ st.lane # Nil
  /\ \/ st.session[st.lane] = Nil
     \/ t > st.session[st.lane].lastSeen + Idle

Recover(st, t) ==
  IF LaneIdle(st, t)
    THEN [SetActive(DropLeases(st, LeasesOf(st, st.lane)), st.lane, Nil) EXCEPT !.lane = Nil]
    ELSE st

OpenSession(st, t, s) ==
  [Recover(st, t) EXCEPT
    !.session[s] = [expiresAt |-> t + SessionTTL, used |-> 0, active |-> Nil, lastSeen |-> t],
    !.failures   = Nil]

(* /authorize: what refuses a fresh reservation.                           *)
LaneTaken(st, s) == st.session[s].active # Nil \/ st.lane \notin {Nil, s}

QuotaSpent(st, s) == st.session[s].used >= MaxRuns \/ st.total >= Lifetime

(* Mutant: the lifetime counter is forgotten.                              *)
ReserveUncounted(st, t, s, k) ==
  [st EXCEPT
    !.lease[k] = [holder |-> s, run |-> Nil, expiresAt |-> t + LeaseTTL],
    !.lane     = s,
    !.session[s].lastSeen = t,
    !.session[s].used     = @ + 1,
    !.session[s].active   = k]

Reserve(st, t, s, k) ==
  [st EXCEPT
    !.lease[k] = [holder |-> s, run |-> Nil, expiresAt |-> t + LeaseTTL],
    !.lane     = s,
    !.session[s].lastSeen = t,
    !.session[s].used     = @ + 1,
    !.session[s].active   = k,
    !.total    = @ + 1]

Bind(st, s, k, b) == SetActive([st EXCEPT !.lease[k].run = b], s, b)

(* /release of run b, or of every run when b is Nil: reservations that     *)
(* match go, the session and the lane are freed in any case.               *)
Matching(st, s, b) == {k \in LeasesOf(st, s) : b = Nil \/ st.lease[k].run = b}

(* Mutant: the lane is not given back.                                     *)
ReleaseLeaseOnly(st, t, s, b) ==
  [DropLeases(st, Matching(st, s, b)) EXCEPT
    !.session[s].lastSeen = t,
    !.session[s].active   = Nil]

Release(st, t, s, b) ==
  [DropLeases(st, Matching(st, s, b)) EXCEPT
    !.session[s].lastSeen = t,
    !.session[s].active   = Nil,
    !.lane = IF @ = s THEN Nil ELSE @]

---------------------------------------------------------------------------
(* Requests that reach the Worker, and the beginning of each ledger call.  *)

Copy == [st |-> Sweep(stored, now), t |-> now]

Begin(c, op, s, k, b) ==
  /\ pc[c] = "idle"
  /\ calls < MaxCalls
  /\ calls' = calls + 1
  /\ pc'  = [pc EXCEPT ![c] = op]
  /\ arg' = [arg EXCEPT ![c] = [session |-> s, idem |-> k, run |-> b]]
  /\ UNCHANGED <<now, stored, run>>

(* The Worker does nothing of consequence before it calls the ledger.      *)
Send(c, op, s, k, b) ==
  /\ Begin(c, op, s, k, b)
  /\ snap' = [snap EXCEPT ![c] = Copy]

Login(c) ==
  \E s \in Sessions \ tokens :
    Send(c, "login", s, Nil, Nil) /\ tokens' = tokens \cup {s}

BadLogin(c) == Send(c, "badlogin", Nil, Nil, Nil) /\ UNCHANGED tokens

(* POST /api/runs in live mode.  The browser sends one key for all its     *)
(* live requests; without a key the Worker hashes the body.                *)
Post(c) ==
  /\ \E s \in tokens, k \in Idems, b \in Runs : Send(c, "authorize", s, k, b)
  /\ UNCHANGED tokens

Logout(c) ==
  /\ \E s \in tokens : Send(c, "release", s, Nil, Nil)
  /\ UNCHANGED tokens

(* GET /api/runs/<id> asks the container first; a settled run is released. *)
Poll(c) ==
  /\ \E s \in tokens, b \in Runs :
       run[b] = "settled" /\ Begin(c, "release", s, Nil, b)
  /\ UNCHANGED <<tokens, snap>>

Read(c) ==
  /\ pc[c] \in {"bind", "release"}
  /\ snap[c] = Nil
  /\ snap' = [snap EXCEPT ![c] = Copy]
  /\ UNCHANGED <<now, calls, stored, tokens, run, pc, arg>>

---------------------------------------------------------------------------
(* The end of each ledger call.                                            *)

Handles(c, op) == pc[c] = op /\ snap[c] # Nil

(* The call ends: writeState(st), then the Worker goes on.                 *)
Answer(c, st, next) ==
  /\ stored' = st
  /\ snap'   = [snap EXCEPT ![c] = Nil]
  /\ pc'     = [pc EXCEPT ![c] = next]
  /\ arg'    = IF next = "idle" THEN [arg EXCEPT ![c] = NoArg] ELSE arg
  /\ UNCHANGED <<now, calls, tokens, run>>

(* Mutant: the limit on failed logins is off by one.                       *)
HandleLoginLate(c) ==
  LET st == snap[c].st  t == snap[c].t  f == Failures(st, t) IN
  /\ pc[c] \in {"login", "badlogin"} /\ snap[c] # Nil
  /\ \/ /\ f.count > MaxFailures
        /\ Answer(c, st, "idle")
     \/ /\ f.count <= MaxFailures /\ pc[c] = "badlogin"
        /\ Answer(c, [st EXCEPT !.failures = [f EXCEPT !.count = @ + 1]], "idle")
     \/ /\ f.count <= MaxFailures /\ pc[c] = "login"
        /\ Answer(c, OpenSession(st, t, arg[c].session), "idle")

(* /login.                                                                 *)
HandleLogin(c) ==
  LET st == snap[c].st  t == snap[c].t  f == Failures(st, t) IN
  /\ pc[c] \in {"login", "badlogin"} /\ snap[c] # Nil
  /\ \/ /\ f.count >= MaxFailures
        /\ Answer(c, st, "idle")
     \/ /\ f.count < MaxFailures /\ pc[c] = "badlogin"
        /\ Answer(c, [st EXCEPT !.failures = [f EXCEPT !.count = @ + 1]], "idle")
     \/ /\ f.count < MaxFailures /\ pc[c] = "login"
        /\ Answer(c, OpenSession(st, t, arg[c].session), "idle")

(* /authorize: its checks, in order.                                       *)
Verdict(st, s, k) ==
  IF st.session[s] = Nil         THEN "unauthorized"
  ELSE IF k \in LeasesOf(st, s) THEN "replay"
  ELSE IF LaneTaken(st, s)      THEN "active_run"
  ELSE IF QuotaSpent(st, s)     THEN "quota"
  ELSE "reserved"

HandleAuthorize(c) ==
  LET st == snap[c].st  s == arg[c].session  k == arg[c].idem IN
  /\ Handles(c, "authorize")
  /\ \/ /\ Verdict(st, s, k) \in {"unauthorized", "active_run", "quota"}
        /\ Answer(c, st, "idle")
     \/ /\ Verdict(st, s, k) = "replay"
        /\ Answer(c, st, "container")
     \/ /\ Verdict(st, s, k) = "reserved"
        /\ Answer(c, Reserve(st, snap[c].t, s, k), "container")

(* /bind: no write when the reservation is gone or another session's.      *)
HandleBind(c) ==
  LET st == snap[c].st  s == arg[c].session  k == arg[c].idem IN
  /\ Handles(c, "bind")
  /\ Answer(c, IF k \in LeasesOf(st, s) THEN Bind(st, s, k, arg[c].run) ELSE stored, "idle")

(* /release: no write when the session is gone.                            *)
HandleRelease(c) ==
  LET st == snap[c].st  s == arg[c].session IN
  /\ Handles(c, "release")
  /\ Answer(c, IF st.session[s] # Nil THEN Release(st, snap[c].t, s, arg[c].run)
               ELSE stored, "idle")

---------------------------------------------------------------------------
(* The container.                                                          *)

(* create_run with the operator's key: a new brief is started, and so is a *)
(* settled run that failed.  The answer carries the run's id, or is an     *)
(* error without one.                                                      *)
ContainerPost(c) ==
  LET b == arg[c].run IN
  /\ pc[c] = "container"
  /\ \/ run[b] # "running" /\ run' = [run EXCEPT ![b] = "running"]
     \/ UNCHANGED run
  /\ \/ run'[b] # "none" /\ pc' = [pc EXCEPT ![c] = "bind"] /\ UNCHANGED arg
     \/ pc' = [pc EXCEPT ![c] = "idle"] /\ arg' = [arg EXCEPT ![c] = NoArg]
  /\ UNCHANGED <<now, calls, stored, tokens, snap>>

(* The run completes or fails.                                             *)
Settle(b) ==
  /\ run[b] = "running"
  /\ run' = [run EXCEPT ![b] = "settled"]
  /\ UNCHANGED <<now, calls, stored, tokens, request>>

Tick ==
  /\ now < MaxTime
  /\ now' = now + 1
  /\ UNCHANGED <<calls, stored, tokens, run, request>>

Next ==
  \/ \E c \in Calls : Login(c) \/ BadLogin(c) \/ Post(c) \/ Poll(c) \/ Logout(c)
  \/ \E c \in Calls : Read(c)
  \/ \E c \in Calls : \/ HandleLogin(c) \/ HandleAuthorize(c)
                      \/ HandleBind(c)  \/ HandleRelease(c)
  \/ \E c \in Calls : ContainerPost(c)
  \/ \E b \in Runs : Settle(b)
  \/ Tick

Spec == Init /\ [][Next]_vars

---------------------------------------------------------------------------
(* Properties.                                                             *)

Times        == 0 .. MaxTime + SessionTTL + LeaseTTL
SessionType  == [expiresAt : Times, used : 0 .. MaxRuns,
                 active : Idems \cup Runs \cup {Nil}, lastSeen : 0 .. MaxTime]
LeaseType    == [holder : Sessions, run : Runs \cup {Nil}, expiresAt : Times]
StoredType   == [session  : [Sessions -> SessionType \cup {Nil}],
                 lease    : [Idems -> LeaseType \cup {Nil}],
                 failures : [count : 0 .. MaxFailures, start : 0 .. MaxTime] \cup {Nil},
                 total    : 0 .. Lifetime,
                 lane     : Sessions \cup {Nil}]

(* Types, with the counters in their limits whatever calls overwrite.      *)
LedgerTypeOK ==
  /\ now \in 0 .. MaxTime
  /\ calls \in 0 .. MaxCalls
  /\ stored \in StoredType
  /\ tokens \subseteq Sessions
  /\ run \in [Runs -> {"none", "running", "settled"}]
  /\ pc \in [Calls -> LedgerOps \cup {"idle", "container"}]
  /\ arg \in [Calls -> [session : Sessions \cup {Nil}, idem : Idems \cup {Nil},
                        run : Runs \cup {Nil}]]
  /\ \A c \in Calls : snap[c] # Nil => snap[c].st \in StoredType /\ snap[c].t <= now

(* The lane is never held without a lease that will run out: whoever calls *)
(* next finds it free, or finds a reservation of its holder that expires   *)
(* within LeaseTTL ("prevents a failed provider call from consuming the    *)
(* lane"), though binds, releases, recoveries and sweeps overwrite each    *)
(* other's state.                                                          *)
LaneIsLeased ==
  LET st == Sweep(stored, now) IN
  st.lane # Nil =>
    \E k \in LeasesOf(st, st.lane) : st.lease[k].expiresAt - now \in 1 .. LeaseTTL

(* The reservations charged to the open sessions: the n-th of session s.   *)
Charges(st) ==
  {c \in Sessions \X (1 .. MaxRuns) :
     st.session[c[1]] # Nil /\ c[2] <= st.session[c[1]].used}

(* The lifetime counter covers what the open sessions have been charged:   *)
(* no order of reads and writes refunds the ledger and not the session.    *)
SpendIsCounted == Cardinality(Charges(stored)) <= stored.total

(* Requests on their way to the container under different keys were each   *)
(* charged to the ledger (deploy/cloudflare/README.md, "six runs per       *)
(* ledger lifetime").                                                      *)
GrantsAreCounted ==
  Cardinality({arg[c].idem : c \in {c \in Calls : pc[c] = "container"}}) <= stored.total

(* One live run is active at a time (deploy/cloudflare/README.md, "one     *)
(* active run").                                                           *)
OneActiveRun ==
  \A a, b \in Runs : run[a] = "running" /\ run[b] = "running" => a = b
===========================================================================
