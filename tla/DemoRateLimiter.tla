-------------------------- MODULE DemoRateLimiter --------------------------
(***************************************************************************)
(* The demo rate limiter at the head of create_run (main.py): one window   *)
(* of admission times per client, kept in a table of bounded size.         *)
(*                                                                         *)
(* A handler reads the monotonic clock before it takes demo_rate_lock, so  *)
(* a request is two steps, Arrive and Decide, and requests may be decided  *)
(* out of the order of their stamps.  Everything under the lock is one     *)
(* step, as nothing else touches the table.  A thread waits at most MaxLag *)
(* for the lock: a bound the properties name, and the guard of Tick.       *)
(***************************************************************************)
EXTENDS Integers, Sequences, FiniteSets

CONSTANTS
  Requests,   \* the demo requests clients send
  Origins,    \* where a request may come from: its edge header, its peer
  Addresses,  \* the header values that parse as one IP address
  TrustEdge,  \* settings.trust_edge_client_ip
  Window,     \* 60 seconds
  Limit,      \* 12 requests
  Cap,        \* MAX_RATE_LIMIT_CLIENTS
  MaxLag,     \* longest time from a stamp to its decision
  MaxTime,    \* bound of the clock
  Nil         \* an unset variable

ASSUME LimiterAssumption ==
  /\ Window \in Nat /\ Limit \in Nat \ {0} /\ Cap \in Nat \ {0}
  /\ MaxLag \in Nat /\ MaxTime \in Nat
  /\ TrustEdge \in BOOLEAN
  /\ \A o \in Origins : DOMAIN o = {"edge", "peer"}
  /\ Nil \notin Origins \cup Int
  /\ "invalid" \notin Addresses

VARIABLES
  clock,    \* time.monotonic()
  pc,       \* where each request stands
  origin,   \* where each request came from
  stamp,    \* create_run's local "now"
  decided,  \* the time at which each request was decided
  known,    \* the keys of demo_requests
  window    \* demo_requests[b]: the requests whose stamps are its deque,
            \* <<>> for a key that is absent

vars == <<clock, pc, origin, stamp, decided, known, window>>

Verdicts == {"admitted", "limited", "full"}

(* demo_client_key: malformed headers share one bucket.                    *)
BucketOf(o) ==
  IF ~TrustEdge THEN <<"transport", o.peer>>
  ELSE IF o.edge \in Addresses THEN <<"edge", o.edge>>
  ELSE <<"edge", "invalid">>

Buckets == {BucketOf(o) : o \in Origins}

Init ==
  /\ clock = 0
  /\ pc      = [q \in Requests |-> "unsent"]
  /\ origin  = [q \in Requests |-> Nil]
  /\ stamp   = [q \in Requests |-> Nil]
  /\ decided = [q \in Requests |-> Nil]
  /\ known   = {}
  /\ window  = [b \in Buckets |-> <<>>]

---------------------------------------------------------------------------
Expired(q, now) == stamp[q] <= now - Window

(* client_key and now, before the lock.                                    *)
Arrive(q, o) ==
  /\ pc[q] = "unsent"
  /\ pc'     = [pc EXCEPT ![q] = "stamped"]
  /\ origin' = [origin EXCEPT ![q] = o]
  /\ stamp'  = [stamp EXCEPT ![q] = clock]
  /\ UNCHANGED <<clock, decided, known, window>>

(* Mutant: a client is stale by its first request.                         *)
StaleByFirst(b, now) == window[b] = <<>> \/ Expired(window[b][1], now)

(* Mutant: a client leaves only when its window is empty, which it never   *)
(* is.                                                                     *)
StaleWhenEmpty(b, now) == window[b] = <<>>

(* stale_clients' condition, on the last stamp of the deque.               *)
Stale(b, now) == window[b] = <<>> \/ Expired(window[b][Len(window[b])], now)

(* Mutant: nothing is popped.                                              *)
KeepAll(w, now) == w

(* The deque after the popleft loop: it stops at the first stamp that is   *)
(* still in the window, whatever stands behind it.                         *)
Unexpired(w, now) ==
  LET fresh == {i \in 1 .. Len(w) : ~Expired(w[i], now)} IN
  IF fresh = {} THEN <<>>
  ELSE SubSeq(w, CHOOSE i \in fresh : \A j \in fresh : i <= j, Len(w))

(* Mutant: one client too many.                                            *)
RoomForOneMore(clients) == Cardinality(clients) <= Cap

Room(clients) == Cardinality(clients) < Cap

Answer(q, verdict) ==
  /\ pc'      = [pc EXCEPT ![q] = verdict]
  /\ decided' = [decided EXCEPT ![q] = clock]
  /\ UNCHANGED <<clock, origin, stamp>>

(* The known client: pop, then refuse or append.                           *)
Count(q, b, clients, w) ==
  LET now  == stamp[q]
      kept == Unexpired(w[b], now)
      full == Len(kept) >= Limit
  IN
  /\ known'  = clients
  /\ window' = [w EXCEPT ![b] = IF full THEN kept ELSE Append(kept, q)]
  /\ Answer(q, IF full THEN "limited" ELSE "admitted")

(* The block under demo_rate_lock.  Stale clients leave only when a client *)
(* arrives that is not in the table.                                       *)
Decide(q) ==
  LET now    == stamp[q]
      b      == BucketOf(origin[q])
      gone   == {c \in known : Stale(c, now)}
      others == known \ gone
      w      == [c \in Buckets |-> IF c \in gone THEN <<>> ELSE window[c]]
  IN
  /\ pc[q] = "stamped"
  /\ \/ /\ b \in known
        /\ Count(q, b, known, window)
     \/ /\ b \notin known
        /\ Room(others)
        /\ Count(q, b, others \cup {b}, w)
     \/ /\ b \notin known
        /\ ~Room(others)
        /\ known'  = others
        /\ window' = w
        /\ Answer(q, "full")

(* Time passes; no thread waits longer than MaxLag for the lock.           *)
Tick ==
  /\ clock < MaxTime
  /\ \A q \in Requests : pc[q] = "stamped" => clock < stamp[q] + MaxLag
  /\ clock' = clock + 1
  /\ UNCHANGED <<pc, origin, stamp, decided, known, window>>

Next ==
  \/ \E q \in Requests, o \in Origins : Arrive(q, o)
  \/ \E q \in Requests : Decide(q)
  \/ Tick

Spec == Init /\ [][Next]_vars

---------------------------------------------------------------------------
(* Properties.                                                             *)

(* Types of the table, the requests and their stamps; the table never      *)
(* holds more than Cap clients (MAX_RATE_LIMIT_CLIENTS) nor an empty       *)
(* window, and no window more than Limit requests.                         *)
TypeOK ==
  /\ clock   \in 0 .. MaxTime
  /\ pc      \in [Requests -> {"unsent", "stamped"} \cup Verdicts]
  /\ origin  \in [Requests -> Origins \cup {Nil}]
  /\ stamp   \in [Requests -> 0 .. MaxTime \cup {Nil}]
  /\ decided \in [Requests -> 0 .. MaxTime \cup {Nil}]
  /\ known   \in SUBSET Buckets
  /\ window  \in [Buckets -> Seq(Requests)]
  /\ Cardinality(known) <= Cap
  /\ \A b \in Buckets : /\ Len(window[b]) <= Limit
                        /\ b \in known <=> window[b] # <<>>

Admitted == {q \in Requests : pc[q] = "admitted"}

(* Whom the limit is meant for: one address as the edge reports it, all    *)
(* malformed headers together, or one peer when the edge is not trusted.   *)
SameClient(p, q) ==
  LET one == origin[p]  two == origin[q] IN
  IF TrustEdge
    THEN one.edge = two.edge \/ {one.edge, two.edge} \cap Addresses = {}
    ELSE one.peer = two.peer

Between(p, q) == decided[q] - decided[p]

(* Whatever order late threads are decided in, and whoever is evicted in   *)
(* between, more than Limit admissions of a client are spread over at      *)
(* least Window - MaxLag of real time.                                     *)
AdmissionsSpaced ==
  \A S \in SUBSET Admitted :
    /\ Cardinality(S) = Limit + 1
    /\ \A p, q \in S : SameClient(p, q)
    => \E p, q \in S : Between(p, q) >= Window - MaxLag

(* Who was admitted before the clock was Window past the stamp of q.       *)
RecentFor(q) ==
  {p \in Admitted : /\ decided[p] > stamp[q] - Window
                    /\ decided[p] <= decided[q]}

(* A 429 is deserved: the client had Limit requests admitted in the Window *)
(* before the refused one came, though the deque may hold older stamps     *)
(* behind a younger one.                                                   *)
LimitedIsDeserved ==
  \A q \in Requests : pc[q] = "limited" =>
    Cardinality({p \in RecentFor(q) : SameClient(p, q)}) >= Limit

(* A 503 is deserved: Cap other clients had a request admitted in the last *)
(* Window ("demo capacity is temporarily full; retry in one minute").      *)
FullIsDeserved ==
  \A q \in Requests : pc[q] = "full" =>
    Cardinality({BucketOf(origin[p]) : p \in {x \in RecentFor(q) : ~SameClient(x, q)}})
      >= Cap
===========================================================================
