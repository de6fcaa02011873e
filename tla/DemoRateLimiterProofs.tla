----------------------- MODULE DemoRateLimiterProofs -----------------------
(***************************************************************************)
(* Theorems about DemoRateLimiter, for every value of its constants: any   *)
(* number of clients and requests, any limit, window and delay of a        *)
(* thread.                                                                 *)
(***************************************************************************)
EXTENDS DemoRateLimiter, FunctionTheorems, SequenceTheorems, FiniteSetTheorems, TLAPS

---------------------------------------------------------------------------
(* Facts about numbers, sets and sequences.                                *)

LEMMA Constants ==
  /\ Window \in Nat /\ Limit \in Nat /\ Limit > 0 /\ Cap \in Nat /\ Cap > 0
  /\ MaxLag \in Nat /\ MaxTime \in Nat
  BY LimiterAssumption

LEMMA LeastNatural ==
  ASSUME NEW T \in SUBSET Nat, T # {}
  PROVE  \E i \in T : \A j \in T : i <= j
<1> DEFINE Less == {ss \in Nat \X Nat : ss[1] < ss[2]}
<1>1. IsWellFoundedOn(Less, Nat)
  BY NatLessThanWellFounded DEF OpToRel
<1>2. \A i, j \in Nat : <<j, i>> \in Less <=> j < i
  OBVIOUS
<1> HIDE DEF Less
<1>3. PICK i \in T : \A j \in T : ~ (<<j, i>> \in Less)
  BY <1>1, WFMin
<1>4. ASSUME NEW j \in T PROVE i <= j
  <2>1. i \in Nat /\ j \in Nat
    OBVIOUS
  <2>2. ~ (<<j, i>> \in Less)
    BY <1>3
  <2> QED BY <1>2, <2>1, <2>2
<1> QED BY <1>4

(* The elements of a sequence are no more than its length.                 *)
LEMMA FewElements ==
  ASSUME NEW E, NEW w \in Seq(E), NEW S, \A p \in S : \E i \in 1 .. Len(w) : w[i] = p
  PROVE  IsFiniteSet(S) /\ Cardinality(S) <= Len(w)
<1>1. Len(w) \in Nat /\ w \in [1 .. Len(w) -> E]
  BY LenProperties
<1>2. w \in Surjection(1 .. Len(w), Range(w))
  BY <1>1, Fun_RangeProperties
<1>3. S \subseteq Range(w)
  BY <1>1 DEF Range
<1>4. IsFiniteSet(1 .. Len(w)) /\ Cardinality(1 .. Len(w)) = Len(w)
  BY <1>1, FS_Interval
<1>5. IsFiniteSet(Range(w)) /\ Cardinality(Range(w)) <= Len(w)
  BY <1>2, <1>4, FS_Surjection
<1>6. IsFiniteSet(S) /\ Cardinality(S) <= Cardinality(Range(w))
  BY <1>3, <1>5, FS_Subset
<1> QED BY <1>1, <1>5, <1>6, FS_CardinalityType

(* A finite set that contains the elements of a sequence without           *)
(* repetitions has at least as many.                                       *)
LEMMA ManyElements ==
  ASSUME NEW E, NEW w \in Seq(E), NEW S, IsFiniteSet(S),
         \A i \in 1 .. Len(w) : w[i] \in S,
         \A i, j \in 1 .. Len(w) : w[i] = w[j] => i = j
  PROVE  Len(w) <= Cardinality(S)
<1>1. Len(w) \in Nat /\ w \in [1 .. Len(w) -> S]
  BY LenProperties
<1>2. w \in Injection(1 .. Len(w), S)
  BY <1>1, Fun_IsInj
<1>3. Cardinality(1 .. Len(w)) <= Cardinality(S)
  BY <1>2, FS_Injection
<1>4. Cardinality(1 .. Len(w)) = IF 1 > Len(w) THEN 0 ELSE Len(w) - 1 + 1
  BY <1>1, FS_Interval
<1> QED BY <1>1, <1>3, <1>4

(* The popleft loop: it drops a prefix of expired stamps and stops at one  *)
(* that is not.                                                            *)
LEMMA PoppedPrefix ==
  ASSUME NEW w \in Seq(Requests), NEW now
  PROVE  LET k == Unexpired(w, now) IN
         /\ k \in Seq(Requests)
         /\ \E m \in 0 .. Len(w) :
              /\ Len(k) = Len(w) - m
              /\ \A i \in 1 .. Len(k) : k[i] = w[m + i]
              /\ \A i \in 1 .. m : Expired(w[i], now)
         /\ k # <<>> => ~Expired(k[1], now)
<1> DEFINE fresh == {i \in 1 .. Len(w) : ~Expired(w[i], now)}
           k     == Unexpired(w, now)
<1>1. Len(w) \in Nat /\ w \in [1 .. Len(w) -> Requests]
  BY LenProperties
<1>2. CASE fresh = {}
  <2>1. k = <<>> /\ k \in Seq(Requests) /\ Len(k) = 0
    BY <1>2, EmptySeq DEF Unexpired
  <2>2. \A i \in 1 .. Len(w) : Expired(w[i], now)
    BY <1>2
  <2> HIDE DEF k
  <2>3. \A i \in 1 .. Len(k) : k[i] = w[Len(w) + i]
    BY <2>1
  <2>4. Len(w) \in 0 .. Len(w) /\ Len(k) = Len(w) - Len(w)
    BY <1>1, <2>1
  <2> QED BY <2>1, <2>2, <2>3, <2>4 DEF k
<1>3. CASE fresh # {}
  <2> DEFINE first == CHOOSE i \in fresh : \A j \in fresh : i <= j
  <2>1. fresh \in SUBSET Nat
    BY <1>1
  <2>2. first \in fresh /\ \A j \in fresh : first <= j
    BY <1>3, <2>1, LeastNatural
  <2>3. k = SubSeq(w, first, Len(w))
    BY <1>3 DEF Unexpired
  <2> HIDE DEF first, k
  <2>4. first \in 1 .. Len(w) /\ ~Expired(w[first], now)
    BY <2>2
  <2>5. \A i \in first .. Len(w) : w[i] \in Requests
    BY <1>1, <2>4
  <2>6. /\ k \in Seq(Requests)
        /\ Len(k) = Len(w) - first + 1
        /\ \A i \in 1 .. Len(w) - first + 1 : k[i] = w[first + i - 1]
    BY <1>1, <2>3, <2>4, <2>5, SubSeqProperties
  <2>7. ASSUME NEW i \in 1 .. first - 1 PROVE Expired(w[i], now)
    BY <1>1, <2>2, <2>4
  <2>8. first - 1 \in 0 .. Len(w) /\ k[1] = w[first]
    BY <1>1, <2>4, <2>6
  <2>9. /\ Len(k) = Len(w) - (first - 1)
        /\ \A i \in 1 .. Len(k) : k[i] = w[(first - 1) + i]
    BY <1>1, <2>4, <2>6
  <2> QED BY <2>4, <2>6, <2>7, <2>8, <2>9 DEF k
<1> QED BY <1>2, <1>3

---------------------------------------------------------------------------
(* The inductive invariant.                                                *)

(* A request is decided after its stamp, and at most MaxLag after it.      *)
Stamped ==
  \A q \in Requests :
    /\ pc[q] # "unsent" => origin[q] \in Origins /\ stamp[q] \in 0 .. clock
    /\ pc[q] = "stamped" => clock <= stamp[q] + MaxLag
    /\ pc[q] \in Verdicts => decided[q] \in stamp[q] .. clock /\ decided[q] <= stamp[q] + MaxLag

(* A deque holds admitted requests of its own client, each once, in the    *)
(* order of their decisions.  Their stamps may be in another order.        *)
Ordered(w, b) ==
  /\ \A i \in 1 .. Len(w) : w[i] \in Admitted /\ BucketOf(origin[w[i]]) = b
  /\ \A i, j \in 1 .. Len(w) : i < j => w[i] # w[j] /\ decided[w[i]] <= decided[w[j]]

Windows == \A b \in Buckets : Ordered(window[b], b)

Holds(w, p) == \E i \in 1 .. Len(w) : w[i] = p

LongAgo(p) == decided[p] + Window <= clock + MaxLag

(* An admission that no deque holds any more was long ago.                 *)
Forgotten == \A p \in Admitted : Holds(window[BucketOf(origin[p])], p) \/ LongAgo(p)

Finite == IsFiniteSet(Admitted) /\ IsFiniteSet(known)

Core == TypeOK /\ Stamped /\ Windows /\ Forgotten /\ Finite

LEMMA InitCore == Init => Core
<1> SUFFICES ASSUME Init PROVE Core
  OBVIOUS
<1>1. Admitted = {}
  BY DEF Init, Admitted
<1>2. \A b \in Buckets : window[b] = <<>> /\ Len(window[b]) = 0
  BY DEF Init
<1>3. TypeOK
  <2>1. <<>> \in Seq(Requests)
    BY EmptySeq
  <2> QED BY <1>2, <2>1, Constants, FS_EmptySet DEF Init, TypeOK
<1>4. Stamped
  BY DEF Init, Stamped, Verdicts
<1>5. Windows
  BY <1>2 DEF Windows, Ordered
<1>6. Forgotten
  BY <1>1 DEF Forgotten
<1>7. Finite
  BY <1>1, FS_EmptySet DEF Init, Finite
<1> QED BY <1>3, <1>4, <1>5, <1>6, <1>7 DEF Core

LEMMA ArriveCore ==
  ASSUME Core, NEW q \in Requests, NEW o \in Origins, Arrive(q, o)
  PROVE  Core' /\ UNCHANGED <<Admitted, decided, clock, known, window>>
<1>1. Admitted' = Admitted /\ UNCHANGED <<decided, clock, known, window>>
  BY DEF Core, TypeOK, Arrive, Admitted
<1>2. \A p \in Admitted : origin'[p] = origin[p]
  BY DEF Core, TypeOK, Arrive, Admitted
<1>3. TypeOK'
  BY <1>1, Constants DEF Core, TypeOK, Arrive, Verdicts
<1>4. Stamped'
  BY <1>1, Constants DEF Core, TypeOK, Arrive, Stamped, Verdicts
<1>5. Windows'
  BY <1>1, <1>2 DEF Core, Windows, Ordered
<1>6. Forgotten'
  BY <1>1, <1>2 DEF Core, Forgotten, Holds, LongAgo
<1>7. Finite'
  BY <1>1 DEF Core, Finite
<1> QED BY <1>1, <1>3, <1>4, <1>5, <1>6, <1>7 DEF Core

LEMMA TickCore ==
  ASSUME Core, Tick
  PROVE  Core' /\ UNCHANGED <<Admitted, pc, origin, stamp, decided, known, window>>
<1>1. UNCHANGED <<Admitted, pc, origin, stamp, decided, known, window>> /\ clock' = clock + 1
  BY DEF Tick, Admitted
<1>2. TypeOK'
  BY <1>1, Constants DEF Core, TypeOK, Tick
<1>3. Stamped'
  BY <1>1, Constants DEF Core, TypeOK, Tick, Stamped, Verdicts
<1>4. Windows'
  BY <1>1 DEF Core, Windows, Ordered
<1>5. Forgotten'
  <2>1. \A p \in Admitted : decided[p] \in Nat
    BY Constants DEF Core, TypeOK, Stamped, Admitted, Verdicts
  <2> QED BY <1>1, <2>1, Constants DEF Core, TypeOK, Forgotten, Holds, LongAgo
<1>6. Finite'
  BY <1>1 DEF Core, Finite
<1> QED BY <1>1, <1>2, <1>3, <1>4, <1>5, <1>6 DEF Core

---------------------------------------------------------------------------
(* A decision.                                                             *)

(* The table at any point of a decision, for clients that are in it: what  *)
(* was dropped from it was long ago.                                       *)
Table(w, clients) ==
  /\ w \in [Buckets -> Seq(Requests)]
  /\ \A c \in Buckets : Len(w[c]) <= Limit /\ Ordered(w[c], c)
  /\ \A p \in Admitted : Holds(w[BucketOf(origin[p])], p) \/ LongAgo(p)
  /\ clients \subseteq Buckets /\ IsFiniteSet(clients) /\ Cardinality(clients) <= Cap

(* What has expired for a waiting request was admitted long ago.           *)
LEMMA ExpiredLongAgo ==
  ASSUME Core, NEW q \in Requests, pc[q] = "stamped",
         NEW p \in Admitted, NEW x \in Admitted, Expired(x, stamp[q]), decided[p] <= decided[x]
  PROVE  LongAgo(p)
<1>1. stamp[q] \in Nat /\ stamp[q] <= clock /\ clock \in Nat
  BY Constants DEF Core, TypeOK, Stamped
<1>2. /\ stamp[x] \in Nat /\ decided[x] \in Nat /\ decided[x] <= stamp[x] + MaxLag
      /\ decided[p] \in Nat
  BY Constants DEF Core, TypeOK, Stamped, Admitted, Verdicts
<1> QED BY <1>1, <1>2, Constants DEF Expired, LongAgo

(* Evicting the stale clients leaves a table.                              *)
LEMMA SweptTable ==
  ASSUME Core, NEW q \in Requests, pc[q] = "stamped"
  PROVE  LET gone == {c \in known : Stale(c, stamp[q])}
             w    == [c \in Buckets |-> IF c \in gone THEN <<>> ELSE window[c]]
         IN  /\ Table(w, known \ gone)
             /\ \A c \in Buckets : c \in known \ gone <=> w[c] # <<>>
<1> DEFINE gone == {c \in known : Stale(c, stamp[q])}
           w    == [c \in Buckets |-> IF c \in gone THEN <<>> ELSE window[c]]
<1>1. w \in [Buckets -> Seq(Requests)]
  BY EmptySeq DEF Core, TypeOK
<1>2. ASSUME NEW c \in Buckets
      PROVE  Len(w[c]) <= Limit /\ Ordered(w[c], c) /\ (c \in known \ gone <=> w[c] # <<>>)
  <2>1. CASE c \in gone
    <3>1. w[c] = <<>> /\ Len(w[c]) = 0 /\ c \notin known \ gone
      BY <2>1
    <3> HIDE DEF w, gone
    <3> QED BY <3>1, Constants DEF Ordered
  <2>2. CASE c \notin gone
    <3>1. w[c] = window[c] /\ (c \in known <=> c \in known \ gone)
      BY <2>2
    <3> HIDE DEF w, gone
    <3> QED BY <3>1 DEF Core, TypeOK, Windows
  <2> QED BY <2>1, <2>2
<1>3. ASSUME NEW p \in Admitted PROVE Holds(w[BucketOf(origin[p])], p) \/ LongAgo(p)
  <2> DEFINE c == BucketOf(origin[p])
  <2>1. c \in Buckets
    BY DEF Core, Stamped, Admitted, Buckets
  <2>2. CASE c \notin gone
    BY <2>1, <2>2 DEF Core, Forgotten
  <2>3. CASE c \in gone /\ Holds(window[c], p)
    <3> HIDE DEF c
    <3>1. PICK i \in 1 .. Len(window[c]) : window[c][i] = p
      BY <2>3 DEF Holds
    <3>2. Len(window[c]) \in Nat /\ window[c] # <<>>
      BY <2>1, <3>1, LenProperties, EmptySeq DEF Core, TypeOK
    <3> DEFINE n == Len(window[c])
    <3>3. n \in 1 .. n /\ i <= n
      BY <3>1, <3>2
    <3>4. Expired(window[c][n], stamp[q])
      BY <2>3, <3>2 DEF Stale
    <3> HIDE DEF n
    <3>5. Ordered(window[c], c)
      BY <2>1 DEF Core, Windows
    <3>6. window[c][n] \in Admitted /\ (i = n \/ decided[p] <= decided[window[c][n]])
      BY <3>1, <3>2, <3>3, <3>5 DEF Ordered, n
    <3>7. decided[p] \in Nat
      BY Constants DEF Core, TypeOK, Stamped, Admitted, Verdicts
    <3>8. decided[p] <= decided[window[c][n]]
      BY <3>1, <3>6, <3>7
    <3> QED BY <3>4, <3>6, <3>8, ExpiredLongAgo
  <2> QED BY <2>2, <2>3 DEF Core, Forgotten
<1>4. /\ known \ gone \subseteq Buckets /\ IsFiniteSet(known \ gone)
      /\ Cardinality(known \ gone) <= Cap
  <2>1. IsFiniteSet(known) /\ Cardinality(known) <= Cap /\ known \subseteq Buckets
    BY DEF Core, TypeOK, Finite
  <2>2. IsFiniteSet(known \ gone) /\ Cardinality(known \ gone) <= Cardinality(known)
    BY <2>1, FS_Subset
  <2>3. Cardinality(known) \in Nat /\ Cardinality(known \ gone) \in Nat
    BY <2>1, <2>2, FS_CardinalityType
  <2> QED BY <2>1, <2>2, <2>3, Constants
<1> HIDE DEF gone, w
<1>5. Table(w, known \ gone)
  BY <1>1, <1>2, <1>3, <1>4 DEF Table
<1> QED BY <1>2, <1>5 DEF gone, w

(* Popping a client's deque leaves a deque of that client, whose oldest    *)
(* stamp is in the window.                                                 *)
LEMMA PoppedDeque ==
  ASSUME Core, NEW q \in Requests, pc[q] = "stamped",
         NEW w, NEW clients, Table(w, clients), NEW b \in Buckets
  PROVE  LET k == Unexpired(w[b], stamp[q]) IN
         /\ k \in Seq(Requests) /\ Len(k) <= Limit /\ Ordered(k, b)
         /\ \A p \in Admitted : BucketOf(origin[p]) = b => Holds(k, p) \/ LongAgo(p)
         /\ k # <<>> => ~Expired(k[1], stamp[q])
<1> DEFINE d == w[b]
           k == Unexpired(d, stamp[q])
<1>1. d \in Seq(Requests) /\ Len(d) <= Limit /\ Ordered(d, b)
  BY DEF Table
<1>2. \A p \in Admitted : BucketOf(origin[p]) = b => Holds(d, p) \/ LongAgo(p)
  BY DEF Table
<1>3. Len(d) \in Nat
  BY <1>1, LenProperties
<1> HIDE DEF d
<1>4. /\ k \in Seq(Requests)
      /\ \E m \in 0 .. Len(d) :
           /\ Len(k) = Len(d) - m
           /\ \A i \in 1 .. Len(k) : k[i] = d[m + i]
           /\ \A i \in 1 .. m : Expired(d[i], stamp[q])
      /\ k # <<>> => ~Expired(k[1], stamp[q])
  BY <1>1, PoppedPrefix
<1> HIDE DEF k
<1>5. PICK m \in 0 .. Len(d) :
        /\ Len(k) = Len(d) - m
        /\ \A i \in 1 .. Len(k) : k[i] = d[m + i]
        /\ \A i \in 1 .. m : Expired(d[i], stamp[q])
  BY <1>4
<1>6. \A i \in 1 .. Len(k) : m + i \in 1 .. Len(d)
  BY <1>3, <1>5
<1>7. \A i, j \in 1 .. Len(k) : i < j => m + i < m + j
  BY <1>3, <1>5
<1>8. Ordered(k, b)
  <2>1. ASSUME NEW i \in 1 .. Len(k)
        PROVE  k[i] \in Admitted /\ BucketOf(origin[k[i]]) = b
    BY <1>1, <1>5, <1>6 DEF Ordered
  <2>2. ASSUME NEW i \in 1 .. Len(k), NEW j \in 1 .. Len(k), i < j
        PROVE  k[i] # k[j] /\ decided[k[i]] <= decided[k[j]]
    <3>1. k[i] = d[m + i] /\ k[j] = d[m + j] /\ m + i < m + j
      BY <1>5, <1>7, <2>2
    <3>2. m + i \in 1 .. Len(d) /\ m + j \in 1 .. Len(d)
      BY <1>6
    <3>3. d[m + i] # d[m + j] /\ decided[d[m + i]] <= decided[d[m + j]]
      BY <1>1, <3>1, <3>2 DEF Ordered
    <3> QED BY <3>1, <3>3
  <2> QED BY <2>1, <2>2 DEF Ordered
<1>9. ASSUME NEW p \in Admitted, BucketOf(origin[p]) = b, ~LongAgo(p)
      PROVE  Holds(k, p)
  <2>1. PICK i \in 1 .. Len(d) : d[i] = p
    BY <1>2, <1>9 DEF Holds
  <2>2. ~Expired(p, stamp[q])
    <3>1. decided[p] <= decided[p]
      BY Constants DEF Core, TypeOK, Stamped, Admitted, Verdicts
    <3> QED BY <1>9, <3>1, ExpiredLongAgo
  <2>3. i > m
    BY <1>3, <1>5, <2>1, <2>2
  <2>4. i - m \in 1 .. Len(k) /\ m + (i - m) = i
    BY <1>3, <1>5, <2>1, <2>3
  <2> QED BY <1>5, <2>1, <2>4 DEF Holds
<1>10. Len(k) <= Limit
  BY <1>1, <1>3, <1>5, Constants
<1> QED BY <1>4, <1>8, <1>9, <1>10 DEF k, d

(* What an answer changes.                                                 *)
LEMMA AnswerFacts ==
  ASSUME Core, NEW q \in Requests, pc[q] = "stamped", NEW v \in Verdicts, Answer(q, v)
  PROVE  /\ Admitted' = IF v = "admitted" THEN Admitted \cup {q} ELSE Admitted
         /\ q \notin Admitted
         /\ \A p \in Requests : p # q => decided'[p] = decided[p] /\ pc'[p] = pc[p]
         /\ decided'[q] = clock /\ pc'[q] = v
         /\ UNCHANGED <<clock, origin, stamp>>
         /\ \A p \in Admitted : decided[p] \in Nat /\ decided[p] <= clock
         /\ Stamped' /\ IsFiniteSet(Admitted')
         /\ clock \in Nat
         /\ pc' \in [Requests -> {"unsent", "stamped"} \cup Verdicts]
         /\ decided' \in [Requests -> 0 .. MaxTime \cup {Nil}]
<1>1. Admitted' = IF v = "admitted" THEN Admitted \cup {q} ELSE Admitted
  BY DEF Core, TypeOK, Answer, Admitted
<1>2. q \notin Admitted
  BY DEF Admitted
<1>3. \A p \in Requests : p # q => decided'[p] = decided[p] /\ pc'[p] = pc[p]
  BY DEF Core, TypeOK, Answer
<1>4. decided'[q] = clock /\ pc'[q] = v /\ UNCHANGED <<clock, origin, stamp>>
  BY DEF Core, TypeOK, Answer
<1>5. clock \in Nat /\ \A p \in Admitted : decided[p] \in Nat /\ decided[p] <= clock
  BY Constants DEF Core, TypeOK, Stamped, Admitted, Verdicts
<1>6. Stamped'
  <2>1. stamp[q] \in Nat /\ clock \in Nat
    BY Constants DEF Core, TypeOK, Stamped
  <2> QED BY <1>3, <1>4, <2>1, Constants DEF Core, TypeOK, Stamped, Verdicts
<1>7. IsFiniteSet(Admitted')
  BY <1>1, FS_AddElement DEF Core, Finite
<1>8. pc' \in [Requests -> {"unsent", "stamped"} \cup Verdicts]
  BY DEF Core, TypeOK, Answer
<1>9. decided' \in [Requests -> 0 .. MaxTime \cup {Nil}]
  BY DEF Core, TypeOK, Answer
<1> QED BY <1>1, <1>2, <1>3, <1>4, <1>5, <1>6, <1>7, <1>8, <1>9

(* Installing a table whose clients are those with a deque.                *)
LEMMA CountCore ==
  ASSUME Core, NEW q \in Requests, pc[q] = "stamped", NEW w, NEW clients, Table(w, clients),
         BucketOf(origin[q]) \in clients,
         \A c \in Buckets \ {BucketOf(origin[q])} : c \in clients <=> w[c] # <<>>,
         Count(q, BucketOf(origin[q]), clients, w)
  PROVE  Core'
<1> DEFINE b == BucketOf(origin[q])
           k == Unexpired(w[b], stamp[q])
           full == Len(k) >= Limit
           v == IF full THEN "limited" ELSE "admitted"
           next == IF full THEN k ELSE Append(k, q)
<1>1. b \in Buckets
  BY DEF Table
<1>2. /\ k \in Seq(Requests) /\ Len(k) <= Limit /\ Ordered(k, b)
      /\ \A p \in Admitted : BucketOf(origin[p]) = b => Holds(k, p) \/ LongAgo(p)
  BY <1>1, PoppedDeque
<1>3. known' = clients /\ window' = [w EXCEPT ![b] = next] /\ Answer(q, v)
  BY DEF Count
<1> HIDE DEF b, k
<1>4. Len(k) \in Nat /\ (Len(k) > 0 => k # <<>>)
  BY <1>2, LenProperties, EmptySeq
<1>5. v \in Verdicts
  BY DEF Verdicts
<1>6. next \in Seq(Requests) /\ next # <<>> /\ Len(next) <= Limit
  <2>1. CASE full
    BY <1>2, <1>4, <2>1, Constants
  <2>2. CASE ~full
    BY <1>2, <1>4, <2>2, AppendProperties, Constants
  <2> QED BY <2>1, <2>2
<1>7. /\ Admitted' = IF v = "admitted" THEN Admitted \cup {q} ELSE Admitted
      /\ q \notin Admitted
      /\ \A p \in Requests : p # q => decided'[p] = decided[p] /\ pc'[p] = pc[p]
      /\ decided'[q] = clock /\ pc'[q] = v
      /\ UNCHANGED <<clock, origin, stamp>>
      /\ \A p \in Admitted : decided[p] \in Nat /\ decided[p] <= clock
      /\ Stamped' /\ IsFiniteSet(Admitted')
      /\ clock \in Nat
      /\ pc' \in [Requests -> {"unsent", "stamped"} \cup Verdicts]
      /\ decided' \in [Requests -> 0 .. MaxTime \cup {Nil}]
  BY <1>3, <1>5, AnswerFacts
<1>8. Admitted \subseteq Requests /\ Admitted \subseteq Admitted'
  BY <1>7 DEF Admitted
<1>9. \A p \in Admitted : decided'[p] = decided[p] /\ p # q
  BY <1>7, <1>8
<1>10. /\ window' \in [Buckets -> Seq(Requests)]
       /\ window'[b] = next /\ \A c \in Buckets \ {b} : window'[c] = w[c]
  BY <1>1, <1>3, <1>6 DEF Table
<1>11. TypeOK'
  <2>1. \A c \in Buckets : Len(window'[c]) <= Limit /\ (c \in known' <=> window'[c] # <<>>)
    BY <1>3, <1>6, <1>10 DEF Table, b
  <2>2. known' \subseteq Buckets /\ Cardinality(known') <= Cap
    BY <1>3 DEF Table
  <2> QED BY <1>7, <1>10, <2>1, <2>2 DEF Core, TypeOK
<1>12. Windows'
  <2> SUFFICES ASSUME NEW c \in Buckets PROVE Ordered(window[c], c)'
    BY DEF Windows
  <2>1. CASE c # b
    <3>1. Ordered(w[c], c) /\ window'[c] = w[c]
      BY <1>10, <2>1 DEF Table
    <3> QED BY <1>7, <1>8, <1>9, <3>1 DEF Ordered
  <2>2. CASE c = b /\ full
    <3>1. Ordered(k, b) /\ window'[c] = k
      BY <1>2, <1>10, <2>2
    <3> QED BY <1>7, <1>8, <1>9, <2>2, <3>1 DEF Ordered
  <2>3. CASE c = b /\ ~full
    <3>1. Len(next) = Len(k) + 1 /\ next[Len(k) + 1] = q
      BY <1>2, <2>3, AppendProperties
    <3>2. \A i \in 1 .. Len(k) : next[i] = k[i] /\ k[i] \in Admitted
      BY <1>2, <2>3, AppendProperties DEF Ordered
    <3>3. q \in Admitted' /\ BucketOf(origin'[q]) = b
      BY <1>7, <2>3 DEF b
    <3> HIDE DEF next
    <3>4. \A i \in 1 .. Len(next) : i \in 1 .. Len(k) \/ i = Len(k) + 1
      BY <1>4, <3>1
    <3>5. ASSUME NEW i \in 1 .. Len(next)
          PROVE  next[i] \in Admitted' /\ BucketOf(origin'[next[i]]) = b
      BY <1>2, <1>7, <1>8, <3>1, <3>2, <3>3, <3>4 DEF Ordered
    <3>6. ASSUME NEW i \in 1 .. Len(next), NEW j \in 1 .. Len(next), i < j
          PROVE  next[i] # next[j] /\ decided'[next[i]] <= decided'[next[j]]
      <4>1. i \in 1 .. Len(k)
        BY <1>4, <3>1, <3>6
      <4>2. CASE j \in 1 .. Len(k)
        BY <1>2, <1>9, <3>2, <3>6, <4>1, <4>2 DEF Ordered
      <4>3. CASE j = Len(k) + 1
        BY <1>7, <1>9, <3>1, <3>2, <4>1, <4>3
      <4> QED BY <3>4, <4>2, <4>3
    <3> QED BY <1>10, <2>3, <3>5, <3>6 DEF Ordered
  <2> QED BY <2>1, <2>2, <2>3
<1>13. Forgotten'
  <2> SUFFICES ASSUME NEW p \in Admitted'
               PROVE  Holds(window'[BucketOf(origin'[p])], p) \/ LongAgo(p)'
    BY DEF Forgotten, Holds
  <2>1. CASE p \in Admitted /\ BucketOf(origin[p]) # b
    <3>1. BucketOf(origin[p]) \in Buckets
      BY <2>1 DEF Core, Stamped, Admitted, Buckets
    <3>2. Holds(w[BucketOf(origin[p])], p) \/ LongAgo(p)
      BY <2>1 DEF Table
    <3> QED BY <1>7, <1>9, <1>10, <2>1, <3>1, <3>2 DEF LongAgo
  <2>2. CASE p \in Admitted /\ BucketOf(origin[p]) = b
    <3>1. Holds(k, p) \/ LongAgo(p)
      BY <1>2, <2>2
    <3>2. Holds(k, p) => Holds(next, p)
      <4>1. CASE full
        BY <4>1
      <4>2. CASE ~full
        <5>1. Len(next) = Len(k) + 1 /\ \A i \in 1 .. Len(k) : next[i] = k[i]
          BY <1>2, <4>2, AppendProperties
        <5> HIDE DEF next
        <5> QED BY <1>4, <5>1 DEF Holds
      <4> QED BY <4>1, <4>2
    <3> QED BY <1>7, <1>9, <1>10, <2>2, <3>1, <3>2 DEF LongAgo
  <2>3. CASE p = q /\ ~full
    <3>1. Len(next) = Len(k) + 1 /\ next[Len(k) + 1] = q
      BY <1>2, <2>3, AppendProperties
    <3> HIDE DEF next
    <3>2. Len(k) + 1 \in 1 .. Len(next)
      BY <1>4, <3>1
    <3>3. Holds(next, q)
      BY <3>1, <3>2 DEF Holds
    <3> QED BY <1>7, <1>10, <2>3, <3>3 DEF b
  <2> QED BY <1>7, <2>1, <2>2, <2>3
<1>14. Finite'
  BY <1>3, <1>7 DEF Finite, Table
<1> QED BY <1>7, <1>11, <1>12, <1>13, <1>14 DEF Core

(* A decision counts the request in a table, or refuses it for the swept   *)
(* one.                                                                    *)
LEMMA DecideOutcome ==
  ASSUME Core, NEW q \in Requests, Decide(q)
  PROVE  LET b      == BucketOf(origin[q])
             gone   == {c \in known : Stale(c, stamp[q])}
             others == known \ gone
         IN
         \/ \E w, clients :
              /\ Table(w, clients) /\ b \in clients
              /\ \A c \in Buckets \ {b} : c \in clients <=> w[c] # <<>>
              /\ Count(q, b, clients, w)
         \/ /\ b \notin known /\ ~Room(others)
            /\ known'  = others
            /\ window' = [c \in Buckets |-> IF c \in gone THEN <<>> ELSE window[c]]
            /\ Answer(q, "full")
<1> DEFINE b      == BucketOf(origin[q])
           gone   == {c \in known : Stale(c, stamp[q])}
           others == known \ gone
           w      == [c \in Buckets |-> IF c \in gone THEN <<>> ELSE window[c]]
<1>1. pc[q] = "stamped" /\ b \in Buckets
  BY DEF Decide, Core, Stamped, Buckets
<1>2. Table(w, others) /\ \A c \in Buckets : c \in others <=> w[c] # <<>>
  BY <1>1, SweptTable
<1>3. CASE b \in known /\ Count(q, b, known, window)
  <2>1. Table(window, known) /\ \A c \in Buckets : c \in known <=> window[c] # <<>>
    BY DEF Core, TypeOK, Windows, Forgotten, Finite, Table
  <2> QED BY <1>3, <2>1
<1>4. CASE b \notin known /\ Room(others) /\ Count(q, b, others \cup {b}, w)
  <2> HIDE DEF others, w
  <2>1. IsFiniteSet(others) /\ Cardinality(others) \in Nat /\ Cardinality(others) < Cap
    BY <1>2, <1>4, FS_CardinalityType DEF Table, Room
  <2>2. /\ IsFiniteSet(others \cup {b})
        /\ Cardinality(others \cup {b}) \in {Cardinality(others), Cardinality(others) + 1}
    BY <2>1, FS_AddElement, Zenon
  <2>3. Cardinality(others \cup {b}) <= Cap
    BY <2>1, <2>2, Constants
  <2>4. Table(w, others \cup {b})
    BY <1>1, <1>2, <2>2, <2>3 DEF Table
  <2>5. \A c \in Buckets \ {b} : c \in others \cup {b} <=> w[c] # <<>>
    BY <1>2
  <2> QED BY <1>4, <2>4, <2>5
<1>5. CASE b \notin known /\ ~Room(others) /\ known' = others /\ window' = w /\ Answer(q, "full")
  BY <1>5
<1> QED BY <1>3, <1>4, <1>5 DEF Decide

LEMMA DecideCore ==
  ASSUME Core, NEW q \in Requests, Decide(q)
  PROVE  Core'
<1> DEFINE b      == BucketOf(origin[q])
           gone   == {c \in known : Stale(c, stamp[q])}
           others == known \ gone
           w      == [c \in Buckets |-> IF c \in gone THEN <<>> ELSE window[c]]
<1>1. pc[q] = "stamped"
  BY DEF Decide
<1>2. CASE \E m, clients :
             /\ Table(m, clients) /\ b \in clients
             /\ \A c \in Buckets \ {b} : c \in clients <=> m[c] # <<>>
             /\ Count(q, b, clients, m)
  BY <1>1, <1>2, CountCore
<1>3. CASE known' = others /\ window' = w /\ Answer(q, "full")
  <2>1. Table(w, others) /\ \A c \in Buckets : c \in others <=> w[c] # <<>>
    BY <1>1, SweptTable
  <2> HIDE DEF others, w
  <2>2. /\ Admitted' = Admitted /\ q \notin Admitted
        /\ \A p \in Requests : p # q => decided'[p] = decided[p] /\ pc'[p] = pc[p]
        /\ UNCHANGED <<clock, origin, stamp>>
        /\ Stamped'
        /\ pc' \in [Requests -> {"unsent", "stamped"} \cup Verdicts]
        /\ decided' \in [Requests -> 0 .. MaxTime \cup {Nil}]
    BY <1>1, <1>3, AnswerFacts DEF Verdicts
  <2>3. \A p \in Admitted : decided'[p] = decided[p]
    BY <2>2 DEF Admitted
  <2>4. TypeOK'
    BY <1>3, <2>1, <2>2 DEF Core, TypeOK, Table
  <2>5. Windows'
    BY <1>3, <2>1, <2>2, <2>3 DEF Table, Windows, Ordered
  <2>6. Forgotten'
    BY <1>3, <2>1, <2>2, <2>3 DEF Table, Forgotten, Holds, LongAgo
  <2>7. Finite'
    BY <1>3, <2>1, <2>2 DEF Core, Finite, Table
  <2> QED BY <2>2, <2>4, <2>5, <2>6, <2>7 DEF Core
<1> QED BY <1>2, <1>3, DecideOutcome

(* A step changes nothing of a request that is decided, and a verdict      *)
(* comes from Decide.                                                      *)
Kept(p) == /\ pc'[p] = pc[p] /\ origin'[p] = origin[p]
           /\ stamp'[p] = stamp[p] /\ decided'[p] = decided[p]

LEMMA StepFacts ==
  ASSUME Core, [Next]_vars
  PROVE  /\ Core'
         /\ \A p \in Requests : pc[p] \in Verdicts => Kept(p)
         /\ \A p \in Requests : pc[p] \notin Verdicts /\ pc'[p] \in Verdicts => Decide(p)
<1>1. ASSUME NEW q \in Requests, NEW o \in Origins, Arrive(q, o)
      PROVE  \A p \in Requests : (p # q => Kept(p)) /\ pc[q] = "unsent" /\ pc'[q] = "stamped"
  BY <1>1 DEF Core, TypeOK, Arrive, Kept
<1>2. ASSUME NEW q \in Requests, Decide(q)
      PROVE  \A p \in Requests : (p # q => Kept(p)) /\ pc[q] = "stamped"
  BY <1>2 DEF Core, TypeOK, Decide, Count, Answer, Kept
<1>3. CASE Tick
  BY <1>3, TickCore DEF Kept
<1>4. CASE UNCHANGED vars
  <2>1. Core'
    BY <1>4 DEF vars, Core, TypeOK, Stamped, Windows, Ordered, Forgotten, Finite,
                Holds, LongAgo, Admitted
  <2> QED BY <1>4, <2>1 DEF vars, Kept
<1>5. CASE \E q \in Requests, o \in Origins : Arrive(q, o)
  BY <1>1, <1>5, ArriveCore DEF Verdicts, Kept
<1>6. CASE \E q \in Requests : Decide(q)
  BY <1>2, <1>6, DecideCore DEF Verdicts, Kept
<1> QED BY <1>3, <1>4, <1>5, <1>6 DEF Next

LEMMA CoreInvariant == Spec => []Core
<1>1. Core /\ [Next]_vars => Core'
  BY StepFacts
<1> QED BY <1>1, InitCore, PTL DEF Spec

(* BucketOf keeps clients apart exactly as SameClient does.                *)
LEMMA BucketsAreClients ==
  ASSUME NEW one, NEW two
  PROVE  (IF TrustEdge
            THEN one.edge = two.edge \/ {one.edge, two.edge} \cap Addresses = {}
            ELSE one.peer = two.peer)
         <=> BucketOf(one) = BucketOf(two)
<1>1. CASE ~TrustEdge
  BY <1>1 DEF BucketOf
<1>2. CASE TrustEdge
  <2>1. CASE one.edge \in Addresses /\ two.edge \in Addresses
    BY <1>2, <2>1 DEF BucketOf
  <2>2. CASE one.edge \notin Addresses /\ two.edge \notin Addresses
    BY <1>2, <2>2 DEF BucketOf
  <2>3. CASE one.edge \in Addresses /\ two.edge \notin Addresses
    BY <1>2, <2>3, LimiterAssumption DEF BucketOf
  <2>4. CASE one.edge \notin Addresses /\ two.edge \in Addresses
    BY <1>2, <2>4, LimiterAssumption DEF BucketOf
  <2> QED BY <2>1, <2>2, <2>3, <2>4
<1> QED BY <1>1, <1>2

---------------------------------------------------------------------------
(* The properties, one step further.                                       *)

LEMMA AdmittedKept ==
  ASSUME Core, [Next]_vars, NEW p \in Admitted
  PROVE  p \in Requests /\ p \in Admitted' /\ Kept(p)
  BY StepFacts DEF Admitted, Verdicts, Kept

(* A deque has room for Limit requests: of Limit + 1 admissions that are   *)
(* not long ago, one is in no deque, hence long ago.                       *)
LEMMA SpacedStep ==
  ASSUME Core, AdmissionsSpaced, [Next]_vars
  PROVE  AdmissionsSpaced'
<1> SUFFICES ASSUME NEW S \in SUBSET Admitted', Cardinality(S) = Limit + 1,
                    \A p, q \in S : SameClient(p, q)'
             PROVE  \E p, q \in S : Between(p, q)' >= Window - MaxLag
  BY DEF AdmissionsSpaced
<1>1. Core'
  BY StepFacts
<1>2. CASE S \subseteq Admitted
  <2>1. \A p \in S : Kept(p)
    BY <1>2, AdmittedKept
  <2>2. \A p, q \in S : SameClient(p, q)
    BY <2>1 DEF SameClient, Kept
  <2>3. PICK p \in S, q \in S : Between(p, q) >= Window - MaxLag
    BY <1>2, <2>2 DEF AdmissionsSpaced
  <2> QED BY <2>1, <2>3 DEF Between, Kept
<1>3. CASE ~(S \subseteq Admitted)
  <2>1. PICK q \in S : q \notin Admitted
    BY <1>3
  <2>2. q \in Requests /\ pc'[q] = "admitted" /\ pc[q] # "admitted"
    BY <2>1 DEF Admitted
  <2>3. Decide(q)
    BY <2>2, StepFacts DEF Verdicts, Kept
  <2>4. decided'[q] = clock /\ clock' = clock
    BY <2>2, <2>3 DEF Decide, Count, Answer, Core, TypeOK
  <2> SUFFICES ASSUME \A p \in S : ~(Between(p, q)' >= Window - MaxLag) PROVE FALSE
    OBVIOUS
  <2>5. ASSUME NEW p \in S
        PROVE  BucketOf(origin'[p]) = BucketOf(origin'[q]) /\ Holds(window'[BucketOf(origin'[p])], p)
    <3>1. p \in Admitted' /\ decided'[p] \in Nat
      BY <1>1, Constants DEF Core, TypeOK, Stamped, Admitted, Verdicts
    <3>2. clock' \in Nat /\ decided'[q] = clock'
      BY <1>1, <2>4, Constants DEF Core, TypeOK
    <3>3. ~(decided'[q] - decided'[p] >= Window - MaxLag)
      BY DEF Between
    <3>4. ~LongAgo(p)'
      BY <3>1, <3>2, <3>3, Constants DEF LongAgo
    <3>5. Holds(window'[BucketOf(origin'[p])], p)
      BY <1>1, <3>1, <3>4 DEF Core, Forgotten, Holds
    <3>6. SameClient(p, q)'
      OBVIOUS
    <3> QED BY <3>5, <3>6, BucketsAreClients DEF SameClient
  <2> DEFINE d == window'[BucketOf(origin'[q])]
  <2>6. BucketOf(origin'[q]) \in Buckets
    BY <1>1, <2>2 DEF Core, Stamped, Buckets
  <2>7. d \in Seq(Requests) /\ Len(d) <= Limit
    BY <1>1, <2>6 DEF Core, TypeOK
  <2>8. \A p \in S : \E i \in 1 .. Len(d) : d[i] = p
    BY <2>5 DEF Holds
  <2> HIDE DEF d
  <2>9. Cardinality(S) <= Len(d) /\ Len(d) \in Nat
    BY <2>7, <2>8, FewElements, LenProperties
  <2> QED BY <2>7, <2>9, Constants
<1> QED BY <1>2, <1>3

(* Sets of requests only grow, and stay finite.                            *)
LEMMA Grown ==
  ASSUME NEW S, NEW T, S \subseteq T, IsFiniteSet(T), NEW n \in Nat, Cardinality(S) >= n
  PROVE  Cardinality(T) >= n
<1>1. IsFiniteSet(S) /\ Cardinality(S) <= Cardinality(T)
  BY FS_Subset
<1>2. Cardinality(S) \in Nat /\ Cardinality(T) \in Nat
  BY <1>1, FS_CardinalityType
<1> QED BY <1>1, <1>2

(* The recent admissions of a decided request stay.                        *)
LEMMA RecentKept ==
  ASSUME Core, [Next]_vars, NEW q \in Requests, pc[q] \in Verdicts, NEW p \in RecentFor(q)
  PROVE  p \in RecentFor(q)' /\ (SameClient(p, q) <=> SameClient(p, q)') /\ Kept(p)
<1>1. Kept(q)
  BY StepFacts
<1>2. p \in Admitted' /\ Kept(p)
  BY AdmittedKept DEF RecentFor
<1> QED BY <1>1, <1>2 DEF RecentFor, SameClient, Kept

(* The deque that refused a request begins with a stamp in the window, and *)
(* the others were decided after it.                                       *)
LEMMA LimitedNow ==
  ASSUME Core, NEW q \in Requests, Decide(q), pc'[q] = "limited"
  PROVE  Cardinality({p \in RecentFor(q)' : SameClient(p, q)'}) >= Limit
<1> DEFINE b == BucketOf(origin[q])
           T == {p \in RecentFor(q)' : SameClient(p, q)'}
<1>1. PICK w, clients : Table(w, clients) /\ b \in clients /\ Count(q, b, clients, w)
  <2>1. CASE Answer(q, "full")
    BY <2>1 DEF Answer, Core, TypeOK
  <2> QED BY <2>1, DecideOutcome
<1> DEFINE k == Unexpired(w[b], stamp[q])
<1>2. pc[q] = "stamped"
  BY DEF Decide
<1>3. /\ k \in Seq(Requests) /\ Ordered(k, b)
      /\ k # <<>> => ~Expired(k[1], stamp[q])
  <2>1. b \in Buckets
    BY <1>1 DEF Table
  <2> QED BY <1>1, <1>2, <2>1, PoppedDeque
<1>4. Len(k) >= Limit /\ Answer(q, "limited")
  <2>1. Answer(q, IF Len(k) >= Limit THEN "limited" ELSE "admitted")
    BY <1>1 DEF Count
  <2> HIDE DEF k
  <2> QED BY <2>1 DEF Answer, Core, TypeOK
<1> HIDE DEF k
<1>5. Len(k) \in Nat /\ k # <<>> /\ 1 \in 1 .. Len(k)
  <2>1. Len(k) \in Nat /\ Len(k) > 0
    BY <1>3, <1>4, LenProperties, Constants
  <2> QED BY <1>3, <2>1, EmptySeq
<1>6. /\ Admitted' = Admitted
      /\ \A p \in Requests : p # q => decided'[p] = decided[p] /\ pc'[p] = pc[p]
      /\ decided'[q] = clock /\ q \notin Admitted
      /\ UNCHANGED <<clock, origin, stamp>>
      /\ \A p \in Admitted : decided[p] \in Nat /\ decided[p] <= clock
      /\ IsFiniteSet(Admitted')
  BY <1>2, <1>4, AnswerFacts DEF Verdicts
<1>7. ASSUME NEW i \in 1 .. Len(k) PROVE k[i] \in T
  <2>1. PICK p \in Admitted : p = k[i]
    BY <1>3 DEF Ordered
  <2>2. PICK x \in Admitted : x = k[1]
    BY <1>3, <1>5 DEF Ordered
  <2>3. BucketOf(origin[p]) = b
    BY <1>3, <2>1 DEF Ordered
  <2>4. decided[x] <= decided[p]
    <3>1. CASE i = 1
      BY <1>6, <2>1, <2>2, <3>1
    <3>2. CASE 1 < i
      BY <1>3, <1>5, <2>1, <2>2, <3>2 DEF Ordered
    <3> QED BY <1>5, <3>1, <3>2
  <2>5. /\ stamp[x] \in Nat /\ stamp[q] \in Nat /\ stamp[x] <= decided[x]
        /\ stamp[x] > stamp[q] - Window
    <3>1. /\ stamp[x] \in Nat /\ stamp[q] \in Nat /\ stamp[x] <= decided[x]
      BY <1>2, Constants DEF Core, TypeOK, Stamped, Admitted, Verdicts
    <3> QED BY <1>3, <1>5, <2>2, <3>1, Constants DEF Expired
  <2>6. p # q /\ p \in Requests
    BY <1>6 DEF Admitted
  <2>7. decided'[p] > stamp'[q] - Window /\ decided'[p] <= decided'[q]
    BY <1>6, <2>4, <2>5, <2>6, Constants
  <2>8. SameClient(p, q)'
    BY <1>6, <2>3, BucketsAreClients DEF SameClient
  <2>9. p \in RecentFor(q)'
    BY <1>6, <2>7 DEF RecentFor
  <2> QED BY <2>1, <2>8, <2>9
<1>8. IsFiniteSet(T)
  <2>1. T \subseteq Admitted'
    BY DEF RecentFor
  <2> QED BY <1>6, <2>1, FS_Subset
<1>9. \A i, j \in 1 .. Len(k) : k[i] = k[j] => i = j
  BY <1>3, <1>5 DEF Ordered
<1> HIDE DEF T
<1>10. Len(k) <= Cardinality(T) /\ Cardinality(T) \in Nat
  BY <1>3, <1>7, <1>8, <1>9, ManyElements, FS_CardinalityType
<1> QED BY <1>4, <1>5, <1>10, Constants DEF T

(* Each client left in a full table has its latest admission in the        *)
(* window, and none is the one refused.                                    *)
LEMMA FullNow ==
  ASSUME Core, NEW q \in Requests, Decide(q), pc'[q] = "full"
  PROVE  Cardinality({BucketOf(origin'[p]) : p \in {x \in RecentFor(q)' : ~SameClient(x, q)'}})
           >= Cap
<1> DEFINE b      == BucketOf(origin[q])
           gone   == {c \in known : Stale(c, stamp[q])}
           others == known \ gone
           recent == {x \in RecentFor(q)' : ~SameClient(x, q)'}
           T      == {BucketOf(origin'[p]) : p \in recent}
<1>1. pc[q] = "stamped" /\ b \notin known /\ ~Room(others) /\ Answer(q, "full")
  <2>1. ~ \E w, clients : Count(q, b, clients, w)
    BY DEF Count, Answer, Core, TypeOK, Decide
  <2>2. pc[q] = "stamped"
    BY DEF Decide
  <2> QED BY <2>1, <2>2, DecideOutcome
<1>2. /\ Admitted' = Admitted
      /\ \A p \in Requests : p # q => decided'[p] = decided[p] /\ pc'[p] = pc[p]
      /\ decided'[q] = clock /\ q \notin Admitted
      /\ UNCHANGED <<clock, origin, stamp>>
      /\ \A p \in Admitted : decided[p] \in Nat /\ decided[p] <= clock
      /\ IsFiniteSet(Admitted')
  BY <1>1, AnswerFacts DEF Verdicts
<1>3. ASSUME NEW c \in others PROVE c \in T
  <2> DEFINE d == window[c]
  <2>1. c \in Buckets /\ c \in known /\ ~Stale(c, stamp[q])
    BY DEF Core, TypeOK
  <2>2. d \in Seq(Requests) /\ Ordered(d, c) /\ d # <<>> /\ ~Expired(d[Len(d)], stamp[q])
    BY <2>1 DEF Core, TypeOK, Windows, Stale
  <2> HIDE DEF d
  <2>3. Len(d) \in 1 .. Len(d)
    BY <2>2, EmptySeq
  <2>4. PICK p \in Admitted : p = d[Len(d)]
    BY <2>2, <2>3 DEF Ordered
  <2>5. BucketOf(origin[p]) = c
    BY <2>2, <2>3, <2>4 DEF Ordered
  <2>6. p # q /\ p \in Requests
    BY <1>2 DEF Admitted
  <2>7. /\ stamp[p] \in Nat /\ stamp[q] \in Nat /\ stamp[p] <= decided[p]
        /\ stamp[p] > stamp[q] - Window
    <3>1. /\ stamp[p] \in Nat /\ stamp[q] \in Nat /\ stamp[p] <= decided[p]
      BY <1>1, <2>6, Constants DEF Core, TypeOK, Stamped, Admitted, Verdicts
    <3> QED BY <2>2, <2>4, <3>1, Constants DEF Expired
  <2>8. decided'[p] > stamp'[q] - Window /\ decided'[p] <= decided'[q]
    BY <1>2, <2>6, <2>7, Constants
  <2>9. p \in RecentFor(q)'
    BY <1>2, <2>8 DEF RecentFor
  <2>10. ~SameClient(p, q)'
    <3>1. BucketOf(origin'[p]) # BucketOf(origin'[q])
      BY <1>1, <1>2, <2>1, <2>5
    <3> QED BY <3>1, BucketsAreClients DEF SameClient
  <2>11. p \in recent /\ c = BucketOf(origin'[p])
    BY <1>2, <2>5, <2>9, <2>10
  <2> HIDE DEF recent
  <2> QED BY <2>11
<1>4. IsFiniteSet(T)
  <2>1. recent \subseteq Admitted'
    BY DEF RecentFor
  <2>2. IsFiniteSet(recent)
    BY <1>2, <2>1, FS_Subset
  <2> HIDE DEF recent
  <2> DEFINE f == [p \in recent |-> BucketOf(origin'[p])]
  <2>3. f \in Surjection(recent, T)
    BY Fun_IsSurj
  <2> HIDE DEF f
  <2> QED BY <2>2, <2>3, FS_Surjection
<1> HIDE DEF T
<1>5. others \subseteq T
  BY <1>3
<1>6. IsFiniteSet(others) /\ Cardinality(others) <= Cardinality(T)
  BY <1>4, <1>5, FS_Subset
<1>7. Cardinality(others) \in Nat /\ Cardinality(T) \in Nat
  BY <1>4, <1>6, FS_CardinalityType
<1> HIDE DEF others
<1>8. Cardinality(T) >= Cap
  BY <1>1, <1>6, <1>7, Constants DEF Room
<1> QED BY <1>8 DEF T, recent

---------------------------------------------------------------------------
(* The theorems.                                                           *)

(* The table of demo_requests keeps its shape: at most Cap clients, none   *)
(* with an empty deque, no deque longer than Limit.                        *)
THEOREM TableBounded == Spec => []TypeOK
  BY CoreInvariant, PTL DEF Core

(* A client gets at most Limit demo runs in Window - MaxLag of real time,  *)
(* although stamps are taken before the lock, requests are decided out of  *)
(* their order, and clients are evicted and come back.                     *)
THEOREM AdmissionsAreSpaced == Spec => []AdmissionsSpaced
<1>1. Init => AdmissionsSpaced
  <2> SUFFICES ASSUME Init, NEW S \in SUBSET Admitted, Cardinality(S) = Limit + 1
               PROVE  FALSE
    BY DEF AdmissionsSpaced
  <2>1. S = {}
    BY DEF Init, Admitted
  <2> QED BY <2>1, FS_EmptySet, Constants
<1>2. Core /\ AdmissionsSpaced /\ [Next]_vars => AdmissionsSpaced'
  BY SpacedStep
<1> QED BY <1>1, <1>2, CoreInvariant, PTL DEF Spec

(* A request is refused with 429 only when its client had Limit requests   *)
(* admitted in the Window before its stamp.                                *)
THEOREM RefusalsAreDeserved == Spec => []LimitedIsDeserved
<1>1. Init => LimitedIsDeserved
  BY DEF Init, LimitedIsDeserved
<1>2. Core /\ LimitedIsDeserved /\ [Next]_vars => LimitedIsDeserved'
  <2> SUFFICES ASSUME Core, LimitedIsDeserved, [Next]_vars,
                      NEW q \in Requests, pc'[q] = "limited"
               PROVE  Cardinality({p \in RecentFor(q)' : SameClient(p, q)'}) >= Limit
    BY DEF LimitedIsDeserved
  <2>1. CASE pc[q] \in Verdicts
    <3> DEFINE S == {p \in RecentFor(q) : SameClient(p, q)}
               T == {p \in RecentFor(q)' : SameClient(p, q)'}
    <3>1. pc[q] = "limited"
      BY <2>1, StepFacts DEF Kept
    <3>2. Cardinality(S) >= Limit
      BY <3>1 DEF LimitedIsDeserved
    <3>3. S \subseteq T
      BY <2>1, RecentKept
    <3>4. IsFiniteSet(T)
      <4>1. IsFiniteSet(Admitted')
        BY StepFacts DEF Core, Finite
      <4>2. T \subseteq Admitted'
        BY DEF RecentFor
      <4> QED BY <4>1, <4>2, FS_Subset
    <3> HIDE DEF S, T
    <3>5. Cardinality(T) >= Limit
      BY <3>2, <3>3, <3>4, Grown, Constants
    <3> QED BY <3>5 DEF T
  <2>2. CASE pc[q] \notin Verdicts
    <3>1. Decide(q)
      BY <2>2, StepFacts DEF Verdicts
    <3> QED BY <3>1, LimitedNow
  <2> QED BY <2>1, <2>2
<1> QED BY <1>1, <1>2, CoreInvariant, PTL DEF Spec

(* A request is refused with 503 only when Cap other clients had a request *)
(* admitted in the Window before its stamp.                                *)
THEOREM CapacityRefusalsAreDeserved == Spec => []FullIsDeserved
<1>1. Init => FullIsDeserved
  BY DEF Init, FullIsDeserved
<1>2. Core /\ FullIsDeserved /\ [Next]_vars => FullIsDeserved'
  <2> SUFFICES ASSUME Core, FullIsDeserved, [Next]_vars,
                      NEW q \in Requests, pc'[q] = "full"
               PROVE  Cardinality({BucketOf(origin'[p]) :
                                     p \in {x \in RecentFor(q)' : ~SameClient(x, q)'}}) >= Cap
    BY DEF FullIsDeserved
  <2>1. CASE pc[q] \in Verdicts
    <3> DEFINE before == {x \in RecentFor(q) : ~SameClient(x, q)}
               after  == {x \in RecentFor(q)' : ~SameClient(x, q)'}
               S == {BucketOf(origin[p]) : p \in before}
               T == {BucketOf(origin'[p]) : p \in after}
    <3>1. pc[q] = "full"
      BY <2>1, StepFacts DEF Kept
    <3>2. Cardinality(S) >= Cap
      BY <3>1 DEF FullIsDeserved
    <3>3. \A p \in before : p \in after /\ origin'[p] = origin[p]
      BY <2>1, RecentKept DEF Kept
    <3>4. IsFiniteSet(after)
      <4>1. IsFiniteSet(Admitted')
        BY StepFacts DEF Core, Finite
      <4>2. after \subseteq Admitted'
        BY DEF RecentFor
      <4> QED BY <4>1, <4>2, FS_Subset
    <3> HIDE DEF before, after
    <3>5. S \subseteq T
      BY <3>3
    <3>6. IsFiniteSet(T)
      <4> DEFINE f == [p \in after |-> BucketOf(origin'[p])]
      <4>1. f \in Surjection(after, T)
        BY Fun_IsSurj
      <4> HIDE DEF f
      <4> QED BY <3>4, <4>1, FS_Surjection
    <3> HIDE DEF S, T
    <3>7. Cardinality(T) >= Cap
      BY <3>2, <3>5, <3>6, Grown, Constants
    <3> QED BY <3>7 DEF T, after
  <2>2. CASE pc[q] \notin Verdicts
    <3>1. Decide(q)
      BY <2>2, StepFacts DEF Verdicts
    <3> QED BY <3>1, FullNow
  <2> QED BY <2>1, <2>2
<1> QED BY <1>1, <1>2, CoreInvariant, PTL DEF Spec
===========================================================================
