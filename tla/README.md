# A verification of ProofForge Media

TLA+ models of the parts of ProofForge Media whose correctness depends on the
order in which things happen: the start of the server, the life of a run and
what one execution of it does, the readers of its files, the judge sandbox, the
demo rate limiter, the durable showcase, and the Cloudflare judge ledger. TLC
checks them on small instances; TLAPS proves every safety property of the passing
runs for every instance. Paths are relative to the repository, which is
`src/` here; line numbers of every definition are in `PROJECT.json` under `map`.

Contents: [the system](#the-system), [modules](#modules),
[runs](#what-the-runs-check), [findings](#disagreements-found),
[fairness](#fairness), [proofs](#what-is-proved),
[not modelled](#what-is-not-modelled), [plan](#plan).

## The system

| Component | State | Operations | Talks to | What is hard | What makes it correct |
|---|---|---|---|---|---|
| Run store and engine (`database.py`, `engine.py`, `main.py create_run`) | tables `runs`, `reviews`, `events`; files in `artifact_dir`; `artifact_lock` | create, read, verify, fail, requeue, start, complete, prune, recover | requests' threads run its tasks; SQLite; disk | every store call is its own transaction, so requests act on stale snapshots; crashes; files shared by runs with equal bytes | no run is stranded; one executor; a completed run keeps its result and its file |
| Judge sandbox (`judge.py`, `database.py` judge tables, `main.py`) | `judge_capabilities`, `judge_sessions`, `judge_runs` | issue, exchange, reserve | sits between `create_run`'s retry logic and its dispatch | SELECTs run before SQLite opens the transaction that relies on them | one session per capability; no provider call without a charge; exact counters; quota |
| Review and showcase (`main.py review`, `showcase.py`) | `reviews.publication_status`; receipts and `latest.json` in B2 | approve, reject, publish, roll back, record | Backblaze B2 | each remote call may fail or take effect and still raise; concurrent approvals; crash in between | the public pointer always verifies; a failed approval is not shown; publication is all or nothing |
| Edge and judge ledger (`deploy/cloudflare/src/index.js`) | one stored object: sessions, reservations, failed logins, lifetime counter, the lane | login, authorize, bind, release, expiry sweep | browsers; the container | state is read, a body awaited, the whole state written back; leases expire; polls and logouts release | counters in their limits; the lane always comes back; one active run |
| Server start (`config.py` 62-81, `database.py` 25-145 and 256-299) | `.signing-key`, the schema, the statuses a dead process left | create or read the key, create tables, add columns, recover | SQLite; other starts on the same directory | files and DDL have no transaction around them; starts overlap, die at any step, meet a locked database | one key for ever; a server has the whole schema and no stale run; no start fails without a cause |
| Pipelines (`engine.py` 238-711) | staging files, canonical files, B2 objects and manifests, the loop's output | generate, evaluate, publish, preupload, index, fetch back, confirm | OpenAI, B2, Genblaze's AgentLoop and sink | a remote write may raise and have worked, or store other bytes; a retry meets what an earlier attempt left | a result names only fetched-back objects; quality is met; stored objects stay; executions end |
| Artifact readers (`main.py` 608-653) | none | asset, evidence.zip | run store, `artifact_lock` | the row and the file are read at different times beside pruning | a completed run that was read is served |
| Demo rate limiter (`main.py` 66-67, 123-136, 411-437) | `demo_requests`: a deque of times per client | admit, refuse, evict | head of `create_run` | the clock is read before the lock; eviction only when a client is new | at most 12 in a window; no undeserved refusal |
| SVG layout, browser interface, request validation, packaging | | | | | see `PROJECT.json` |

`PROJECT.json` lists the hazards one by one, each at its line with the
properties that would catch it.

## Modules

```
RunLifecycle  <--EXTENDS--  JudgeSandbox     <--  MCJudgeSandbox
     ^--EXTENDS--  ArtifactReaders  <--  MCArtifactReaders
     ^--  MCRunLifecycle
ShowcaseRegister  <--INSTANCE WITH--  Showcase  <--EXTENDS--  PublicShowcase  <--  MCPublicShowcase
JudgeLedger       <--  MCJudgeLedger
Pipelines         <--  MCPipelines
DemoRateLimiter   <--  MCDemoRateLimiter
ServerStart

Theorems, each module EXTENDing the one it is about:
RunLifecycleProofs  <--  JudgeSandboxProofs, ArtifactReadersProofs
ShowcaseProofs (of PublicShowcase)   JudgeLedgerProofs   PipelinesProofs
DemoRateLimiterProofs                ServerStartProofs
```

**RunLifecycle** models a row of `runs` from `create_run` to pruning. A request
is one HTTP request and the thread that later runs its background task; `pc`
says where it stands. Each call on `RunStore` is a transaction of its own and
therefore an action: `Post` (create_or_get's INSERT), `Lookup` (its read and the
branches on the snapshot), `Verify`, `Condemn` (fail_run after a failed integrity
check), `Reread`, `QueueRetry`, `Dispatch`, `StartRun`, `Acquire`, `Render`,
`CompleteRun`, `Fail`. `prune_demo_runs` is three actions, because its SELECT runs
in autocommit before the first DELETE opens a transaction, and the unlinks follow
the commit. The environment may kill the process (`Crash`), start it again with
recovery (`Restart`), and damage a file (`Corrupt`); the constant `Faults` says
which. Abstracted: events, error texts, the order of `created_at` (prune spares
any `Keep` rows), the content of a result (the asset it names). A release with
another `PIPELINE_VERSION` needs no action: `brief_hash` covers the version
(engine.py 101-107), so an equal brief has another key then, and the comparison
of versions in `verified_asset_payload` cannot fail for a row that
`create_run` finds.

**JudgeSandbox** extends it with the judge tables. `RunStep` is every step of
RunLifecycle with the dispatch held until `permit` is "granted";
`reserve_judge_run` is `ReserveRead`, `ReserveCheck`, and the transaction
`ReserveSpend` or `ReserveQuota`; `Deny` is the error branch.

**ShowcaseRegister** is the promise: a register that an approval replaces or
leaves as it was. **Showcase** is the code: `Approve`, `Snapshot` (the candidate,
read before the lock), `Enter` (lock and previous pointer), `PutReceipt`,
`CheckReceipt`, `PutPointer`, `Load`, `Rollback`, `Record`. Every remote call may
raise without effect, raise with effect, or store garbage, at most `MaxFaults`
times per publication; a crash during it counts as one. Not among the faults: a
PUT that reports success and stores nothing. publish compares run ids of what it
reads back, and so does `Verified`, by `RunOf`. The mapping shows
the pointer when no publication is under way and the previous pointer while one
has yet to verify its own. During that window a public read may see the
candidate: the register does not promise otherwise to readers in the window.

**PublicShowcase** puts Showcase between its neighbours. The live run under
review has had `generation` results; `Condemn` and `Complete` stand for the steps
of RunLifecycle by which one with a damaged file is failed and made again. `View` is the
operator's look and the handler's check of the status, `Candidate` the second
read of the store. A receipt's object is indexed by `ReceiptKey` and holds the
approval whose bytes it has, so that a shared key would show. A visitor's GET is
`ReadPointer` and `ReadReceipt`, the two objects `load` fetches; the existence
test before them is joined to the first.

**ArtifactReaders** extends RunLifecycle with `GET .../asset` and
`.../evidence.zip`: `ReadRow` takes `artifact_lock` and reads the row, `ReadFile`
reads the file of that snapshot and releases the lock. No file is damaged in it:
every lost file would be the program's own doing.

**Pipelines** opens the step that RunLifecycle calls Render. One execution per
run and attempt: `GenerateDemo`, `GenerateLive` (an image, or none), `EvaluateDemo`,
`EvaluateLive` with its one `Hiccup`, `Publish` (the checks of the loop's output,
those of a demo image's size and XML among them as a refusal that may come at any
time, and the canonical file), then per iteration `Preupload` (hash and existence),
`Put`, `Index` (the sink's manifest), `Fetch`, and at the end `Confirm`. `Raise`
is every exception. A remote write may raise without effect, raise with effect,
or store other bytes; a read may raise. An object may be in B2, damaged, before
anything happens. `Judged` is Genblaze's AgentLoop, external: it appends a
verdict and stops when it is good or after `max_iterations`. Objects are
immutable under their content's hash. One fault is left out, in the assumption
`PipelineAssumption`: a garbled PUT of bytes that another run has stored and
verified as its own, which needs two generations of equal bytes. ObjectsAreKept
and its theorem hold outside that exception only.

**DemoRateLimiter** is `Arrive` (the client's key and the clock, before the lock)
and `Decide` (everything under `demo_rate_lock`). A deque is a sequence of
requests, whose `stamp` is the time. `MaxLag` bounds the time a thread waits for
the lock, and AdmissionsSpaced names it: with `Window` in place of
`Window - MaxLag` TLC finds a counterexample, so that is the limiter's real
promise.

**ServerStart** is what happens before a server serves. `OpenKey`, `WriteKey`
and `ReadKey` are the three file operations of `_load_or_create_signing_key`;
`CreateTables`, `Inspect` (PRAGMA table_info, once), and one `Alter` per missing
column, since sqlite3 opens no transaction for DDL (the six CREATE TABLE IF NOT
EXISTS are one step: whoever comes after a start that died between them repeats
them); `SelectInterrupted` and
`FailInterrupted` are the recovery. `Locked` is the retry loop around both parts.
Columns are numbered in the order of the code. `Kill` ends a start at any step.

**JudgeLedger** is the Worker and its Durable Object. A ledger call is a `Read`
(joined to the request's arrival where the Worker does nothing before it) that
takes a swept copy of the stored object, and a `Handle...` that writes the whole
copy back, because the platform's input gate closes only during storage
operations and `await request.json()` is none. Time is a clock of 450 s units:
a reservation lives 2 units (900 s), and 300 s pass with each unit. The container
is the status of its runs; `ContainerPost` is `create_run` as the operator, which
the Worker impersonates.

In each module a definition marked "Mutant" is the plausible bug used to show
that a property of a run can fail; nothing else refers to it.

## What the runs check

| Run | Instance | Properties | Shows |
|---|---|---|---|
| `lifecycle` | 2 demo keys that render the same file, 3 ids, 3 requests, Keep 0, all faults | TypeOK, QueuedIsOwed, RunningHasExecutor, CompletedHasArtifact, RunsSettle | nobody is stranded, files of completed runs survive pruning, every run settles |
| `readers` | also a live key, 4 requests, one reader, crashes only | ATypeOK, AtMostOneExecutor, NoReaderLosesItsFile, CompletedIsFinal | without damaged files, retries are exclusive, results are never destroyed, and pruning waits for readers |
| `judge` | quota 1, racing exchanges and requests, crash and damage | JTypeOK, OneSessionPerCapability, JudgeSpendIsReserved, QuotaAccounting | the sandbox charges exactly what reaches a provider |
| `showcase` | 3 approvals, 1 fault each, crash, a run that may be condemned, 1 visitor | PTypeOK, FailedIsUnpublished, ShowcaseLoads, VisitorsAreServed, PublicationSettles, PublishIsAtomic | publish implements the register; publications never turn a visitor away |
| `pipelines` | 2 live runs that may draw equal images, 1 demo run, 2 at a time, 2 iterations, 1 retry, 1 fault or crash, damaged objects from before | TypeOK, ResultIsDurable, QualityIsMet, ObjectsAreKept, ExecutionEnds | what completes is fetched back and met its threshold |
| `limiter` | 2 addresses, 2 malformed headers, 5 requests, window 3, limit 2, table of 2, lag 1 | TypeOK, AdmissionsSpaced, LimitedIsDeserved, FullIsDeserved | the limit holds whatever order threads are decided in, and nobody is refused undeservedly |
| `start` | 3 starts, 2 attempts, 1 earlier run, every kind of directory, kills | TypeOK, OneKey, ServesMigrated, ServesRecovered, FailsForCause | whoever serves has the one key, the schema, and recovered |
| `ledger` | 2 sessions, 2 keys, 2 briefs, 2 overlapping calls, 5 requests, quota 2 | LedgerTypeOK, LaneIsLeased, SpendIsCounted | what every stored state satisfies, whatever overwrites it |
| `twice`, `judge_stranded`, `unseen_shown`, `ledger_active` | as above, smallest that fail | one each | see below |

Why the bounds are enough to be interesting: the races of RunLifecycle are
between a request with a stale snapshot, one that acts on the row, and a pruner
of the same file, hence three requests, two keys that share a file, and Keep 0
so that a prune happens at all; ids are drawn once, so three ids allow one run to
be pruned and created again. Two overlapping ledger calls are the smallest overlap; five requests let two
sessions log in and each do something while a third call is under way (the same
properties were also checked with six). MaxTime 2 lets sessions, failure windows
and leases expire, and the idle recovery come before. In `showcase` three
approvals let one be published, one fail and one race with both; the run is given
one result there, so a candidate may be refused, and two in `unseen_shown`. In
`pipelines` two iterations have a failed one before a good one, the retry meets
every mixture of objects its first attempt can leave, and the second live run is
the neighbour whose objects must stay. In `limiter` three admissions exceed the
limit of two, two further clients fill the table and evict, the clock runs past
one window, and a lag of 1 lets a later stamp be decided first. In `start` two starts overlap and a third follows. Deadlock is off in every
run because each instance has finitely many requests and really stops.

## Disagreements found

Each is a run with `expect: violation`, and quotes the sentence it contradicts
under `findings`.

- `twice`: `fail_run` is unconditional. A request that judged an old snapshot of
  a damaged run fails the run while another request's retry executes it; a second
  task starts beside the first.
- `judge_stranded`: of two equal judge requests, the one that did not create the
  run may reserve it first; the creator's INSERT violates the primary key, its
  handler dies, and the run stays queued until a restart.
- `unseen_shown`: a review names no result. A run whose file was damaged is failed
  and made again while its operator still looks at the old one; the approval
  publishes the new one.
- `ledger_active`: a second brief under the key of a live reservation passes as a
  replay and starts a second live run. The same property fails by releasing an
  old run while a new one is active, and by the 300 s recovery.

Four more of the same kind are not runs of `PROJECT.json`, but each has its
configuration here, and `tlc -config <cfg> <module>` shows it in a second:

| Configuration | Module | Violated | What happens |
|---|---|---|---|
| `PruneActive.cfg` | MCRunLifecycle | PruneSparesActive | A failed demo run that is requeued between prune's SELECT and its DELETE by id is deleted while queued (`test_pruning_never_removes_active_runs`). Its request then fails and ends, which `lifecycle` checks. Keep is 0; with the code's 200 it takes 200 newer runs. |
| `JudgeOverspent.cfg` | MCJudgeSandbox | SpendWithinQuota | `reserve_judge_run` reads `runs_used` before SQLite opens a transaction, so two requests of a session both spend its last run ("Atomically spend one judge run", database.py 193). The counter stays exact, which `judge` checks. |
| `RollbackFails.cfg` | MCPublicShowcase | FailedIsUnpublished | With two faults in one publication, one that keeps a put pointer from being verified and one in the single call of the rollback, an approval recorded as failed is public (docs/SUBMISSION.md 70). With one fault it is not, which `showcase` checks. |
| `LedgerUncounted.cfg` | MCJudgeLedger | GrantsAreCounted | A ledger call that read the stored object before a reservation writes it back afterwards: the request goes on to the container; its reservation, its charge and the lane are gone ("six runs per ledger lifetime", deploy/cloudflare/README.md 33). What every stored object still satisfies is in `ledger`. |

## Fairness

`RunLifecycle` assumes weak fairness of each request's handler and task steps
(threads of a live process run, and `artifact_lock` is held for bounded work) and
of `Restart` (the platform restarts a container that died). Crashes are finite in
effect: nothing is assumed of their number, and RunsSettle holds because recovery
itself settles what a crash interrupted. `PublicShowcase` assumes weak fairness
of each publication's steps: every SDK call returns or raises. `Pipelines` assumes
weak fairness of each run's steps: its thread runs, and every call it makes has a
timeout in the code or its client; that the loop's iterations and the evaluator's
retries end is what ExecutionEnds then shows. `JudgeSandbox`,
`JudgeLedger`, `ArtifactReaders`, `DemoRateLimiter` and `ServerStart` state safety
only and need none.

## What is proved

Every safety property of a passing run, invariant or action property, and the
refinement of the register, is a theorem of its specification for all constants
that satisfy the module's assumption. TLC evaluates each assumption on the
instance of the run. The table says which invariant carries the proof; the
sections after it say why it is needed. Two hypotheses go beyond the assumptions,
and stand in the statements of the theorems that need them:

- `OnlyCrashes` (`Faults \subseteq {"crash"}`) for AtMostOneExecutor and
  CompletedIsFinal: with damage the first is false, as the run
  `twice` shows. The `readers` run has it as well.
- `OneFault` (`MaxFaults <= 1`) for FailedIsUnpublished, ShowcaseLoads and
  PublishIsAtomic: with two faults publish may put its pointer, fail to verify it
  and fail to roll it back. The `showcase` run has it as well.

| Module | Theorem | Property | Carried by |
|---|---|---|---|
| RunLifecycleProofs | TypeCorrect | TypeOK | `Typed` |
| | NoQueuedRunIsStranded | QueuedIsOwed | `Attended` |
| | NoRunningRunIsStranded | RunningHasExecutor | `Attended` |
| | CompletedRunsKeepTheirFile | CompletedHasArtifact | `Custody` |
| | OneTaskPerRun (OnlyCrashes) | AtMostOneExecutor | `Sole` |
| | ResultsAreFinal (OnlyCrashes) | CompletedIsFinal | `Sole` |
| ArtifactReadersProofs | ReadersTypeCorrect | ATypeOK | `Typed`, `ReaderTyped` |
| | ReadersAreServed | NoReaderLosesItsFile | `Custody`, `Shielded` |
| | OneTaskPerRunRead, ResultsReadAreFinal (OnlyCrashes) | AtMostOneExecutor, CompletedIsFinal | `Sole` |
| JudgeSandboxProofs | SandboxTypeCorrect | JTypeOK | `JTyped` |
| | OneSessionComesOfACapability | OneSessionPerCapability | `Exchanged` |
| | JudgeRunsAreCharged | JudgeSpendIsReserved | `Charged` |
| | QuotaIsCounted | QuotaAccounting | `Counted` |
| | JudgedRunsKeepTheirFile | CompletedHasArtifact | `Custody` |
| | OneTaskPerJudgedRun (OnlyCrashes) | AtMostOneExecutor | `Sole` |
| JudgeLedgerProofs | LedgerTypeCorrect, LaneRunsOut, SpendStaysCounted | LedgerTypeOK, LaneIsLeased, SpendIsCounted | `IInv` |
| DemoRateLimiterProofs | TableBounded | TypeOK | `Core` |
| | AdmissionsAreSpaced, RefusalsAreDeserved, CapacityRefusalsAreDeserved | AdmissionsSpaced, LimitedIsDeserved, FullIsDeserved | `Core` and a lemma on the decision |
| ShowcaseProofs | ShowcaseTypeCorrect | PTypeOK | `Typed`, `Screens` |
| | VisitorsAlwaysServed | VisitorsAreServed | `Served` |
| | FailedStaysUnpublished, ShowcaseAlwaysLoads, PublishImplementsRegister (OneFault) | FailedIsUnpublished, ShowcaseLoads, PublishIsAtomic | `Progress`, `ShownSound` |
| ServerStartProofs, PipelinesProofs | nine, listed below | | |

### The life of a run

The invariants are layers: each proof uses those before it.

- `Typed` is `StateOK` (the types but for the lock) and `Located`: a request that
  is neither unsent nor done works on an id whose row has a key. Without it
  `status[rid[r]]` means nothing. It leaves the lock out so that its lemmas hold
  in ArtifactReaders too, where a reader may have it.
- `Attended` is QueuedIsOwed and RunningHasExecutor together. The lemma
  `AttendedStep` says what one request's step must do for the runs it may touch;
  there is one lemma per group of actions. Neither half is inductive alone:
  StartRun turns an owed run into an executed one.
- `Custody` is what CompletedHasArtifact needs, which is not inductive: a prune
  two steps ahead decides whether the file is there. Its conjuncts: `LockHeld`
  (a pruner past its SELECT and a demo thread past Acquire hold
  `artifact_lock`), `HeldIsOnDisk` (the file of a result not yet stored exists),
  `ReceiptIsOwn` (a receipt names an asset its key may render), `DoomedIsDemo`
  (only names of demo assets are ever doomed, so the live runs, which take no
  lock, lose nothing), `DoomedIsUnused` (past the DELETE no receipt names a
  doomed file) and `KnownRow`.
- `Sole`: a worker of a run is a request that owes it a start or executes it.
  `OneWorker` says there is one at most; `WorkerMovesRow` that the row is queued,
  respectively running, or pruned away under it, so nobody else's guard lets it
  move the row; `LookerOwesNothing` relates `created` and `retried` to where the
  request stands. A second worker could come only from queue_retry on a row that
  some fail_run failed under the first. `SnapshotHolds` and `Undamaged` exclude
  that: what the integrity check compares is still what is stored, or the row is
  gone, hence it never condemns a row that exists. The lemma `RowsLast` (no step
  ends a completed row but a prune) is both a part of that induction and
  CompletedIsFinal.

In ArtifactReaders a GET changes only the lock and its own locals
(`ReaderFrame`), so `Typed`, `Custody` and `Sole` carry over. `Shielded` adds
that a reader between row and file holds the lock and a receipt whose file is
good. A file leaves the disk only by an unlink, and by `LockHeld` the pruner that
unlinks holds the lock itself. ReadersAreServed holds for every value of
`Faults`: ArtifactReaders has no action that damages a file.

In JudgeSandbox every step is, to RunLifecycle, a step of it, a stutter, or a
request that leaves between the queue and its task (`Quits`); that is all
JudgedRunsKeepTheirFile and OneTaskPerJudgedRun need. QueuedIsOwed is lost there
for the same reason, which is the finding `judge_stranded`. `Charged` says that a
permit once granted stays true: the id a request works on, the key of an inserted
row and the holder of a reservation never change (`RowKnown`, `GrantIsCharged`),
and only Dispatch makes a task (`TaskIsGranted`). `Exchanged` adds to
OneSessionPerCapability that an open session's capability is redeemed. `Counted`
adds to QuotaAccounting that the set counted is finite.

### The edge's ledger

A call writes back a whole copy it read earlier, so any older state may return.
The proof therefore speaks of one stored object: `Sound(st, n)` (its type; the
lane's holder has a reservation; no reservation ends later than one lease after
clock n; the counter covers the charges), shown to be preserved by every operation
on any object whatever and to remain true as the clock grows. `Copies` says that
the copy of every call under way is sound, and `IInv` that the stored object is
as well. SpendIsCounted compares the lifetime counter with the cardinality of
`Charges`, the set of pairs of an open session and a number up to its `used`;
that is the sum of the sessions' `used` without a sum. `LedgerAssumption` says
`Nil` is no reservation.

### The rate limiter

`Stamped` bounds each decision by its stamp and the lag, `Windows` says that a
deque holds admitted requests of its own client in the order of their decisions
(their stamps may be in another), and `Forgotten` that an admission no deque holds
any more was decided at least `Window - MaxLag` ago: true of the ones the loop
pops, and of an evicted client's, whose last stamp is old. AdmissionsSpaced
follows at an admission: the other `Limit` of a set of `Limit + 1` cannot all be
in a deque that had room. LimitedIsDeserved and FullIsDeserved look at the
decision that refused and at what a later step may not undo. `LimiterAssumption`
says that "invalid", the key of malformed headers, is no address: the code keeps
a header only when `ip_address` parses it.

### The showcase

`LockHeld` is: exactly the request between Enter and the end of publish has the
lock. `Progress` says what each stage knows of the objects (what it put, what it
has verified, that only a fault leads to the rollback), and `ShownSound` that what the
register shows loads and is the approval of a publication that succeeded, or died
with the server. OneFault is used for the rollback alone: the fault that led to it
was the only one, so its PUT works and no crash comes before it. The step
simulation maps PutPointer to a stutter, the successful Load to the register's
approval, and a rollback or a crash to its refusal or loss. VisitorsAreServed needs
no such hypothesis: it is about behaviours without faults, in which `Served` says
the pointer and whatever pointer a visitor has read name receipts that verify.

### The start and the pipelines

`ServerStartProofs` proves, for any number of starts, runs and attempts that
satisfy `StartAssumption`, every property of the `start` run:

| Theorem | Property | Inductive invariant |
|---|---|---|
| TypeCorrect | TypeOK | `Typed`: with it, a start that has not failed has an attempt left |
| OneKeyForAll | OneKey | `KeyInv`: one writer at most, the file is short while it writes, and who holds a key holds that of the file |
| ServersAreMigrated | ServesMigrated | `SchemaInv`: what a start still has to add covers what the table lacks, though others alter it |
| ServersHaveRecovered | ServesRecovered | `RecoveryInv`: a snapshot of the interrupted runs covers what is left of them |
| FailuresHaveACause | FailsForCause | `CauseInv`: a short file has a start that writes it or died writing |

`PipelinesProofs` proves, for any runs, draws, overlap, iterations (at least two),
retries and faults that satisfy `PipelineAssumption`, the safety of the
`pipelines` run:

| Theorem | Property |
|---|---|
| TypeCorrect | TypeOK |
| DurableResults | ResultIsDurable |
| ThresholdMet | QualityIsMet |
| ObjectsImmutable | ObjectsAreKept |

The invariant is one predicate of each run, `Inv(r)`. `Shape` relates the stage
of a run to the length of the loop's output and the position of the storage loop;
`Drawn` says where its images come from; `Verdicts` that the loop goes on only
after a failed verdict; `Fetched` that the iterations the storage loop has passed
are intact; `PutsAnew` that a run about to put bytes which may be garbled found no
object. A step of r gives `Sound(r)`: its own `Inv`, and `Alone(r)`, what it may
touch of the shared files and objects. The lemma `OthersKept` derives every other
run's `Inv` from `Alone(r)`, so the lemmas of the actions speak of one run only.
ResultIsDurable needs ObjectsAreKept, as a verified object is shared, and that
needs `PutsAnew`, as `exists` and `put` are two calls. Two iterations at least,
because with one a demo run with `inject_weak_first` completes below its
threshold; the code passes 3.

### What is only model-checked

Liveness under fairness is out of the prover's reach: RunsSettle,
PublicationSettles and ExecutionEnds rest on their runs. So do the four
violations, which are about single behaviours. That the assumptions on the
constants can be met is shown by the instances of the runs.

## What is not modelled

The components marked so in `PROJECT.json`, with reasons. Also:

- a failing SQLite statement outside the start (busy beyond its timeout, disk
  full), which would raise out of any store call;
- a second serving process on the same data directory, which the repository
  declares unsupported (its start is in ServerStart);
- signatures and hashes, taken as sound;
- the wiping of a Cloudflare disk on restart, after which the database starts
  empty;
- the second GET of the showcase page: the browser reads the receipt and then the
  asset by a path that names neither, so a publication between the two shows one
  approval's text beside another's image; each answer is intact by itself;
- the timeouts of the provider's clients, which Pipelines takes as an ending call;
- `wrap_svg_text` and the drawing of the demo image: pure functions of one brief.

## Plan

1. Done: RunLifecycle and its first theorems, JudgeSandbox, Showcase with its
   register, JudgeLedger; then DemoRateLimiter, ServerStart with its theorems,
   Pipelines with its theorems, ArtifactReaders, PublicShowcase.
2. Done: theorems for every safety property of every passing run, and for the
   register's refinement.
3. Next: what else is true of the compositions (QueuedIsOwed beside readers,
   and the weaker promise JudgeSandbox keeps of it: an unowed queued run is a
   judge's whose reservation another request made); the register under two
   faults, where an approval may be shown and refused.
