# Snow Statistics: formal models

Snow Statistics collects anonymous usage events from two web applications, counts them in a
small service, publishes protected totals, and copies the raw events into a local laboratory of
Kafka, Flink, HDFS, Spark and Doris that computes and publishes reports. The code promises, over
and over, three kinds of things: *nothing is lost or counted twice without a record of it*, *raw
data does not outlive its retention*, and *readers see complete results in order*. It keeps them
with locks, files that are replaced atomically, and an order of durable effects chosen so that a
death between any two can be repaired. The models below state those promises and check them under
concurrency, deaths, retries, expiry and late answers; some are proved for every instance.

Paths are relative to the repository; `store.py` stands for `src/snow_statistics/store.py`.

## 1. The system

```
browser adapter (analytics.mjs)     container logs -> log reader -> forwarder
              \                                           /
               POST batches (retried)      POST completions (retried)
                v                                       v
            Collector (store.py, public_projection.py, api.py)  -->  public statistics page
                |  GET status, GET events?after=n (polled)
                v
            Source synchronisation (sync.py, source_cursor.py)  -- archives: Local retention (lifecycle.py)
                |  Kafka topic of the lane, in a physical epoch (real_epoch.py)
      +---------+----------------------+
      v                                v
Realtime job (Flink)             Warehouse landing (landing.py, real_ods.py)  --> HDFS window
writer's recovery                      |  permit (real_remote_lifecycle.py)
      |                                v
      v                          Batch computation, as attempts on virtual machines
   Doris tables                        |      (real_offline_small.py)
                                       v
                     releases (real_publication.py) -> copies -> private view, lake and Hive tables
                     report publication (publication.py) -> Doris view, dashboards
```

| Component | State | Operations | What is hard | What makes it correct |
|---|---|---|---|---|
| Collector | SQLite tables, cursor, gap receipt, daily and public totals | ingest, maintain, aggregate, publish, read | a request is validated before it waits for the lock; a worker that fails for days; raw rows expire on age | accepted once; totals equal a recount; expired and uncounted means a declared gap; a day shown is final |
| Source synchronisation | binding, cursor, pending, gap, rebase files, a topic | sync_once, rebase, restart | death between any two files, lost acknowledgements, a database rebuilt between two calls | nothing skipped, at most one batch repeated, a gap closes the lane |
| Local retention | registry, gate, payload files | register, write, cleanup, readable | readers take no lock; deaths inside a replacement | no read of something expired, no extended lifetime |
| Warehouse landing | batches, journals, checkpoint, HDFS directories, group offsets | capture, land, acknowledge, expire_window | partial commits, a topic created again, expiry of a window that grows | each offset in one batch; Kafka never ahead of HDFS |
| Report publication | Doris tables, lock file | publish, view | two statements without a transaction; a timed-out statement that runs later | whole packages in order of cutoff |
| Log reader and forwarder | bounded spool, metrics, cursor of another process | poll, forward_once | capacity and expiry against the cursor; refused batches; a lost spool | what is not forwarded is counted |
| Browser adapter | queue, timer, consent shared by tabs | track, flush, stop | consent ends during a request or in another tab | nothing queued or remembered after it ends |
| Physical epoch | manifest, gate, receipt, containers, volumes | start, stop, retire, supervise | start and stop take no lock | retired once and for good |
| Writer | registration, submission, ledger, Flink jobs | initialize, submit, pause, resume | a job exists before its receipt; checkpoints go on until the cancellation | one writer, nothing visible twice |
| Remote retention | registry, journal, permits, leases | register, cleanup, issue_permit, view | an interrupted cleanup; computations that outlive their permit | what is readable is live |
| Retention adapters | Kafka, Doris and checkpoint receipts | one cleanup | producers and jobs go on | a receipt covers what was there |
| Releases | releases, pointers, copies on three hosts | release_real, transfer | expiry between two files; broken transfers; files nobody removes | the pointer names a whole release, never an older one; what makes readers refuse is known |
| Lineage | journal, acknowledgements, copies | append, flush, reconcile | death between post and acknowledgement | one outcome, that of the work, delivered |
| Attempts, machines, lake, Hive | records on three nodes, containers, virtual machines, catalogues | run, cancel, recover, stop | processes that outlive whoever asked for them | an answer "over" is true |
| Realtime job | keyed state, watermark, table | parse, deduplicate, checkpoint | reordered input, expired state, restarts | each record in one output, the first of a key counts |
| Batch computation, dimensions | functions of a frozen input | - | definitions | equal to an independent definition |

`PROJECT.json` lists every component with its files and status, and the hazards: the places
where this code is hardest to test, with the properties that cover them.

## 2. Modules

| Module | Contents |
|---|---|
| `Calendar`, `Tables`, `Store` | the collector: times, the effect of a row on the totals, one action per database transaction |
| `Collector` | what the collector promises to a reader: positions, a floor, a counted prefix (abstract) |
| `SourceSync`, `Relay` | one synchronisation directory with its process; what a lane promises (abstract) |
| `Lifecycle` | registry, gate and payload files, one action per file operation, and lock-free readers |
| `Landing` | capture, land, acknowledge, expire_window as sequences of durable effects |
| `Publication`, `Packages`, `Board` | publishers, their statements, the view; what the published report promises (abstract) |
| `Epoch`, `Engines` | the life of the containers; what it promises to the programs inside (abstract) |
| `Writer` | registration, submission, pause and resume of the Flink writer |
| `Remote` | registry, resumable cleanup, permits, leases, computations |
| `Backends` | the Kafka, Doris and checkpoint receipts of one cleanup |
| `Releases` | the archive of aggregate releases and its copies |
| `Forwarder`, `Browser`, `Lineage` | the three senders: each holds something until a service has taken it |
| `Attempts`, `Machines`, `Lake`, `Hive` | computations on the laboratory's nodes and what outlives them |
| `Realtime` | the streaming job |
| `Behavior`, `Dimensions` | pure algorithms beside an independent definition of their result |
| `StoreProofs`, `SourceSyncProofs`, `LifecycleProofs`, `LandingProofs`, `PublicationProofs`, `RemoteProofs`, `ServicesProofs`, `LaboratoryProofs` | theorems |
| `Programs`, `Laboratory` | the programs of the laboratory, two groups that share no state, and their properties |
| `MC...` | the small instances |

`Store` implements `Collector`, `SourceSync` implements `Relay`, `Publication` implements `Board` and
`Epoch` keeps `Engines`, each by a refinement mapping checked as a property. `SourceSync` contains a collector
reduced to what `Collector` promises. Definitions that end in the comment `mutant` are wrong variants of the
definition below them; no specification uses them, they show that the properties can fail.

`MCServices`, `MCLaboratory` and `MCPrograms` put several programs into one instance. These programs share no
state in their modules: the variable `part` is chosen in the initial state and only the steps of that program
follow, while the others stay in their initial states, so each run is the union of the runs of its programs. This saves starting TLC a dozen
times, and says nothing about interactions; what one program needs of another is inside its module,
as an external step (an engine that stops under the writer, a cleanup that
meets a producer). `MCServices` extends `Epoch` and `Lineage` and instantiates `Browser` and `Forwarder`. `Laboratory` instantiates the four
programs that work under locks, leases and ledgers (`Writer`, `Releases`, `Attempts`, `Lake`), `Programs` the five that work beside what they cannot lock
(`Realtime`, `Hive`, `Dimensions`, `Backends`, `Machines`) and `Behavior`, with the constants and variables of each
(renamed where two have the same name) and their properties; `MCPrograms` extends `Publication` too. The proof modules extend `MCServices`, `Programs` and `Laboratory`,
so that the theorems are about the very definitions the runs check. `PublicationProofs` has those about `Publication` and about three of `Programs`, `LifecycleProofs`
those about `Lifecycle` and about `Backends` and `Machines`, `RemoteProofs` those about `Remote` and about `Behavior`; none of the three shares a name with `Programs`. Each is about the specification of its program alone, where the others' variables are not constrained. The
assumptions on constants are `ASSUME`s in the modules that some MC module extends; in the instantiated ones they are operators
(`WriterAssumption`, `BrowserAssumption`, ...) which `ServicesAssumption`, `ProgramsAssumption` and `LaboratoryAssumption` assume for the constants of these modules.

### Collector and lane
`Store`: the variables are the tables, the requests in flight and the worker. `StartIngest` is the part of
`Store.ingest` before the lock: it reads the clock (line 110) and keeps the batch with that time.
`CommitIngest` is the transaction, at most `MaxWait` ticks later: replay, conflicts, the rows. `RefuseIngest` is
every exit without a row. `Maintain`, `Aggregate`, `Publish` are the worker's transactions (`api.py` 26-37);
`Wake` reads the clock of `maintain` before its lock. `WorkerError` rolls back, `Crash` loses memory only.
`log` is history: the rows ever accepted.

`SourceSync`: `proc.pc` is the place in `sync_once` or `rebase`. Every action ends with at most one file replaced,
so `Fail` between actions is a death anywhere. `LoseAck` fails a send the broker executed; `Resend` is the
producer's retry without idempotence. The collector accepts, expires, loses totals and is rebuilt between any two steps.

`Lifecycle`: a changing process holds a list of file operations that `Operate` executes one by one; `Register`,
`WritePayload`, `StartCleanup` and `Plan` compute those lists as the code does. Readers do `readable` in its
own order: registry (line 170), gate and plan (171-173), inventory (177), with no lock.

`Landing`: each command is a sequence of steps named after its durable effect. A command that refuses is a guard.
`Truncate` and `Recreate` are Kafka's. `Publication`: `Begin` takes the lock, `Check`, `Load`, `Readback`, `Commit`
follow; `Die` is a death between statements; `Abandon` is a statement the client no longer waits for, `Late` executes it.

### Epoch, writer, remote retention
`Epoch`: containers and volumes of a stage are one box and one volume each. A retirement (`RetireBegin` ...
`RetireReceipt`) is split at every object, runs in the supervisor and in admissions of retired storage, and holds the
lock of the epoch. `StartBegin` ... `StartGate` and `Stop` take no lock: a start admitted before the deadline may
create its objects after the receipt, which `late` records. A supervisor that finds the lock held
by a synchronisation for a minute gives up, stops the engines and is restarted.

`Writer`: Flink's jobs, checkpoints and committed rows are external. `Launch` creates the job before anything is
written about it. `PauseLook` reads the newest checkpoint before the cancellation, `PauseRecord` again after it. The
ledger can be torn by a death in any append, that of a begun pause or resume (`BeginDies`) like every later one, and is then closed for good. Engines may stop at any time, without a lock.

`Remote`: the dozen outputs of a run are one artifact per retention class. Cleanup is split at the journal, every
deletion, the mark, the new registry and the removal of the journal; two processes call it and may die anywhere. Whatever
writes payload works without the lock. `Backends` has the engines behind a cleanup, between whose requests
producers, jobs and the broker's own retention go on.

### Senders
`Forwarder`: a poll reads logs, ingests, expires and trims in the order of `Spool.ingest`; the forwarder reads the spool
and replaces its cursor in two steps, so that it may die between the answer and the cursor. `life` counts the spools:
a lost one is created again and its rows numbered from the start.

`Browser`: one action per handler; tabs share consent and identity through storage and learn of changes by events
(`notice`) that they handle later. `overlap` marks a new consent given before some tab has handled the withdrawal.

`Lineage`: `reconcile_failed` reads and appends in two transactions. Delivery posts and acknowledges in two steps, from
the journal and from exported copies. `result` is history: how the work of an attempt really ended. The journal never reads it; the
outcomes it records are compared with it.

### Computations
`Attempts`: worker, child, driver and cancellations are processes of their own, and end independently. `node_cancel` holds the attempt's
lock for `Mark` only (`real_offline_small.py:584`): signals, session, driver and receipt come without it, so that a cancellation whose caller has timed out
(line 1051) runs beside its repetition by `stop` (line 1163), `Calls` of them at a time. Each reads `done.json` on its own; `stale` is history and
holds those that saw it unfinished and will not read it again. `Machines`: the
operator's program as a list of commands over the machines, each of which may have an unknown result; commands of
attempts appear as one step there. Its controller may raise at any point; the operation then begins to stop what it
owns, an explicit stop that leaves a machine on stops once more (`Again`), and a job without input ends early. `Lake`: reservations of two nodes' services, a worker with its driver,
the confirmation at the authority, cancellation and `--recover-stages`. `Hive`: intents and registry on one
node, drivers on another; one release with two tables stands for four groups.

`Releases`: registration, file, pointer and expiry of a release in the control archive, the fetch by way of the
operator, and an archive per run on the analysis node. A read is `Clean` and `Readable`: `read_real_release` cleans first, and the cleanup refuses
(`Refused`) while the archive holds a file no entry lists, the temporary file of a release or of the registry included (`Temporary`). `Write` and
`Replace` are the two halves of `write_json`; who dies in it leaves the temporary file for good (`Die`, `DieCleaning`).

`Realtime`: `Process` is one record through contract, window, watermark and both deduplications; which watermark applies is a
choice between the last emitted one and the newest record's, as Flink emits it from time to time. A checkpoint commits
state, table rows and offset together (the sinks' two-phase commit is external); side topics are at least
once. `expired` is decided when a record is first read. Loss of state is `Lapse` (8 days) and a submission without savepoint, only for the
synthetic job: the real one keeps state for 30 days, longer than its window, and starts from a savepoint or a fixed offset.

`Behavior`: sessions and the entry funnel of `real_behavior.py` as sets of joined rows, beside the loops of `behavior.py`,
its oracle in the tests, over every subset of 14 events. The oracle's sort and its two loops are recursive functions (`Sorted`, `OracleConversions`, `OracleSessions`). `Dimensions`: what `build_bundle` refuses and what its index and the warehouse's join
answer, beside a history of deployments the receipts may have been taken from (`world`), or for arbitrary receipts.

## 3. What is checked

All runs are complete explorations of the named instance.

| Run | Question | Properties |
|---|---|---|
| `StoreRetry` | Two clients post overlapping, duplicate and conflicting batches and retry them for ever, while rows expire and transactions fail: is anything accepted twice, lost silently, or missing for a reader? | `NoSilentLoss`, `ReadersToldTruth`, `AcceptedOnce`, `RefinesCollector` |
| `StoreCount` | Are totals what a recount gives, is a day frozen once and complete, although a row validated before a cutoff may commit after it? | `TotalsTrue`, `PublishedWhole` |
| `StoreLive` | Is every accepted row counted, or a gap declared and visible? | `EventuallyKnown` |
| `Sync` | A death, a lost acknowledgement, producer retries, expiry, a rebase and a rebuilt database between any two steps: is the lane a relay without holes, and does every row arrive or leave a record? | `LaneSound`, `SendsInTime`, `RefinesRelay`, `EventuallyRelayed` |
| `LifecycleReads` | Registrations, copies, payloads, cleanups, a death anywhere and a reader without lock: what is on disk, what is read, is expired data removed? | `ReadsSound`, `NeverExtended`, `PurgedUnlessTorn` |
| `Landing` | Two partitions with interrupted commands in any order and a topic created again: each offset once, Kafka never ahead of HDFS, every batch settled? | `WindowSound`, `CheckpointAdvances`, `EventuallySettled` |
| `RemoteReads` | A run with a raw and an aggregate output beside another run's reservation, cleaned by two processes that may die: what do permits and leases cover, does expired payload go? | `ReadsCovered`, `EventuallyRemoved` |
| `Services` | Browser, forwarder, lineage, epoch: is what they hold handed over, counted or given up, and does the epoch end? | `ConsentObeyed`, `NothingLostSilently`, `JournalTrue`, `EpochSound`, `EventuallyDelivered`, `EpochEnds`, `KeepsPromise` |
| `Laboratory` | Writer, releases, lake, attempts: do locks, leases and ledgers keep one writer, one archive, one execution, whatever dies, is late or outlives its caller? | `WriterSound`, `NoTrespass`, `ReleasesSound`, `NeverBackwards`, `AttemptsSound` |
| `Programs` | Publishers, adapters, machines, Hive, streaming job, catalogue history, behaviour model: are what they show and what they record true of what goes on beside them? Three publications of any window, result and two cutoffs, with two deaths or late statements. | `PointersHaveRows`, `DaysAreNewest`, `RefinesBoard`, `ReceiptsTrue`, `OthersKept`, `CatalogSound`, `RealtimeSound`, `DimensionsSound`, `BehaviorAgrees` |
| `SyncOverdue`, `HiveRetry` | see section 6 | `ExpiredMeansExpired`, `ReservationRecovers` |

Most properties are conjunctions of named parts, each with its comment in the module; a property that ends in
`Sound` or `True` includes the type invariant of its module where there is one. What the parts of the combined runs say:

* `ConsentObeyed`: nothing queued is stranded or sent a third time; a withdrawal handled by every tab leaves no adapter and no
  stored identity; an old identity is not used under a new consent, except in the case `overlap`.
* `NothingLostSilently`: the rows that were ever spooled are still there, accepted or inside a count; what no poll saw is
  in `unobserved_seconds` or `incomplete_polls`, except what was logged while a poll was reading (`blind`).
* `WriterSound`: at most one job writes; the running one is never behind what is visible; a paused ledger names the newest state.
* `ReceiptsTrue`: of the adapters, that everything present at the moment of a cleanup is covered by its receipt; of the machines, that what
  was declared off stays off and does not come up by itself.
* `NoTrespass`: while a synchronisation has the operation lock no record of a pause or resume is written and nothing is produced without it; a late
  or repeated cancellation stops no other attempt's driver, unless it had read `done.json` for the last time before its own attempt was over.
* `ReleasesSound`: a live pointer designates a whole registered release of a matched pair, and can be read unless the archive is obstructed: by a
  release being written, a temporary file whose writer died, or a release that expired before it was put in place. Copies are those of one release.
* `JournalTrue`: an attempt has at most one outcome, after its start; COMPLETE only if its work completed, FAIL only if it failed or the
  scheduler had given the attempt up; what is acknowledged has arrived, starts before outcomes.
* `AttemptsSound`: services taken out of their ordinary phase have a reserved attempt; an attempt is executed once; one
  that was reported cancelled has nothing running and starts nothing.
* `CatalogSound`: a table exists only after its intent and its registration; what a cleanup said is true, except of a driver nobody
  waits for any more; a registered release has its tables until they expire.
* `RealtimeSound`: a record behind a checkpoint is in the table under its business key, late, or quarantined; the first eligible
  record of a key stays; without lateness and loss of state the table is what `model.py`'s `deduplicate` makes of the topic.
* `DimensionsSound`: an artifact knows one release at most for a moment, by history and observation together, and the
  warehouse's join gives one row, the same answer; a closed interval holds no other verified release; receipts of what
  really happened are never refused in any combination, and the answers are then what happened.
* `OthersKept`: a cleanup deletes no live record of the topic it scanned; no machine that was seen to run unknown work is stopped.

**Bounds, and why they suffice.** Retention is two ticks against seven days (one in `Forwarder`, and for raw data in `LifecycleReads`), so an instance has rows that are fresh, at their last tick and expired; days are one tick and every cutoff,
slot and window falls on a tick: all comparisons in the code are between such times and both sides of each
are reached. `MaxLog`, `MaxPos` exceed the page or batch size, or equal it where a page and a rest are not the question (`Sync`).
Two clients suffice for a conflict between a request that was validated and one that committed. Faults: two where a death may
interrupt the recovery from another (`Publication`, `Epoch`), three or four where they are lost answers rather than deaths (`Lineage`,
`Machines`), otherwise one, which already ends any command at any of its steps; for `Lake`, `Attempts` and `Writer`, which recover from
deaths during recovery too, the theorems of section 4 have any number of them. Two generations are an old and a new database, two
incarnations an old and a new topic, two partitions the least for a partial commit, two artifacts the least for a reference, two tabs
the least for a withdrawal elsewhere, two cleaning processes the least for one that meets the other's journal, two attempts the least for a
late cancellation, two cancellations of each (`Calls`) the least for one that overtakes the other. Publications need two days for half a window, three runs for a retry behind a newer result.
`Forwarder` has three completions, one of which the collector does not list, in a spool of two rows. `Realtime` has three records of two events and one request
at two times, with bound and lateness 0: every order, duplicate and late copy. `Dimensions` has three editions, two observations
(`MaxAttested`) and two intervals of coverage (`MaxCovered`) at four times: the least for a gap between an observation of a second release and a history that
closes the first; `AnswersAreSound` has no such bounds. The constants keep the order of the code's: raw retention below that of keys, window below keys; the
assumption operators say what is needed of them. `Releases` has an older cutoff and two contents of a newer one, all of which live at once in the
middle of the run while the older has expired at its end. `Machines` has the code's three nodes. In `Laboratory` the two attempts, the two contents and the two cancellations have the same two names and can be exchanged (`SYMMETRY`), in `Programs` the two results a publication may have: no
module chooses one by name, and these runs check safety only. Deadlock is checked for Store, SourceSync and Lifecycle; the others stop when
their bounds are used up or their operator has nothing to do.

**Fairness.** `StoreLive`: weak fairness of the worker, which `api.py` runs in a loop that catches every exception and sleeps;
requests have none. `Sync`: weak fairness of the steps of a synchronisation with its restart, as a supervisor restarts
`kafka_sync`; faults are bounded, since a process that dies in every attempt delivers nothing. `LifecycleReads`: weak fairness of
the calls of cleanup and of a changing process that has begun. `Landing`: strong fairness of each command, because the
operator's runner repeats its phases and a command may be disabled while another holds the lock. `RemoteReads`: a process inside
cleanup goes on or dies, and cleanup is called again and again although the lock may be busy (strong). `Services`: the forwarder's
service loop fetches and saves; its send is attempted again and again and the collector answers some (strong); delivery of lineage is repeated by
its timer; the service manager restarts the epoch's supervisor, whose attempts find the lock free infinitely often (strong), Docker commands
return, a synchronisation ends, and somebody removes a foreign object; nobody is obliged to start anything.
`HiveRetry`: the operator registers the release again and again. `Tick` (except of `Epoch`), clients, readers, brokers and publishers have none.
The liveness of forwarder and lineage is stated as `[]<>`: "not held any more" is among the outcomes, so it
says the same as a leads-to and is cheaper to check.

Each property has a mutant in `PROJECT.json`: a plausible bug in a definition of the model with which TLC
refutes it under the same configuration.

## 4. What is proved

TLAPS checks these for all values of the constants that satisfy the named assumptions: any number of
clients, events, ticks, faults, partitions, readers, processes, days, packages. In each module `IInv` is the inductive
invariant; there is a lemma for each action (or family of actions) that can disturb it, and TLC has checked it on the instance of the run.

`StoreProofs`, from `StoreAssumption` (and `RetentionAssumption` for the totals):
* `TypeCorrect`: the part of the type invariant the arguments below use (`LogTypeOK`).
* `NothingLostSilently`, and `ReadersAreToldTruth` from `ReadersSeeNoHole` and `GapAgreesWithBoundary`. They are not inductive. `IInv` adds
  to the types that what was deleted is below `expired_through` (`DeletedBelowBoundary`) and that the stored receipt exists
  exactly when `expired_through` is beyond the cursor (`ReceiptIffOvertaken`). `MaintainSafe` and `AggregateSafe` are the
  two steps that can disturb it: deletion writes the receipt in the same transaction, and aggregation
  refuses to pass it. The lemma `BoundaryProperty` says what the computed boundary is.
* `CollectorImplemented`: Init and each step of `Store` map to `Collector`; the boundary computed from the clock only grows
  (`BoundaryGrows`).
* `NeverAcceptedTwice`: from `OnceInv`: every accepted key is remembered or so old that the window refuses it. This is where
  the assumption that keys outlive the window, the allowance for the future and the wait for the lock enters.

* `TotalsAreTrue`: `TotalsTrue`, with `RetentionAssumption`. `Tally` says that a table of totals and its visitors are those of a set of rows, as far as they are
  kept; `CompletedRight` that table `requests_seen` knows every completion that was counted unless it is too old to be repeated. Both hold of the rows up to
  the cursor (`Tallied`); counting one row more keeps them (`RecountOneMore`, `TallyOneMore`, `CountKeeps`). `Counting`, the loop of `aggregate`, is a
  recursive function: that it exists and obeys its definition at every position (`CountsExist`, `CountingIs`), and that its last value
  is right (`AggregateTallies`), is shown by the least position for which it were not. Without a gap the next rows are the next
  positions (`NoGap`, `NextRowsAre`). Retention takes from the tables only what no row still to be counted can need (`TalliedTrimmed`, `FreshDay`).
* `ShownForGood`: `PublishedWhole`, on top of it: what is shown of a day is pending, or was frozen (`SnapshotRight`), slots follow time
  (`SlotGrows`), and a step that freezes a day finds everything counted (`FrozenStep`, `CompletePrefix`).

`RetentionAssumption` holds of the periods in `store.py`: visitors are kept for 29 days, while an event can be counted for 14 days after it occurred
(seven for its arrival, seven as a raw row). Its last part is about the product, and the collector does not check it: all completions of one
request occur within thirty days less seven, seven and the five minutes of skew; a request lives for minutes, and the forwarder's spool keeps its completion
for 24 hours. Without it a second completion would be counted again once `requests_seen` has forgotten the first.

`SourceSyncProofs`, from `SyncAssumption`:
* `LaneIsSound`. `IInv` ties the memory of the process to the files its step has read or written (`MemoryRight`), the pending
  batch to the cursor and to its archive (`PendingRight`), and the topic to both: every position up to the cursor is
  there, and beyond it only rows of the batch that begins there (`TopicRight`). A rebuilt database can put rows of another
  generation into the topic only by the batch fetched last (`GenerationsRight`, `ForeignRight`), whence
  `ForeignIsOneBatch`: one page of foreign rows at most.
* `SentInTime`: what is sent had not expired when the step that sends it decided to.
* `LaneIsRelay`: each step is a step of `Relay` or a stutter (`RelayStep`).

`LifecycleProofs`, from `LifecycleAssumption`:
* `ReadersAreSafe`: `ReadsSound`. The argument is over the list of file operations a process has still to do: a change adds one entry whose
  references exist and which had not expired (`ChangeRight`); a purge leaves the gate closed (`PurgeRight`); what follows it unlinks
  payload before it forgets the entry and opens the gate last (`ReopenRight`). `GateRight` says that an open gate means nothing
  was expired when it was opened. A reader that holds no lock is covered by `LookRight`: what it was admitted to is still registered, or
  a later cleanup has removed everything expired by then and nothing of the kind comes back. `OverdueAt`, closed under
  references, enters by what contains it (`OverdueContains`), its monotony in time (`OverdueLater`) and in the registry (`OverdueWithin`).
* `LifetimesStand`: `NeverExtended`: no step gives a registered path a later end.

In the same module, from `ProgramsAssumption`:
* `ReceiptsStayTrue`: `ReceiptsTrue`, for the adapters from `BackendsInv`. Offsets do not change their record while the topic is the same (`LogMoves`), so what a scan has
  learned of a partition stays so for the offsets up to the end it started from, whatever is produced, dropped or deleted meanwhile: `ScanTold` says that what had expired lies before the
  cut, nothing else does, and the expiry of every other record is among those the receipt takes the least of (`SmallestIs`). A topic made anew releases all of this at once (`LogGoes`).
  `DorisInv` counts what a job inserts after the verification as `after`; `CheckpointInv` ties both looks at Flink to the number of jobs started between.
* the machines' part, from `MachinesInv`. `Steered` splits an operation in what lies ahead of its stop (`Ahead`: a start has found every machine off, and has nothing but the node with the data until the
  input is known; the others have found on what they own) and the stop (`Stops`: every node that was passed is off unless the operation says that something is left). `Sober` holds in both: what is
  owned without an uncertain start does not come up by itself, and a machine whose unknown work was seen is never among those that get a plain soft stop. `RaisedRight` is the exception that any command may raise.
* `OthersAreKept`: `OthersKept`, both parts, by the same invariants: `ScanTold` before a deletion, and `Watched`: what was noticed runs and is on, at any step.

`LandingProofs`, from `LandingAssumption`:
* `WindowIsSound`: each offset in exactly one batch, Kafka's group never ahead of HDFS, the head readable. `Tiles` says that the
  batches of the checkpoint, with those purged, cover the offsets below it once each; `PendingRight` that a pending batch
  continues it and is stored, then landed, then in the checkpoint; `JournalRight` that an interrupted expiry is on one side of the
  replacement of the checkpoint; `CommittedRight` that a commit is covered by the checkpoint or by what has landed; `ProcRight`
  what the running command knows at its step. `ShareBounded` and `SpendingGrows` are about the division of the record budget.
* `CheckpointHolds`: `CheckpointAdvances`, an action property.

`PublicationProofs`, from `PackageAssumption`:
* `TypeCorrect`, `RowsComeFirst`: inductive together (`IInv`): a pointer, also one in flight, belongs to rows that were read back.
* `NewestStays`: `DaysAreNewest` on top of them; the sequence column makes a late statement harmless (`UpsertAdvances`).
* `BoardImplemented`: under `IInv` the view is a function of the pointers (`ShownByPointer`), and an upsert is an announcement (`UpsertIsAnnounced`).

In the same module, from `ProgramsAssumption`:
* `NothingGetsLost`: `RealtimeSound`. What the job has in memory and what its last checkpoint saved are two instances of one statement, so `RealtimeInv` is about any
  pair of a saved state and the rows that belong to it: every record up to its position is held by what it should be (`Upheld`), and while nothing was late and no state
  was lost, the keys seen are exactly the first copies (`Exact`). A checkpoint copies the one to the other, a restart back; that what is published later changes neither
  is `UpheldPublished`, that the offline count over a prefix depends on the prefix alone `PrefixesAgree`.
* `CatalogIsSound`: `CatalogSound`. `HiveInv` has three parts. `Progress`: what an operation's steps have achieved when it stands before the i-th of its program,
  which no later step of anybody undoes (`Evolves`, `ProgressKept`). `DriverSound`, of every driver, whether somebody waits for it or not: what it acts on was
  looked at after its request was made, so a table it calls expired is, and what it has read is there until it expires. `WaitedSound`, of the driver
  somebody waits for: of what had expired when its cleanup was asked for, it has dropped all it is done with, or it was made by another driver, who is then late.
  `DriverGoesOn` is the step of any driver, `FreshName` the pigeonhole behind the names of requests.
* `AnswersAreSound`: `DimensionsSound`, all three parts. The invariant is plain (`DimensionsInv`: receipts are well-formed, and where there is a history they report it);
  the work is in what the refusals of `build_bundle` exclude, in integers: `NoTwoAnswers` takes any two releases that answer for a moment, by history or by
  observation, through every pair of receipts they may come from; `NoneBegins` and `ClosedBy` do it for the beginning and the end of an interval. `Live` says that a history
  is of one release at a time, from which `TruthAdmitted`: none of the refusals applies to receipts that report it.

`RemoteProofs`, from `RemoteAssumption`:
* `ReadsAreCovered`: what a permit or a lease covers is registered, stored and live. A run has its outputs' ends from its plan on (`PlanRight`); a
  permit lasts no longer than any of them, and they stay registered as long as it does (`GrantRight`). Inside the lock the journal is
  bound to the registry, and when the engines are asked nothing due is left but what came late (`LockedRight`); the next expiry a
  receipt carries bounds all that was registered then (`ReceiptRight`). `WriteRegistryKept`, `IssuePermitKept` and `AdmitKept` are the steps where this is used.

In the same module, from `ProgramsAssumption`:
* `ModelAgrees`: `BehaviorAgrees`, for any finite set of events with any times, and any window. The invariant is only that the events are finitely many possible ones and
  that a request completes once (`BehaviorInv`); the work is in what both computations come to. Sorting: as long as no two keys are the same (`Sortable`), what `Sorted`
  lists is every element once, in order (`SortedIs`). Loops: that the function which `OracleConversions` or `OracleSessions` defines exists and takes each step (`LoopExists`,
  `OracleLoop`, `GroupLoop`), and that what holds of 0 and of n + 1 after n holds up to the end (`UpTo`), come from the least position for which they do not.
  `JourneyIs` and `LatestIs` say which arrival and which click both choose. `ConversionsAgree`: after n completions, consumed are the clicks that are
  the last eligible one of some completion among them, each with the first such (`Won`, `Latest`), which is what the joins keep. `SessionsAgree`: after n events the last group
  is what came since the last opening and the groups before it are the sessions which opened before that (`Grouped`, `GroupStep`).
  `FunnelsAgree` and `FunnelNarrows` follow from `FollowedClick` and `ConversionsAgree`.

`ServicesProofs`, the epoch from `EpochAssumption` (`EpochInv`), the journal without assumptions (`JournalInv`), browser and forwarder from
`ServicesAssumption`:
* `RetiredForGood`: `EpochSound`. `RetirersRight`: what a retirement has established holds until its receipt unless a start was late; `OnlyExpired`:
  nobody retires before the deadline.
* `PromiseKept`: every step of `Epoch` is one of `Engines` or a stutter: nothing is disposed of before the deadline or under a running engine
  (`RemovalIsDisposal`, `StartRuns`, `StepKeepsPromise`). It does not say that engines run only before the deadline: a late start runs them after it (section 6).
* `JournalIsTrue`: all of `JournalTrue`. For the outcomes, `JournalInv` adds that a process about to append one appends that of its work (`result`), that an attempt with an event has begun and that the one
  `reconcile_failed` has read was given up before; `AppendStep` says what one append records, and that a legal outcome is the first.
  For the delivery, `DInv` adds that each copy has the start of an attempt before its outcome and that a flush works off its pending events in
  order (`FlushRight`), so that what arrived has its start before it.
* `ConsentIsObeyed`: `ConsentObeyed`. `WithdrawalKnown` says that a tab which goes on after a withdrawal has a storage event before it;
  `IdentityRight` that under a consent, unless one was given over an adapter that had not yet heard of the withdrawal, everything a tab remembers, holds and
  sends is of that consent. `StopRight` is the step every handler may turn into, `WorkRight` that of a handler that goes on, `ChoiceStep` the one that
  explains `overlap`.

* `RowsAreCounted`: `NothingLostSilently`. `ForwarderInv` ties three places together: the batch a send is about covers all rows of the spool that
  still live up to its last number and beyond the cursor; the counts cover every row that is neither there nor accepted; and what a poll has
  seen and not yet ingested is what its logs say. The lowest number not yet accounted for exists because a set of numbers has one (`Lowest`).

`LaboratoryProofs`, from `LaboratoryAssumption`:
* `OneWriterAlone`: `WriterSound`. Flink may know a job of which no receipt speaks yet, and a receipt may name one that
  Flink has forgotten: the invariant `WriterInv` is about the last job, some `k`, and says that every other has ended (`JobsRight`), that what is
  committed is what the last one wrote or restored (`LastWrites`), where the ledger is (`LedgerRight`) and what the operation under way knows of `k` (`OpRight`).
  Each operation is a list of steps, each with a lemma; a death between any two of them leaves one of the states the ledger admits.
* `PointersAreGood`: `ReleasesSound`, and `NeverOlder`: `NeverBackwards`. `ArchiveRight` says of the publisher that what it is about to point to, if it still lives, is
  listed, stored, and follows what lives there: the check was made steps before, and readers remove what has expired meanwhile without
  asking the publisher, which is harmless because they remove nothing else. `ReadOrObstructed` derives from it that a refusal has one of the three named reasons. `CopyRight` says that manifests never change and that whatever lies
  without a reservation has expired; `TransferRight` what a transfer may rely on after its reservation was removed under it.
* `NobodyTrespasses`: `NoTrespass`, the lease from `WriterInv` and the drivers from `AttemptsInv`.
* `ReportedIsGone` of `Attempts`. `AttemptsInv`: an attempt is executed at one place (its worker, its child or nobody), a session that lives has its
  durable identity unless its worker is between starting and recording it, and a cancellation that has reported has looked at all of them; `CallRight` says it of each
  of any number of cancellations, and that one which goes on to stop the driver is in `stale` (`CancelStep`).
  `NoStrangerStops`: while every other attempt is over, nobody stops the driver of the one that is waited for.
* `TablesWrittenOnce` of `Lake`. `OpInv` says what the command under way has established, `StageInv` that a node out of its ordinary phase has the attempt that owns it,
  `RunInv` that one execution writes and that what is confirmed came from it. `AttemptsAreSound` joins it with `ReportedIsGone` to `AttemptsSound`.

The assumptions ask of the constants what the code's have: positive retention, pages and budgets, and the order of the
retentions; and that the value `None`, which stands for an absent file or field, is none of the numbers, names or batches it is compared with. The artifacts
`Others` of `Remote` are not outputs of its runs, as their paths are not, and no run of `Releases` is called `control`, the name of the first archive here. No assumption speaks of the state. Some operators are written
declaratively where a fold or a recursion would follow the code's loop, so that they can be reasoned about: `OverdueAt` of `Lifecycle`
is the least set closed under references, `Retries` of `Browser` the batch in the order its indices have, `Spending` of `Landing` are the running sums of the partitions' shares.

Only model-checked: all liveness, which needs ENABLED. Every invariant and action property that a passing run checks, and each refinement, is a theorem.

## 5. What is not modelled

Not modelled as components (reasons in `PROJECT.json`): the paired model release, whose one check and one atomic file leave a property
nothing to say; schedules; fixtures and evidence; dashboards and deployment. Everywhere, bytes, digests,
paths, JSON and labels are identities of values, since the code only compares them for equality. A replaced file is replaced atomically
(`io.atomic_write`) except in `Lifecycle`, which models the torn temporary file. Restored backups and directories of earlier versions
are left out. In detail:

* Collector: rate limiter, tokens, body limits (they choose which batches arrive; the model admits any), the trimming of a summary when read.
* Synchronisation, retention: more than one changing process in one directory, which `publication_lock` excludes.
* Landing: normalisation and quarantine, byte budgets, checksums, a change of the number of partitions, the synthetic CDC topics, `_staging`
  directories, the NameNode's answer to a repeated DELETE, and a record budget below the number of partitions (it would starve a partition, but
  the only caller, `real_lab.py` 621, passes 10000).
* Epoch: the text of manifests, memory and disk gates. Writer: Doris accounts, receipts of stopped storage; `start-offline` reads
  "paused" without the operation lock.
* Remote: several small file operations are one step; the permit copied to the computing node is not revoked by anything, nor is it here;
  a view that drops its lease while rendering; `auxiliary_rewrites` and `references`, which no caller passes.
* Releases: a read is one step, and one that finds the lock held by another cleanup, and fails, is left out; the lineage captured beside a publication; a failing import that stops the analysis epoch. Backends: the two looks of `real_backend_lifecycle.py:326-328` at the checkpoints and their roots are one step (`QuietAgain`; its comment says
  why that loses nothing); a topic created again
  between the check of its identity and the deletion (`DeleteStep` exempts `identity`).
* Lineage: the validation of datasets; `RealCapture` raises where `Capture` swallows. A late duplicate of START may reach the receiver after
  COMPLETE; the receiver is a set.
* Forwarder: projection of a line, socket framing. The logs of a container that is gone are external. Browser: session identifiers, the end of an
  identity after 30 days.
* Attempts: all attempts share one run and phase; a `docker start` that reached the daemon is a running container; `preserved_service_cleanup`.
  Machines: resource gates, the monitor's thread, the guard of a paused writer, a machine switched off from outside. Lake: freshness of
  a proof (5 minutes), `cleanup_copies`, readiness checks. Hive: row contents, Parquet, and the view's operations beyond their cleanup.
* Realtime: the fields of `EventContract`, several applications, environment and epoch of a record; at most three records are in the topic, and it is
  never more than one ahead of the job. Behavior: channels, report dates, retention cohorts, daily sums, the merge with auxiliary data.
  Dimensions: one application; rows and tombstones, the capture of catalogues from Git; `real_dimensions.py`, which runs its computation as
  `Attempts` describes.

Liveness is stated only where the code has somebody who repeats an operation. The writer, the releases, attempts and machines wait
for their operator: only safety can be asked of them.

## 6. Where the code and its words disagree

Two runs end in a counterexample:

* `SyncOverdue` (`sync.py:48`): `readable` refuses *every* path while *any* registered artifact is overdue, and `sync_once` takes each
  refusal for expiry of the pending batch. An old archive that falls due between the cleanup and that call turns a live batch into a
  permanent `expired_pending_batch` gap.
* `HiveRetry` (`real_hive.py:152`): the comment says that a crash between the two writes "is recoverable by reserve()". The only program that
  reaches it, `tools/real_hive.py`, runs `cleanup` first (line 103), which refuses while tables and intents disagree: for ever.

The following were met as counterexamples to a stronger property than the one kept. The property above states the exception, so that
it says what does hold.

Collector, lane, retention:

* `store.py:310` deletes raw rows on age, counted or not; `docs/architecture.md:25` says only the aggregated prefix is deleted
  (原始暂存仅删除已聚合前缀). What does hold is `NoSilentLoss`.
* `store.py:298`: `maintain` reads the clock before the lock, so one lost row can be counted twice in the receipt; the count is a bound.
* `sync.py:40` and `:62`: status and events are two calls. A rebuild in between puts one batch of the new database into the old lane;
  `source_cursor.py:3-4` says it is never the same stream. One foreign batch is the most.
* `sync.py:48` before `:56`: a batch that was acknowledged, whose pending file survived a crash, becomes a permanent gap once its archive
  has expired; `docs/architecture.md:29` says that crash is recoverable.
* `source_cursor.py:107`: a rebase that dies between cursor and receipt leaves a usable lane without the record of its loss that line 85 announces.
* `lifecycle.py:140`: a crash between creating and renaming leaves a `.json.tmp` without entry; every later cleanup refuses, although line 69 means
  to cover such files. `PurgedUnlessTorn` says that nothing else has that effect.

Landing, publication, releases:

* `landing.py:259`: a death between `landed.json` and the receipt leaves a snapshot in HDFS that no expiry removes.
* `landing.py:230`: a captured batch that expires before it is landed stays pending for ever and blocks capture and expiry;
  `docs/incremental-ods.md:38` promises recovery. `EventuallySettled` excludes it by name.
* `publication.py:124`: a pointer update that times out (line 101) can be executed after the lock is released, and an equal version replaces
  (`publication.sql:13`): another result for the same cutoff, which `docs/offline-pipeline.md:69` excludes.
* `release_real` registers only the `.json`, not its temporary file, unlike `real_transfer`; a release that expires between its registration and its
  write, or a pair that is being copied, is left unregistered. Either blocks later cleanups (`Orderly`, `Stray`), and with them every read, as does a
  `registry.json.tmp`: `read_real_release` cleans first, and nothing in the code removes such a file (`Obstructed`). When the release a pointer names
  has expired, an older cutoff may be published; and as `manifest.json` outlives the pair, an expired run cannot be exported again.

Epoch, remote retention, engines:

* `real_epoch.py` `start` takes no lock. A start admitted before the deadline may create containers after the receipt; then every later `retire` and
  `expire_due` raises. `deploy/real-epoch/README.md` says that restarting a retired epoch must fail.
* `real_remote_lifecycle.py:374` and `:382`: a death between the new registry and the removal of the journal, which is bound to the
  old registry's hash, blocks every later cleanup (`Stuck`). A computation may run for 1100 s under a permit of 900 s.
* Adapters: a job that runs while Doris is verified may insert a row afterwards (`after`); a job that begins and ends between the two looks of the
  checkpoint adapter may leave a root that the receipt's next expiry does not know.
* Writer: a pause before the first checkpoint, or a command refused while the writer runs, stops the engines; Flink then forgets the job,
  and a ledger at `pause_requested` or `resumed` can never be completed.

Senders:

* A lost spool is numbered from 1 again while the forwarder's cursor keeps its old value: rows are skipped without a count (exception `life > 1`).
  A gap is measured from the end of one poll to the next; what is logged while a poll reads may be missed (`blind`). One
  event that the collector does not list has its whole batch refused, which is counted.
* `analytics.mjs`, `bootstrap.mjs:87`: "withdrawal is immediate", but a new consent given in another tab before this one has handled the withdrawal
  keeps the old identity (exception `overlap`); a tab without adapter can take up an identity left by a consent that has expired.

Laboratory:

* Hive: a register driver that outlived its coordinator may create a table after its own check of expiry and after a cleanup's receipt
  (exception `late`).
* Lake: recovery takes no operator lock. A `docker run` under way when its worker is killed may create the container after
  the cancellation found none. A failed cancellation still restores the stages, so that Hive may start beside a running driver.
* Attempts: a cancellation that gave up after 55 s still runs `driver_cleanup`, and may stop the driver of a later attempt. So does one of two
  overlapping cancellations: the lock is released at `real_offline_small.py:584`, and one that reads `done.json` at 605 before the other writes it comes to `driver_cleanup` (619) when a
  later attempt's driver owns the cid file. Both are the exception `stale` in `DriverStep`. A
  worker killed between `Popen` and `child.json` can never be reported cancelled.
* Dimensions (`public_dimensions.py:142-145`): an observation of a release without verified time is compared with verified releases only from its
  own declared time on, so an earlier one may span the verified start of another (`Premature`); a closed
  interval may contain an observation of an unverified release in a gap of coverage. `docs/public-dimensions.md` says that contradictory
  observations are refused (矛盾观察，均拒绝构建). Both were reproduced with `build_bundle`.

## 7. Plan

1. **Composition**: `SourceSync` with the steps of `Lifecycle` in place of its single-step calls; `Remote` over the expiry of `Landing` and the
   adapters of `Backends`.
2. **More data**: retention cohorts of the behaviour model, several applications in `Dimensions`.
