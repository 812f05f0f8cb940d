# A TLA+ model of sepp

sepp is a single-node durable job queue. Producers enqueue jobs over gRPC; workers reserve
them under a lease and ack, nack or extend them; jobs that fail for good go to a
dead-letter queue; operators manage queues, dead letters and the configuration over an
admin HTTP API. This directory holds TLA+ modules for the parts in which several actors,
timers or failures meet, TLC configurations that check them on small instances, and TLAPS
proofs that hold for every instance.

Line numbers below refer to `src/src/`.

## The system and its parts

Every gRPC or admin handler turns its request into a command on one bounded channel. One
*committer* thread owns the database (fjall keyspaces) and the in-memory indexes that
mirror it: it applies all waiting commands to one transaction, commits, persists, and only
then answers. Between batches it runs *timer sweeps* (scheduled jobs, expired leases, dedup
windows, dead-letter retention, queue tombstones). After a commit it wakes long-polling
reserves, and it publishes totals and depths that a *stats hub* turns into rates and
broadcasts to the browsers of operators. A watcher thread reloads the configuration file,
which admin handlers also edit; requests that are under way meet the registry, the settings
and the keys of both sides of a reload.

| Part | Source | Modules |
| --- | --- | --- |
| Job store: keyspaces, indexes, operations, sweep | `storage.rs` 40-306, 833-951, 1058-2561; `op.rs`; `keys.rs` | `JobStore`, `JobLifecycle`, `JobStoreLifecycle`; proofs in `JobStoreProofs`, `MirrorProofs`, `DepthProofs`, `LifecycleProofs` |
| Lease fencing of late and repeated worker calls | `storage.rs` 1489-1525, 2148-2307 | `Fencing`; proofs in `LifecycleProofs` |
| Progress of the timers | `storage.rs` 573-588, 632-698, 2310-2561 | `JobStoreLive` |
| Committer: batches, commit, persist, replies, resync, restart | `storage.rs` 308-831, 953-1056, 2952-3137 | `Committer`; proofs in `CommitterProofs` |
| Long-poll reserve and notifiers | `queue_server.rs` 604-789; `storage.rs` 721-791, 2597-2666 | `LongPoll`; proofs in `ServerProofs` |
| Deleting a queue | `admin/routes.rs` 304-401 | `DeleteQueue`; proofs in `DeleteQueueProofs` |
| Config reload and config edits | `config_watch.rs`; `main.rs` 138-156; `admin/routes.rs` 270-302, 1010-1365; `admin/config_edit.rs` | `ConfigReload`; proofs in `ConfigProofs` |
| Registry, leases and retry delays under hot reload | `queues.rs`; `config.rs` 64-204; `storage.rs` 2117-2145, 3232-3323; `queue_server.rs` 651-699 | `QueuePolicy`; proofs in `ConfigProofs` |
| Admission of enqueues: classification, limits, slots of the answer | `queue_server.rs` 49-602; `validate.rs`; `op.rs` 126-174; `storage.rs` 3179-3205 | `Admission`; proofs in `ConfigProofs` |
| Key encoding | `keys.rs` 7-162, 277-308 | `Keys` |
| Peeking and paging | `storage.rs` 336-351, 813-823, 1651-1728, 2737-2832; `admin/routes.rs` 507-578; `admin-ui` `JobsTab.vue` | `Listing` |
| Admin totals and stats hub | `storage.rs` 590-716; `admin/stats.rs` | `AdminStats` |
| Audit log, event stream, audit view | `admin/authz.rs` 75-108; `storage.rs` 2563-2595, 2909-2949; `admin/stats.rs` 165-222; `admin-ui` `useStatsStream.ts`, `AuditView.vue` | `AdminFeed` |
| Admin logins, sessions and roles | `admin/auth.rs`; `admin/authz.rs` 31-73; `config.rs` 399-447, 563-597 | `AdminSessions`; proofs in `ServerProofs` |
| Comparing an API key | `auth.rs` | only the swap of the keys, in `ConfigReload` |
| Metrics, tracing, logging, TLS, assets, the rest of the admin user interface | `metrics.rs`, `telemetry.rs`, `main.rs`, `admin/assets.rs`, `admin-ui/` | not modelled: observation, wiring and I/O |

`PROJECT.json` lists the parts in full, maps every definition to the lines it models, and
lists the hazards of the code, each with the properties that would catch it going wrong.

## The modules and the code

**JobStore.** `db` is `struct Store`, one field per keyspace: `jobs`, `payloads`,
`inflight` and `dedup` are functions to a row or `None`; `ready`, `scheduled`, `leases`,
`dead_letter` and `dedup_timers`, whose information is in their keys, are sets of entries;
`closing` holds the delete tombstones. `ix` is `struct Indexes`. `now` is what `now_ms()`
returns and `minted` (history) the request each job id was accepted for. There is one
action per arm of `apply_op` that changes jobs (`Enqueue`, `EnqueueAtomic`, `Reserve`,
`Ack`, `NackDead` and `NackRetry`, `Extend`, `DrainDeadLetters`, `RequeueDeadLetters`,
`DeadLetterJobs`, `DeleteDeadLetters`, `CloseQueue`, `OpenQueue`, `PurgeQueueChunk`), one
for `apply_sweep`, and `Tick`, which moves the clock *both ways*, because the code reads the
wall clock. Indexes are updated action by action as the code does, never recomputed, so
that `IndexesMirror` is a statement about the code. Where the code breaks ties by the
random job id the model picks any of the tied jobs.

**JobLifecycle** is the abstract specification, the life the code gives a job: absent,
scheduled, ready, in flight, dead, gone, with its attempt number and limit. It has the moves
of the documentation's life-cycle page and those of operators, which that page rules out
(see below). **JobStoreLifecycle** computes that life from the keyspaces; the `core` run checks
that every step of `JobStore` is a step of `JobLifecycle` or a stutter.

**Fencing** adds the workers' memory to `JobStore`: every delivery a worker received may be
presented later, any number of times. **JobStoreLive** adds fairness. **Committer** wraps
the operations in batches: `db`, `ix` become the open transaction's view, `disk` what a
restart would find, `claims` the replies held back; a batch may be committed and persisted,
fail and be rolled back (`Abort`, with `resync`), or be cut short at any point by a crash,
in which a written transaction may or may not have reached the disk.

**LongPoll** counts the jobs and keeps the notifiers: `held` and `map` are the `Arc`s of a
handler and of `QueueNotifiers`, `signalled` the armed futures that have fired, `ready` and
`committed` the transaction's and the readers' view of the queues. A handler dropped by a
hang-up leaves its command in the channel.

**DeleteQueue** puts the delete handler beside the operations of `JobStore`. Each of its
commands is an atomic operation of the store, and anything may happen between two of them,
including its own failure or death. The history flag `lapsed` records that the handler
waited longer than the tombstone's grace period (30 seconds) for a command. A batch that
commits is, to the handler, a sequence of such operations. A batch that is rolled back
leaves no trace, but for one: `queue_depths` is answered while the batch is applied
(`storage.rs:824`), so the handler may hold depths that were undone. `CheckUndone` is that
case. Which commands preceded the handler's in the batch is left open, because an ack, a
`dead_letter_jobs` and a drain can take any job or dead letter out of the queue; the flag
`undone` records that the queue was not deletable. Commands of the handler itself that end
in such a batch are `CallFails`.

**ConfigReload** has the file, the watcher's channel (as the set of the kinds of events in
it), the watcher's steps, the triple in force (registry, keys, config), and the admin
handlers, which share lock, etag check, `write_atomic` (two steps: remove, rename) and the
wait for the reload. A content is a number, which is also its etag; an edit may restore an
earlier content. The file may be edited by hand, break, and vanish, and the process may
die. A process that has loaded the file watches it only after `StartWatcher`; `missed`
(history) records a save in between.

**QueuePolicy** resolves leases and retry delays with the arithmetic of the code on a
narrow unsigned type (`UMax`), for every value of the jitter hash, while registries change.
**Admission** adds the enqueues: the settings are loaded, then the registry to classify the
jobs, then, inside `prepare_jobs`, the registry again for their limits, and reloads come
between any two. The field checks of `validate.rs` are one verdict per job; what the store
answers for a job is any outcome; the slots are filled by position as the code does.

**Keys** writes the keys as sequences of digits in the order of their bytes and parses them
back. **Listing** has the place of every job as the committer sees them in the middle of a
batch (`mem`) and as readers see them (`disk`), moves jobs between states, commits or
fails batches, and lets a client page: `Open`, then `Peek` (in the committer) and `Resolve`
(on a later snapshot) for each page.

**AdminStats** has the committer's totals (`stats`), the snapshot it publishes, and the hub
with its previous totals, rings of rates and latest frame. What a command does to the jobs
is reduced to the recorder it calls and whether the queue's index entries grow or shrink.
`ledger` (history) counts independently of the code what was committed, and what was
committed since a queue's totals were last given up. **AdminFeed** extends it with the audit
log, the detached tasks that append to it and announce the record afterwards, the broadcast
channel of bounded capacity, and one browser: its stream, the lag notice, the audit tail and
the pages of `AuditView.vue`.

**AdminSessions** has the configuration in force, the session store and the logins and
requests under way, each in the steps between which a reload can fall: a login matches its
key and inserts the session later; a request is checked against the configuration it loads
and served afterwards. Session tokens are opaque and never repeat.

## Runs

| Run | What it asks | Bounds | Distinct states |
| --- | --- | --- | --- |
| `core` | placement, timers, indexes, requests, dedup window, refinement of the life cycle | 2 jobs, 1 queue, 1 key, batches of 2, clock 0..2 | 205,056 |
| `fencing` | only the latest delivery is accepted between two requeues | 1 job, 2 attempts, 2 requeues | 4,242 |
| `liveness` | every timer does its work under limited sweeps | 2 jobs, budget 1, clock 0..2 | 8,701 |
| `committer` | durability of answers, consistency of the disk, index resync | 1 job, 3 concurrent calls | 108,517 |
| `long_poll` | no lost wake-up, notifiers shared in spite of pruning; parked handlers are served; shutdown drains | 2 handlers, 1 queue, 2 notifiers | 21,500 |
| `delete_queue` | no silent purge, nothing left behind, tombstone lifted on every exit; depth caps; purges stay inside their queue | 2 jobs, 2 queues (one capped at 1), chunks of 1, clock 0..1 | 102,170 |
| `admission` | answers belong to their jobs; ceilings and delays across hot reloads | 4 registries, 2 settings, 2 queues, 4-bit numbers, batches of up to 3 | 233,936 |
| `config` | admin edits do not overwrite each other; "applied" is true; the server converges to the file | 2 handlers, 3 saves (1 by hand), 1 restart | 596,926 |
| `listing` | jobs that stay put are listed once, in key order; what is shown was committed | 4 jobs, 2 queues, clock 0..1, 2 moves, pages of up to 2, 2 keys examined per page | 691,373 |
| `feed` | exact totals, honest rates, a log without gaps, a view without holes | 1 queue, 3 calls, 3 audit records, 1 browser, a channel of 1, pages of 1; three workloads | 227,636 |
| `sessions` | requests are served for keys in force; sessions end in order | 5 configurations, 3 logins, 1 request at a time, 2 sessions, clock 0..1 | 1,721,640 |

The bounds are the smallest in which the hazards can occur. Two jobs with one budget unit
per sweep phase give a backlog; two jobs in one batch meet each other's dedup row and
depth; three clock values give a deadline in the past, at, and after `now`, and a clock
that steps back over it. Three calls fill a batch in which a second enqueue hits the
uncommitted dedup row of the first. Two handlers and two notifiers, with a prune
threshold of one, let every `get` prune. Three saves let a reload read one content,
another be written during it, and a third after it. A page of two keys over four jobs
ends inside the list, at the limit or at the examine cap, and the name of one queue begins
that of the other. A channel of one event lags at the second. Three logins exceed two
sessions, and two lifetimes make the order of their ends differ from that of their
beginnings. The behaviours of `feed` are split into workloads, chosen at the start: jobs
and figures, the audit page, frames and lag; what the three share
is the committer's batch, which commits or aborts as a whole in each. Symmetry is used on jobs, calls, tasks and tokens, which are only
compared, and only in runs without liveness.
Deadlock is checked in all runs but `liveness`, where the clock ends at its horizon.

### Fairness

- `liveness`: weak fairness of the sweep and of the clock. `run_committer` compares
  `next_deadline` with the clock on every turn, before it takes commands, and never waits
  past the next deadline. Nothing is assumed of clients, who fall silent after `LastCall`.
- `long_poll`: weak fairness of a handler that can proceed (the runtime polls woken
  tasks) and of the committer finishing its cycle; strong fairness of applying a command
  that has been sent, because the channel is first in, first out. Timeouts and hang-ups
  are never forced.
- `config`: weak fairness of the watcher thread, whose waits all end, and of `StartWatcher`,
  because `main` goes on from loading the file to watching it without waiting for anyone.

## Where the code and its documentation differ

One run ends in a counterexample: the code does one thing, a page of the documentation says
another.

- `fencing_requeue` (`StaleCallRefused`): a requeue from the dead letters keeps the job id
  and restarts the attempt at 1 (`storage.rs:1774`), so a call of a worker from the job's
  first life is accepted for a delivery it does not own. Between two requeues fencing holds
  (`fencing`).

`ImplementsLifecycle` holds of a life cycle that is wider than the one the concept pages
describe, by moves of operators. The documentation contradicts itself on the first.

- `Revive`: a requeue makes a dead job ready again with attempt 1 (`storage.rs:1774`), as
  `operations/dead-letter-management.mdx:30` says. `concepts/job-lifecycle.mdx` says that a
  dead-lettered job "can only be inspected or deleted" (line 15) and that "Dead-lettered
  jobs are never redelivered" (line 91), and `concepts/retries-and-dead-letter.mdx:201` that
  they "are terminal and are never redelivered".
- `Bury` of a job that waits: an operator dead-letters scheduled and ready jobs, with the
  cause `Admin` (`storage.rs:1920`). `retries-and-dead-letter.mdx:195` says that a job
  "leaves for the dead-letter store in exactly one of three ways", all of which start from a
  delivery, and `job-lifecycle.mdx:91` that it "leaves the queue in exactly one of two ways",
  an ack or a failure; an operator's purge of waiting jobs (`Finish`) is not among these
  either.

Other properties hold with an exception that the statement names, because without it TLC
finds a counterexample:

- `CapKept` is about the two forms of enqueue: a requeue of dead letters
  (`storage.rs:1730`) does not consult `max_queue_depth`.
- `NoSilentPurge` excepts a delete whose tombstone lapsed under it: a *live* handler that
  waits longer than the grace period for one command lets a producer in after the emptiness
  check, and the purge removes the job. It also excepts a delete whose depths were answered
  in a batch that was rolled back. `drain_queue` calls them "Exact live depths from the
  committer's counters" (`admin/routes.rs:314`), yet they count what the open transaction
  has done so far. When that makes the queue look empty and the batch then fails, the rows
  come back and the purge, which looks again only for jobs in flight (`storage.rs:2031`),
  removes jobs and dead letters that the operator was promised to keep ("queue holds jobs;
  pass purge=true to delete them", `admin/routes.rs:330`).
- `SavesNotClobbered` excepts a file saved by hand after the etag check: the lock and the
  etag guard admin edits from each other only.
- `AppliedInForce` excepts an edit that restores the content still in force: it is reported
  applied at once, while the reload of an earlier edit may be about to publish that one.
- `FrameOnItsWay` excepts a browser that was told it lagged, until its next frame: the
  client relies on the next full frame.
- `Converges` excepts a save between loading the file and watching it (`main.rs:62`, `146`),
  which stays unseen until the next save, and a server that was started without a file to
  watch. Such a server can
  be the successor of one with a file: `write_atomic` removes the file before the rename,
  and a process that dies in between, started again from the default path, runs on the
  built-in defaults (`Restart`).
- The registry and the API keys are swapped one after the other; a comment in
  `apply_reload` concedes the window.

## Proofs

All theorems hold for every value of the constants that satisfies the named assumptions of
the modules, which TLC evaluates on the instances of the runs: types of requests, bounds and
policies; `None` is no value of any row or answer type; times are integers; a sweep has a
positive budget and a tombstone a positive grace period; a well-formed job asks for at
least one attempt; there are finitely many session tokens. No bound of the model-checking
runs enters, and no set of jobs, queues, keys, calls, workers or handlers need be finite.

- `TypeCorrect` (`JobStoreProofs`): `Spec => []TypeOK`. `TypeOK` is inductive; there is a
  lemma per operation and `NextType` combines them.
- `NeverStranded`, `NeverDuplicated`, `DeadNotLive`, `CopiesNeverDrift` (`JobStoreProofs`):
  a job with a row has exactly one place, a dead letter is not live, and the copies of a
  job's data agree. None of the four is inductive alone: moving a job out of a place is
  correct only if it was in no other, a dead-letter record may be created only because the
  row it replaces excluded another one, and a fresh id is fresh only if nothing in the store
  bears it. The inductive invariant `Placement` is their conjunction with `TypeOK`, with
  `Known` (an id in the store was minted) and with `PlacesIndexed` (the ready index is the
  ready keyspace, and a scheduled timer of the index stands for a scheduled row), because
  the operations choose the rows they remove from the *indexes*. The additional conjuncts
  follow from `RequestKept` and `IndexesMirror`.
- `TimersAlwaysExact`, `IndexesNeverDrift`, `RequestsAlwaysKept`, `DedupWindowsFixed`
  (`MirrorProofs`): lease and dedup timers are exactly those of the rows, the indexes are
  what a rebuild would read, jobs keep their requests, and a dedup window has a fixed end.
  The inductive invariant `Mirror` extends `Placement`: the sweep finds its rows through the
  entries of the indexes, so that each index mirrors its keyspace (`LeasesMirror`,
  `DedupMirror`, `LettersMirror`, `ScheduledMirror`, `ClosingMirror`) must hold before a step
  for the timers to be exact after it. An enqueue adds one dedup timer for each key because
  both forms admit a key once (`ProducersAdmit`).
- `StoreImplementsLifecycle` (`LifecycleProofs`): `Spec` implies the abstract specification
  under the mapping of `JobStoreLifecycle`. For every operation, each job it touches makes a
  move of the life cycle and each other job keeps its life; `Placement` is what makes the
  life of a job a function of the one place it is in, and what fixes its attempt and limit.
- `CapsAlwaysKept` (`DepthProofs`): neither form of enqueue takes a queue past its cap, for
  batches and caps of any size. The code compares the cap with a depth it adds up from three
  indexes; `DepthExact` shows that this is the number of live jobs of the queue, because the
  indexes mirror the keyspaces and a job has one place. Counting needs finite sets: the
  invariant `Counted` adds to `Mirror` that finitely many jobs have been accepted so far.
- `StaleLeasesFenced` (`LifecycleProofs`): for any workers. The inductive invariant is
  `FencedBetweenRequeues` with `Placement`, the types of the workers' memory, and
  `LeasesOutrun`: the attempt a job stands at is not below that of any delivery remembered
  since its last requeue, and a job that waits for its next delivery is past all of them.
- `DiskAlwaysConsistent`, `RepliesAlwaysDurable`, `IdleAlwaysInSync` (`CommitterProofs`):
  for any calls that share a batch. The inductive invariant `Durable` has the store's
  `Mirror` for the open transaction and its parts for the disk (`DiskSound`), which a
  rollback or a restart turns back into `Mirror` because rebuilt indexes are exact
  (`SoundMirror`). `ClaimsTrue` and `RepliesTrue` say that a reply, pending or sent, is true
  of the transaction, and a sent one also of the disk; they survive the operations that
  follow because a job that was accepted stays so (`MintedKept`) and a job that is over
  stays over (`OverKept`, a consequence of the refinement). A dedup hit may answer with a
  job of the same batch, so the dedup rows of transaction and disk must name accepted jobs
  (`DedupKnown`, `DiskDedupKnown`).
- `DeletionRunsTheStore`, `DeletesNeverPurgeSilently`, `DeletedAlwaysEmpty`,
  `TombstonesAlwaysLifted`, `PurgesStayInQueue` (`DeleteQueueProofs`): for any queues, chunk
  size and traffic. `DSpec` implies `Spec`, so every theorem about the store holds beside a
  running delete. The inductive invariant `Deleting` says that the tombstone is in force
  from the first step of the handler on, unless it lapsed (`InForce`), and that past the
  check a delete without `purge=true` has a queue all of whose jobs are over, unless the
  depths were undone (`StaysEmpty`).
  The check reads the four counts of `queue_depths`; that these see every row of the queue
  is `NotCountedEmpty`, from `Mirror`, and that nothing enters afterwards is `EmptiedKept`.
  A purge picks its victims by the owner noted in the index entries; that these are rows of
  its own queue in every keyspace (`PurgeSpares`), and that the lease index misses no job in
  flight (`PurgeWhenIdle`), follows from `Mirror` as well.
- `SavesNeverClobbered`, `AppliedAlwaysInForce` (`ConfigProofs`): for any handlers, saves
  and restarts. The inductive invariant `Reloading` has the lock (`LockHeld`), what the
  handler that holds it knows of the file (`FileKept`), the order in which the watcher
  stores the parts of a configuration (`ConfigLast`), and `EditInForce`: when the config a
  handler waits for appears, whatever is in force or about to be stored was saved since.
- `LeasesAlwaysWithinCeiling`, `RetriesAlwaysOfPolicy` (`ConfigProofs`): for any valid
  registries, queues and numbers of any width. `Limited` adds to the two properties what a
  call has resolved before the next reload (`NackPending`, `ExtendPending`). The lemmas on
  the arithmetic show that the saturating multiplications never shorten a delay.
- `AnswersAlwaysMatch` (`ConfigProofs`): for batches of any length. `Answering` adds to
  `Limited` that the valid jobs of a call are the k-th open slots of the answer
  (`Classified`), so that filling the slots by position puts each answer at its own job.
- `OnlyLiveKeysServed`, `SessionsEvictedInOrder` (`ServerProofs`): for any keys,
  configurations, logins, requests and cap. The inductive invariant `Sound` says that a
  session bears the name and the secret its login showed (`StoreSound`), that a request past
  the check was admitted by a key of the configuration it loaded or in the open mode
  (`RequestSound`), and that the store is finite and within the cap, which the eviction
  keeps by making room for one (`RoomMade`).
- `NotifiersShared`, `WakeupsNotLost` (`ServerProofs`): for any handlers, queues and queue
  lists. The invariant `Inv` follows an empty answer from the batch that computed it to
  the moment the handler parks: a queue that was empty for a reserve of the running batch
  and is not any more is in `wakes` (`EmptyAnswersCovered`), and a handler that was told
  "nothing" and has not been signalled is covered by a pending wake (`QuietCovered`).
  `GrowthWakes`, `Synced`, `Equipped` and `AnswersFresh` make these two inductive.

Only model-checked: `Listing` with `Keys`, `AdminStats` and `AdminFeed`. The pages of a
listing are sorted sequences that a walk puts together, which needs induction over data.
Liveness under fairness (`JobsMoveOn`, `RowsExpire`, `ParkedAreServed`, `ShutdownDrains`,
`Converges`) is outside what the prover handles and stays with TLC.

## Not modelled

- Corrupt rows (the code logs and skips or leaves them), and saturation of times near
  `i64::MAX`.
- A rebuild of the indexes that fails after a batch has failed (`storage.rs:311`), a double
  fault of the storage engine; the persist mode that buffers writes.
- Drains of one queue examine a limited number of the oldest dead letters of all queues.
  `JobStore` models the bound (`ScanCap`), but the call promises no more than a best effort.
- The field checks of single requests (`validate.rs`), which limit of the server or queue a
  job exceeds, the lists of allowed job types and encodings, and the comparison of API keys:
  pure functions of a request, which unit tests reach.
- Environment overrides, the fields of the configuration that need a restart, and the
  editing of the TOML text.
- The values of the rows, and the dedup, closing and audit keys: `Keys` has the keys whose
  order is observable.
- In the browser: the polling that replaces a lost event stream, and the frames that
  `applyFrame` drops because their time is not later than that of the frame shown. The frame
  of `AdminFeed` is the last that arrived.
- Metrics, tracing, logging, TLS, static files, overviews: observation, wiring and
  formatting.
