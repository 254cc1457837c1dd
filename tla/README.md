# Verification of SQE

TLA+ models of the parts of SQE that decide whether its answers and its records
are right when several things happen at once or one of them fails: explicit
transactions, the commit of write statements, the maintenance lease, the metadata
cache, the pool of workers and the fragments on it, the audit log and its export,
the lineage spool and the circuit breaker. TLC checks small instances; TLAPS proves
the safety properties of all of them for every value of the constants, and that the
transactions and the lease implement their abstract specifications.
`PROJECT.json` holds the machine-readable side: components, runs, mutants, the map
from definitions to source lines, findings, hazards and theorems.

## 1. The system

SQE is a SQL engine over Iceberg tables in a REST catalog. A *coordinator* takes
statements over Flight SQL, the Trino protocol, Quack, MCP or the web UI, plans
them with DataFusion, and runs scans itself or on *workers*. It keeps no data:
everything durable is in the catalog (the refs of each table) and in object storage
(the files). Everything else (sessions, transactions, caches) is memory of one
process. Several coordinators may run on one catalog and know of each other only
through it. This decides what is hard: the catalog's compare-and-swap is the only
synchronisation there is, its answers can be lost, and every `await` lets other
requests run.

### Components

| component | state | operations | works with | what is hard | what makes it correct |
|---|---|---|---|---|---|
| explicit transactions (`txn.rs`, `txn_registry.rs`, `txn_id.rs`) | open and ended ids; per transaction the tables it wrote, the base snapshot of each, the bound catalog; a branch `sqe-txn-<id>` per table in the catalog | begin, claim a table, pin a read, COMMIT, ROLLBACK, sweep, session end, shutdown, drop of stale branches | query dispatch, catalog session, maintenance | requests of one transaction at once, lost answers, branches dropped under it, restart | COMMIT is all or nothing and loses nobody's commit; one end; nothing staged stays |
| write commit (`commit.rs`, guards in `writer.rs`) | attempt counters, the unknown outcome so far, files under a guard | load, apply, commit, retry, clean up | write handler, vendored transactions | unknown outcomes, two nested retry loops, guards that delete files | applied once, live files exist, the answer is true |
| write handler (`write_handler.rs`) | none between statements | INSERT, CTAS, UPDATE, DELETE, MERGE, copy-on-write or merge-on-read | write commit, transactions | what was read is stale when it is committed | no change is lost or doubled |
| maintenance lease (`maintenance_lease.rs`) | one lease row per job_key in a table of the catalog; a handle per coordinator | try_acquire, renew, release | maintenance scheduler | steal against renewal, lost answers, a holder that stops | one unexpired holder; abandoned claims are taken over |
| maintenance scheduler (`maintenance_scheduler.rs`, `maintenance_log.rs`) | in-flight tables, ledger | tick, run a job with renewal, abort | lease, procedures | a job that outlives its lease | one job per table; release on every way out |
| maintenance procedures (`maintenance.rs`, `sqe-compaction`) | none | compaction, snapshot expiry, orphan removal | catalog, write commit | removing what a commit still needs | only unreachable files go |
| REST catalog session (`rest_catalog.rs`) | session token, caches | load_table, update_table, multi-table commit | everything | errors that do not say what happened | an update is applied as asked or an error is returned |
| table metadata cache (`rest_catalog.rs`) | entries, generations per key, table and all | get, insert, invalidate, prune | catalog session | an insert racing an invalidation | no entry older than the last invalidation |
| vendored iceberg-rust transactions | actions of one commit | reload, apply, check, post, retry | write commit, lease, transactions | retries its caller does not see | requirements cover what the action assumed |
| query dispatch (`query_handler.rs`) | running queries, cancel tokens | route, time out, cancel | transactions, write handler | a future dropped at any await | an answer, and nothing half done |
| circuit breaker (`circuit_breaker.rs`) | state, counters, probe lease, in separate atomics | admit, success, failure | catalog session | admission between two stores | one probe at a time; never open for good |
| query result cache (`query_cache.rs`) | entries and an index by table | get, insert, invalidate | query dispatch | insert after invalidate | no result older than the last write |
| audit log and export (`sqe-metrics/audit`) | hash chain, spool, cursor | append, rotate, trim, ship, verify | every request | crash between two writes | the chain verifies; nothing unexported is skipped |
| lineage (`sqe-lineage`) | spool segments | emit, spool, replay, cap | query dispatch | the cap deletes what is being replayed | at least once up to the cap |
| spill (`sqe-spill`) | budgets, pool sizes, stores | reserve, release, resize | execution | release and resize at the limit | reservations never exceed the budget, and return to zero |
| worker registry (`worker_registry.rs`, heartbeats) | workers, instances, health, reservations | hello, heartbeat, failure, reserve | distributed execution | late reports of an earlier instance | healthy workers are used, dead ones leave |
| distributed execution | morsels and their workers | assign, retry, fail over | registry, workers | a retry beside a slow original | each morsel is delivered once |
| credential refresh | expiry of vended credentials | refresh, push | workers | expiry while a fragment runs | no fragment runs on expired credentials |
| sessions and admission | sessions, limits, running queries | open, touch, expire, admit | front ends, transactions | expiry against use | limits hold, expired sessions end |
| authentication | pending logins, cached tokens | start, poll, consume, refresh | sessions | a login consumed twice | consumed once |
| policy | cached policies | fetch, rewrite a plan | planning | data only | filters cannot be bypassed |
| protocol front ends | result pages per protocol | parse, page, encode | query dispatch | paging after an end | pages in order, once |
| SQL rewriting and planning | none | pure functions | query dispatch | data only | same answers |
| table scans | none | prune, read | planning | data only | no live row is pruned |
| configuration and process | configuration | load, reload, supervise | everything | | |
| tools (CLI, bench) | none | clients | front ends | | |

How much of each is modelled, and why the others are not, is in `PROJECT.json`
(`components`) and in section 6. The result cache, spill, sessions, authentication,
policy, front ends, planning, scans, configuration and tools have no module.

## 2. The modules

| module | models | lines of code it stands for |
|---|---|---|
| `AtomicCommit` | what a transaction promises, with no branch, registry or retry | the contract in `txn.rs`, `README.md` |
| `Txn` | explicit transactions, the registry, COMMIT and ROLLBACK, the sweeps, restarts; implements `AtomicCommit` | `txn.rs`, `txn_registry.rs`, `end_transaction` of `query_handler.rs`, `branch.rs`, the bridge of `rest_catalog.rs` |
| `WriteCommit` | the commit of a statement outside a transaction and of a compaction, the retry loops, the guards | `commit.rs`, `commit_rewrite_with_retry` and its callers, `rewrite_data_files` of `maintenance.rs`, `writer.rs` guards, `Transaction::commit`, `row_delta.rs`, `replace_files.rs` |
| `LeaseCell` | what the lease promises about the claim on a table: one cell that changes hands in one step | the contract in the module documentation of `maintenance_lease.rs` |
| `MaintenanceLease` | the lease and the scheduler around it; implements `LeaseCell` | `maintenance_lease.rs`, `active_one_table`, `run_with_lease_renewal` |
| `MetadataCache` | the shared cache of table metadata, its generations and the load path around it | `TableMetadataCache` and `load_table_inner` of `rest_catalog.rs` |
| `WorkerRegistry` | the registry, the worker's heartbeat task and failure counter, health-check rounds | `worker_registry.rs`, `heartbeat.rs`, `status.rs`, the heartbeat arm of `flight_sql.rs` |
| `FragmentRun` | fragments on that pool: load, dispatch, retry, teardown, credential tracker; EXTENDS `WorkerRegistry` and composes the two | `distributed_scan.rs`, `credential_refresh.rs`, `distribute_iceberg_scan` of `query_handler.rs`, `worker_fault.rs` |
| `AuditExport` | the writer thread, its two files, the hash chain, the shipper and its cursor | `logger.rs`, `chain.rs`, `shipper.rs`, `cursor.rs` |
| `LineageSpool` | the emitter, the spool and the replay task | `spool.rs`, `emitter.rs`, `observer.rs`, `http.rs` |
| `CircuitBreaker` | the breaker, one atomic access at a time | `circuit_breaker.rs`, the outcome classes of `rest_catalog.rs` |
| `MCTxn`, `MCWrite`, `MCLease`, `MCCache`, `MCPool`, `MCAudit`, `MCLineage`, `MCBreaker` | instances for TLC | |
| `TxnProofs`, `WriteProofs`, `LeaseProofs`, `CacheProofs`, `PoolProofs`, `AuditProofs`, `LineageProofs`, `BreakerProofs` | theorems; each EXTENDS the module it is about | |

A definition that starts with a comment "A slip" or "Mutant of" is not part of a
specification: it is the form a plausible bug would give the definition after it,
and each property is shown to be violated when such a form is put in (`mutants`).

### Txn

A snapshot is the set of writes in its ancestry; "main moved" is "the set differs".
`None` of `snapshot_for_ref` (no snapshot on main, or no such ref) is the empty
set. `branch[x][t]` is the ref, `claimed`, `base` and `key` are `TxnScope`, `open`
and `ended` are the registry's `State`, `foreign` are the ids whose incarnation
prefix is another process's. `req[p]` is one request in flight, and each of its
steps is the code between two awaits on the catalog:

- a statement: `Statement` (sweep, look up, admit), `Plan` (pin and read), `Claim`
  (`txn_target_branch`, on the cached table or a fresh one), `Create` (the branch at
  the base, then `record`), `Write` (the statement's own commit to the branch);
- COMMIT: `End`, `Prepare` (load every table, check main against base), `Publish`
  (one catalog commit over all tables) or `PublishRefused` / `PublishFails`, then
  `Committed`, `Reopen` or `Lost`;
- ROLLBACK: `End`, one `DropBranch` per table, `FinishEnd`.

Any access to the registry sweeps first, so `Statement`, `End` and their refused
forms expire any set `E` of open transactions: which ones are idle is a matter of
the clock, which is left out. `Cancelled` is a query timeout or a cancel that drops
the future of COMMIT or ROLLBACK at an await. `Shutdown` and `Crash` lose memory;
the catalog stays. `DropStale` is the maintenance that drops branches by age; its
guard stands for `STALE_MARGIN_MS`: a transaction whose id is that old was swept or
its COMMIT has ended. `Maintained` are the tables for which somebody comes back to do
it: the scheduler is off by default and drops branches only in Active mode, of tables
that opted in (`maintenance_scheduler.rs:553`); for the others `DropStale` is an
operator's `CALL system.expire_snapshots`, which may come and need not.

`Forget` is the sweep of the registry that drops an ended id after `ENDED_RETENTION`,
a day (`txn_registry.rs:470`): the end record goes with it, and a request that sends
the id again finds no trace of the first transaction and starts a fresh scope. What the properties say of
an id, they say until then (observation (r)); `EndIsExclusive` and `EndsOnce` also of
the transaction that uses it again. A statement that only reads, or that `admit`
refuses, opens the transaction without writing (`QuietStatement`). That `DropStale`
takes a branch left from the first life of an id while its second one is open is left
out.

`StatementFails` covers every error of a statement between its steps, so the errors
of planning, execution and object storage need no actions of their own.

### WriteCommit

The table is a version, its live files, its live rows and its delete files; `ver`
stands for the metadata location, for the current snapshot of main, which the catalog
and the retry loops compare, and for its sequence number. A row knows its key, its file and which statements changed it.
Five kinds of statement cover the write paths: `append`, `rewrite`
(copy-on-write), `delta` and `posdelete` (merge-on-read), `compact`. A statement is
`Plan`, then per attempt `Load`, `Prepare` (the reload and the checks of
`do_commit`), and `Commit`, `Rebase` (the inner loop) or `Conflict` (the outer one).

- `unk` is the `UnknownOutcome` an earlier attempt left: after it the loop goes on
  only while the table is where that attempt found it, and every later error is
  reported as the unknown outcome.
- `Guarded` and `held` are the cleanup guards; `gone` is what they deleted.
- Loads are fresh. A load from the metadata cache is a load that happened earlier,
  whose commit the catalog refuses; `update_table` drops the entry on success and
  on failure, so the reload after an unknown outcome is a fresh one.
- `retry_transient_load` is inside the load; that it gives up is the fault `load`.
- A compaction (`rewrite_data_files` on the coordinator) goes through the same steps:
  `Load` plans it on any non-empty group of the live files, `Prepare` is
  `ReplaceFilesAction::commit` with its two checks, which run again on every reload:
  no position delete newer than the plan applies to a file it replaces or to several
  files (`Undeleted`), and every file it replaces is live. The first refusal is
  planned again, the second is final (`Final`). Its output is pinned to the sequence
  number of the plan, so that an equality delete committed after the plan still hides
  its rows (`Shown`). `CommitUnread` is the reload after the commit that fails.
- `Added` keeps the position deletes a compaction has applied: their files are never
  live again, so they hide nothing.
- INSERT OVERWRITE and the truncate fast path are rewrites that remove more.

### MaintenanceLease

`rows` are the live lease rows of one job_key (the rows of different keys never
meet). An operation reads the clock once, then per attempt `Load`s the rows and
commits a rewrite that deletes exactly the files read; the catalog applies it only
while all of them are live. With nothing to delete it is an append, which always
applies. An acquire that *errors* runs the job without a lease (`active_one_table`
fails open), one that *loses* skips the table. `Fresh` says that the key was never
claimed, `Late` that a commit may land after its caller was told of an error. File
names are UUIDs; the model uses a name again when nothing refers to it any more.

A commit whose answer is lost leaves its row or not, and its file or not: only the
text "commit state is unknown" keeps the file (`writer.rs:149`), after any other
error the guard deletes it (`Guarded`, `doomed`). A live row whose file is gone makes
every read of the lease fail (`Unreadable`); the delete is spawned and may fail, so a
doomed file may also be read.

`LiveClaim` maps the one live row of a key that was claimed before to the claim of
`LeaseCell`: its holder and expiry, or free once it is released. An acquisition, a
renewal and a release, each a read, a decision and a commit that may be refused, retried
or land late, must be one `Take`, `Extend` or `Release` of the cell at the moment the
catalog applies the commit, and nothing at any other moment.

There is one clock. Coordinators read their own, so every statement about
exclusion is up to the skew between them; the module documentation calls the lease
advisory for this reason, and the commit checks above stay in force without it.

### MetadataCache

`entry`, `tableGen`, `keyGen`, `global`, `counter` and `floor` are the fields of
`TableMetadataCache`. Time is the number of commits and denials the catalog has
answered: a copy of a table has the time it was fetched at (`ver`), the time up to
which it is known to be current (`at`) and an ETag. A load is one task that takes one
step per access to shared state: `Begin` (snapshot of the generations), `ServeFresh`,
`FindStale` with `NotModified`, `Modified` or `RevalidateFails`, or `Miss` with
`Authorize`, `Deny` and `Load`; a store is `Check`, `Insert`, `Undo` (with `Get`
first when it re-inserts), and `Head` is the background task that attaches the ETag.
An invalidation is `Stamp`, `Put`, `Scan`, `Evict`. Whether the soft TTL has passed
is left open, capacity and hard TTL may take any entry away (`Drop`).

### WorkerRegistry and FragmentRun

A worker is its URL; `proc[u]` is the process behind it, its build, whether it has
the ticket key, how it answers a health check (naming the key it has, or with a plain
`ok`, which `ticket_key_ready` takes for ready), and its heartbeat's round trip. `reg` holds the registry's entries:
`recent` stands for "evicted less than the quiet period ago", `inst` for the
instance id. Each transition of the registry is one write lock. A health-check round
lists the URLs, waits for every answer and then applies the results one at a time,
so a result may be about a process that is gone. `FragmentRun` adds the life of a
fragment (`planned`, `dispatch`, `stream`, `retry` and an end), the scheduler's
`load`, the credential tracker and the two things that happen to it late: the spawned
unregister (`untrack`) and the purge after a restarted worker's hello (`purge`). The
fault table of `worker_fault.rs` is the policy: fail fast, same worker, elsewhere
(which evicts).

### AuditExport

Files are sequences of lines; a record is its id (its hash), its number and its
predecessor. The writer's two buffers (`nbuf`, `sbuf`) may spill any prefix, so a
crash leaves any prefix of each, and possibly half a line. The shipper reads from its
committed offset, exports, truncates the cursor file and writes it: each is a step,
and a crash may come between any two. `Trim` and `ReadNothing` rewrite the spool under
the writer's lock. A restart goes on from the last line of the log (`Restart`), or
starts a BROKEN segment at number 0 (`RestartBroken`): because that line is torn, or
because `read_last_nonempty_line` does not get it whole from the last 64 KiB, which
may happen to any log, so `RestartBroken` needs no torn line. `whole` is the number of
records stamped before the first such restart, or before a crash that left half a line
or a spool ahead of the log; the properties of the export are about those, since the
cursor passes over what is numbered again (observation (n)).

### LineageSpool

The emitter sends an event, and if the collector does not take it appends it under
the spool's lock, deleting segments until there is room; the replay task holds that
lock only while it renames the live file and lists the segments, so each read and
each delete of a segment on either side is a step of its own. `segments` is the
directory: a function from the names of the rotated files to their lines; names are
given out in order, as timestamp and sequence number do, and both sides take the oldest
of their listing next. `Measure` lists the spool and the lengths are read after it: a
segment the replay task removes in between makes the whole size read as 0
(`Measured`), and `misread` remembers that an append counted on less than there was.
The cap reads a segment's lines before its length, so a segment
drained in between may be subtracted or not (`Subtracted`). A crash or a failed write
leaves half a line or half a character (`half`). Half a line counts as content to
rotate, has no length of its own in the model and takes the next event with it; half a
character makes its file unreadable for good: the replay stops at it (`ReadFails`) and
the cap deletes it without counting its events (`Delete`). `AppendFails` are the
errors of the disk; the event is then counted as a sink error.

### CircuitBreaker

Every load, store and compare-exchange of the four atomics is an action; timestamps
are ages, no larger than the window they are compared with. `current` says whose read
of `half_open_since_ms` a compare-exchange would still find. `entered` and `extra` are
history, for `NoStampede`.

## 3. The runs

| run | instance | what it shows |
|---|---|---|
| `txn_commit` | 2 transactions, 2 requests, an empty and a non-empty table, 2 statements each; expiry at any time | `RolledBackIsInvisible`, and `ImplementsAtomicCommit`: the refinement of `AtomicCommit` (`Promise`) by `Txn`. The two transactions are each other's concurrent writers |
| `txn_faults` | 1 transaction, 4 tables in 2 catalogs (one without a multi-table commit), another writer, 2 of crash, lost reply, dropped branch, cancelled COMMIT, ended session, forgotten id; the scheduler maintains one table of each catalog; fair | `CommittedIsVisible`, `ReadsOwnWrites`, `BranchContinuesBase`, `HoldsPublishable`, `EndIsExclusive`, `EndsOnce`, `MainGrows`, `PublishesOnce`, and the liveness properties `RequestsEnd` and `StagedWritesGo` |
| `lease_exclusion` | 2 coordinators, TTL 2, 6 clock values, 2 attempts, 2 faults, 1 stop | `Exclusion`, `ReleaseSparesOthers` |
| `lease_steal` | 2 coordinators, TTL 2, 3 clock values, commits that land late, 1 stop; fair | `OneLiveRow`, `ImplementsLeaseCell`: the refinement of `LeaseCell`, late commits included, and `AbandonedIsStolen` |
| `commit_retry` | 3 statements of every compatible mix of kinds, compactions included, 3 attempts, 1 inner retry, 2 faults of failed load, 401, unknown outcome | `FilesExist`, `AnswersAreTrue`, `OneRowPerKey`, `ChangesSurvive` |
| `commit_faults` | 2 statements, 2 of all six faults (late requests, broken connections and cancels too); fair | `AppliedOnce`, `StatementsEnd` |
| `commit_cow` | 2 copy-on-write statements | violated: the finding of section 5 |
| `cache_fence` | 1 key, 2 loads and their ETag tasks, 1 committing session, 2 commits or denials, 2 invalidations, generation maps of 1 key | `NoLastingStaleness` |
| `pool` | a worker that heartbeats and is started a second time, from any build, with either answer to a health check; a seed that does not; caps 1 and 2; 1 fragment of 2 batches, 1 retry, 1 fault; fair | `CleanPrefix`, `LoadIsLive`, `NoTrackerLeak`, `FailuresReported`, `PoolConverges`, `FragmentsEnd` |
| `audit_export` | 4 records, files of 1, 1 generation kept, spool of 2, batches of 2, both settings of `start_at`, 2 faults; fair | `ChainVerifies`, `NothingLost`, `SpoolDrains` |
| `lineage_spool` | 5 events, one larger than the spool and one the collector refuses, a spool of 2, a queue of 1, 1 fault of lost answer, disk or crash; fair | `Accounted`, `WithinCap`, `ReplayInOrder`, `SpoolDrains` |
| `breaker` | 3 callers, threshold 2, both windows 1 tick, the backend turns twice, 1 call records nothing; fair | `NoStampede`, `NeverLatched`, `FollowsBackend` |

Every module with code behind it defines a `TypeOK`, which is proved (section 4), so no
run spends time on it. It can be added to the `INVARIANTS` of any configuration.

### Why the bounds are enough

- *Txn*. Two statements per transaction let a first write create a branch and a
  second continue it or claim a second table; one outside write moves one main; two
  faults are a lost reply and the fault that exploits it (a repeated COMMIT after a
  drop, a crash during a retry). Two transactions meet on every pair of steps. Two
  attempts of `publish` are one retry and one exhaustion. `txn_commit` has no
  outside writer (the other transaction is one) and no faults, and a session end does
  to a transaction what the expiry it has does; `txn_faults` has
  both and one transaction. The tables of `txn_faults` are all non-empty: what an
  empty table does under faults is observation (d) and (b) below. With one transaction
  and one request in `txn_faults`, the conjuncts of `EndIsExclusive` and
  `ReadsOwnWrites` about a second request or transaction are left to their theorems.
- *Lease*. Every proof obligation of the lease is between one holder and one rival.
  TTL 2 separates "renewed in time" from "too late", MaxTime 5 is two full leases and
  the tick between. In `lease_steal` the clock takes the values 0 to 2: a claim of time
  0 can be renewed at 1, or expire and be stolen at 2. The clock stops at `MaxTime`, so
  `AbandonedIsStolen` speaks of claims that expire by then.
- *WriteCommit*. Three statements are a winner, a loser that is rebased, and a third
  that moves the table between the reload and the commit of the second. Three
  attempts are an unknown outcome, a conflict after it and the last attempt. One
  inner retry is both sides of that loop. A table that is empty and one with a
  single row are both initial states; the appends of the mix make the groups of
  several files a compaction picks from.
- The mixes (`WriteCommit` defines them, the configurations choose one). `Compatible`
  leaves out pairs of statements that the commit does not keep apart (the finding,
  observation (f)); inside it every mix of kinds is explored.
  `NothingRemoved` leaves out rewrites, and appends beside compactions, for the run
  in which requests land late (observation (e)).
- *MetadataCache*. A fence is about one store and one invalidation of its key; the
  second load is the one that re-inserts or serves meanwhile, the second invalidation
  the one that prunes the first one's generation away. `Overlap = FALSE` leaves out
  two re-inserts or two bumps inside each other, for which the property fails
  (observation (j)).
- *Pool*. One fault is enough for each way to be late: a stop (and a restart from any
  build) with a hello, a check or a stream of the first process under way; a lost
  hello or reply; a stalled check; a failed scan. The second process of the heartbeating
  worker may be of this build, of an older task version or of another protocol, and
  answer health checks with its key or with a plain `ok`. Two batches are one before and one
  after a failure; one retry is a retry and an exhaustion; caps 1 and 2 refuse and
  admit the second worker.
- *Audit*. Files of one record rotate at every write, one generation kept deletes the
  one before; a spool of two is at its cap with a batch in flight. Two faults are a
  crash and the crash, or the lost answer, around its recovery. A process that has no
  record left for the first line of a BROKEN segment stays down, an end the bound
  makes and `SpoolDrains` excepts (`OutOfRecords`).
- *Lineage*. Three small events fill the spool and evict one; with the poison one
  before and the oversized one after, each is met with a spool that is empty, full and
  being replayed. The one fault is a crash, a failed write or a lost answer, so a
  damaged file meets every later state of the spool.
- *Breaker*. A winner, a caller that takes the second place, and the one that would be
  the third; the backend goes down and comes back.

Deadlock is checked except in `cache_fence`, `audit_export` and `lineage_spool`: there
the system really stops when the bounded work (commits, records, events) is done.
`WriteCommit` has an explicit step for "every statement is answered".

### Fairness

- *Txn*: weak fairness of the steps of each request (the runtime polls a future
  until it is done or dropped), of each branch drop of a discard, and of
  `DropStale` on the `Maintained` tables, to which an enabled scheduler comes back at
  every tick; none on the others. Nothing is assumed of
  clients, faults, sweeps or other writers: an open transaction of a silent client
  may stay open as far as the model knows.
- *Lease*: the clock goes on and a coordinator that is up takes its steps (a
  scheduler that ticks, a rewrite that ends, a call that returns). No fairness for
  renewals, faults or late commits.
- *WriteCommit*: a statement that can take a step takes one; its loops are its own
  task.
- *Pool*: the heartbeat and health-check tasks tick for ever and each of their calls
  ends (10 s and 3 s timeouts); a hello on its way arrives; a stream that is polled
  makes progress. Nothing promises that a process starts, that a quiet period elapses
  at a useful time, or that a query is planned.
- *Audit*: the writer's flush interval and the shipper's loop run on their own
  threads, a stopped process is started again (it finds the end of the log or not), and a collector that is asked again and
  again answers at some time (strong fairness of `ExportOk`): without that no backlog
  could drain.
- *Lineage*: the same, with strong fairness per event of `Resend`.
- *Breaker*: the clock runs and requests keep coming; each call ends, since every call
  has a timeout. A dropped call and a turn of the backend may never happen.

## 4. What is proved

Every theorem holds for all constants that satisfy the named assumptions
(`TxnConstants`, `WriteAssumption`, `LeaseConstants`, `CacheConstants`,
`RegistryAssumption`, `FragmentAssumption`, `AuditConstants`, `SpoolConstants`,
`BreakerAssumption`),
that is for any number of transactions, tables, requests, statements, coordinators,
keys, workers, fragments, records, events, callers, attempts and faults. They say that bounds
are numbers, that limits the code insists on are positive, that the fragments of a
query are finitely many, and that the marks for "none" are no values.

| theorem | statement |
|---|---|
| `TxnProofs.TypeCorrect` | `Spec => []TypeOK` |
| `TxnProofs.BranchesContinue` | `~Concurrent => (Spec => []BranchContinuesBase)` |
| `TxnProofs.MainOnlyGrows` | `~Concurrent => (Spec => MainGrows)`: no COMMIT takes a commit off main |
| `TxnProofs.EndingIsExclusive`, `OneEndRecord` | `Spec => []EndIsExclusive`, `Spec => EndsOnce`, every fault and forgotten ids included |
| `TxnProofs.PublishedOnce` | `~Concurrent`, no `forget` `=> (Spec => PublishesOnce)` |
| `TxnProofs.RollbackLeavesNothing` | `~Concurrent`, no `lost_reply`, `cancel`, `forget` `=> (Spec => []RolledBackIsInvisible)` |
| `TxnProofs.AcknowledgedIsPublished` | `~Concurrent`, no `forget`, no `user_drop` or no empty table `=> (Spec => []CommittedIsVisible)` |
| `TxnProofs.TransactionsAreAtomic` | the same and no `lost_reply` `=> (Spec => ImplementsAtomicCommit)`: the refinement |
| `TxnProofs.OwnWritesAreRead` | `~Concurrent`, no `forget`, no `lost_reply` and `user_drop` or no empty table `=> (Spec => []ReadsOwnWrites)` |
| `TxnProofs.HoldsWhatItPublishes` | no empty table `=> (Spec => []HoldsPublishable)`, concurrent requests included |
| `WriteProofs.WriteTypes` | `Spec => []TypeOK` |
| `WriteProofs.AppliedOnceUnlessLate` | no `late` `=> (Spec => []AppliedOnce)`, every mix |
| `WriteProofs.AppliedOnceThoughLate` | `Mixes \subseteq NothingRemoved => (Spec => []AppliedOnce)`, every fault |
| `WriteProofs.AnswersAlwaysTrue` | no `late`, no `transport` `=> (Spec => []AnswersAreTrue)`, every mix |
| `WriteProofs.FilesAlwaysExist` | no `late`, `transport`, `cancel` `=> (Spec => []FilesExist)`, every mix |
| `WriteProofs.RowsNeverDoubled` | no `late`, `Mixes \subseteq RewritesAmongAppends => (Spec => []OneRowPerKey)` |
| `WriteProofs.ChangesAlwaysSurvive` | no `late`, `Mixes \subseteq Compatible => (Spec => []ChangesSurvive)` |
| `LeaseProofs.LeaseTypeCorrect`, `OneRowForever` | `Spec => []TypeOK`, `Spec => []OneLiveRow` |
| `LeaseProofs.LeaseExcludes` | `~Fresh /\ ~Late => (Spec => []Exclusion)` |
| `LeaseProofs.ReleasesOnlyItsOwn` | `~Fresh => (Spec => ReleaseSparesOthers)`, late commits included |
| `LeaseProofs.LeaseIsACell` | `~Fresh => (Spec => ImplementsLeaseCell)`, late commits included: the refinement |
| `CacheProofs.CacheTypeCorrect` | `Spec => []TypeOK` |
| `CacheProofs.NoStalenessLasts` | `~Overlap => (Spec => []NoLastingStaleness)` |
| `PoolProofs.PoolTypes` and four more | `Spec => []TypeOK`, `[]CleanPrefix`, `[]LoadIsLive`, `[]NoTrackerLeak`, `[]FailuresReported` |
| `AuditProofs.LogAlwaysVerifies`, `ExportNeverLoses` | `Spec => []ChainVerifies`, `Spec => []NothingLost` |
| `AuditProofs.AuditTypeCorrect` | `Spec => []TypeOK` |
| `LineageProofs.EventsAlwaysAccounted`, `ReplayAlwaysInOrder` | `Spec => []Accounted`, `Spec => []ReplayInOrder` |
| `LineageProofs.SpoolStaysWithinCap` | `Spec => []WithinCap`, for any sizes of the events |
| `LineageProofs.LineageTypeCorrect` | `Spec => []TypeOK` |
| `BreakerProofs.BreakerTypeCorrect`, `NeverStampedes` | `Spec => []TypeOK`, `Spec => []NoStampede` |

No hypothesis is there for convenience: each one excludes a behaviour for which the
property fails, and section 5 names it: `~Concurrent` (i), no `lost_reply` (h), no
`forget` (r), empty tables (b) and (d), `late` and `cancel` (e), `transport` (l),
the mixes (the finding, (f) and (e)), `~Fresh` (k), `~Late` (g), `~Overlap` (j).

**MainOnlyGrows.** `Publish` sets main to the prepared head, and its requirements
only compare snapshot ids: main is at the base, the branch is at the head. That the
head contains the base is not compared by anyone; it has to be an invariant.
`MainInv` is `TypeOK` with `Serial` (a transaction has one request at a time),
`CreatesUnclaimed` (a statement about to create a branch has a table its
transaction does not hold yet), `PreparedIsClaimed` (what COMMIT prepared are
tables it holds) and `BranchContinuesBase`. The branch can be dropped by others
and come back only through `Create`, at the base itself, or through `Write`, which
`Pin::Stale` stops unless the base is empty. Without `Serial` the theorem is false,
which is why `Concurrent` is a constant.

**EndingIsExclusive, OneEndRecord.** `EndInv` is `TypeOK` and `EndIsExclusive`:
whoever ends a transaction took it out of `State.open` under the lock and put its id
into `State.ended` in the same step, so a second COMMIT, the sweep, the session end
and the shutdown find nothing. When the registry forgets an id, its record goes in the
same step, so a second life of the id starts like a first. The theorems allow any number of concurrent requests of
one transaction; the run that checks the two properties has one.

**PublishedOnce, RollbackLeavesNothing.** `CommitInv` adds to both invariants where
the writes of a transaction can be: on its own branches, and on main only once it is
published, then on all tables it held. A COMMIT repeated after a lost answer finds main
off its base, or the branch equal to main. `AnsweredInv` says that a published
transaction was recorded and answered as committed; a lost answer or a cancelled COMMIT
breaks exactly this.

**AcknowledgedIsPublished, OwnWritesAreRead.** `AckedInv` follows an acknowledged
write: it is on the branch, or the branch is gone in a way `Pin::Stale` recognises; and
it is in every head a COMMIT prepared. `ReadInv` adds what a statement has pinned.
Both recognise a missing branch by its base, which an empty table has not.

**TransactionsAreAtomic.** The mapping takes a transaction of `AtomicCommit` to be
decided when it is published. `SettledInv` says that a published transaction is over
(not open, and no request at work for it), so `Publish` is the one abstract step, and
every other step leaves main to others or stutters (`StepKeepsPromise`).

**WriteProofs.** `WriteInv` relates a statement's place in the two loops to the
versions it loaded and left unknown. `Once`: a statement that was applied is done, or is
about to load a table that has moved past the version of its unknown attempt, where the
loop stops. `FilesTracked` relates the files of the table, of the guards and the deleted
ones to the attempt that wrote them. `RowsTracked` says that between the load of a
rewrite and its commit the table only gained rows in files it does not remove. Of a
compaction under way `Compacts` says what became of the rows it read: each is still
there, or its file is not, or a delete committed after the plan is to blame, by key or
in its file; a commit that passes both checks and keeps its pin then puts back exactly
the rows it removes (`CompactedRows`), and a DELETE or UPDATE that landed inside it
stays. `ChangesTracked` that a snapshot with the table's version is the table. `SentOnce`
covers requests that land late: an append is recognised by its file and a row delta
by the one version all its requests are pinned to, and a compaction sends no second
one (`CompactOnce`).

**OneRowForever.** A commit replaces exactly the rows it read, and applies only
while they are all live. `RowInv` adds that what an operation read is one row
(`SeenOne`) and that a late commit deletes one (`LateDeletes`): a commit that
deleted nothing would add a second row. `~Fresh` is needed for the first one.

**LeaseExcludes.** That there is one row does not say who counts on it: a renewal
whose answer was lost moved the claim to a file the holder does not know. `LeaseInv`
says that each *unexpired* handle is backed by a live, unreleased row of its holder
that does not expire earlier (`HandleBacked`), and so is an own claim that
try_acquire has read and may still return (`SeenBacked`); with `OneLiveRow`, two
unexpired handles have the same row and so the same holder. A rival replaces a row
only if it has expired by the rival's `now`, which is not later than the clock
(`ClockInv`), so the handle it backed has expired, too. A renewal never shortens
what it replaces, since no claim runs longer than TTL from now (`ClockInv`,
`ExpiryInv`), and `SeenIsLive` says a path that is live is the row that was read.

**ReleasesOnlyItsOwn.** The commit of a release names a path, so it must be the path of
its own claim and of nothing else: `FileInv` is `RowInv`, `SeenIsLive` and `LateApart`,
which keeps the file of a commit still on its way apart from all others.

**LeaseIsACell.** The cell's `Take` may only replace what has expired, and its `Extend`
may not shorten. A commit is decided long before it lands, so `CellInv` carries each
decision to that moment: an operation's `now` is not ahead of the clock (`OnTime`); what
it is about to write lasts at least as long as every claim of its own coordinator, live
or on its way (`OwnEarlier`); and a commit on its way, the late ones too, may follow the row it read
if that row is still there (`MayFollow`, `LateFollows`). A commit that finds its row is
then one step of the cell, and one that does not is none. `Exclusion` counts handles,
which a late release of the same holder takes the row from, and so needs `~Late`; the
cell counts the row of the table, and does not.

**NoStalenessLasts.** `FenceHolds` says of each load that either the generations it
compares with have changed since its snapshot, or what it holds is not older than the
last finished invalidation; and of each entry that it is current, or in the hands of a
load that will still undo it. `GenerationsGrow` and `TimesPast` order generations and
times, `StoresApart` is what `~Overlap` buys.

**Pool.** Each part of `PoolInv` is about one fragment or one worker: the places of a
fragment and what was delivered of it, the load as the number of live fragments, the
tracker's entries as fragments whose removal is still queued, and the totals of the
hellos and answers on their way, which are never ahead of the worker's counter.

**LogAlwaysVerifies.** `ChainInv`: the lines of the log are linked, within a file and
from one to the next (`LogOK`); the writer's buffer is linked and goes on from the last
line of the log (`BufferOK`); and while the process runs, the chain goes on from the
buffer or, when that is empty, from the log, so what is stamped next fits. Rotated files
are never empty, which is why the tip a restart resumes from is in the active file or the
newest rotated one.

**ExportNeverLoses.** The cursor stands for "all records up to this number", so it must
pass over nothing that is not exported, dropped or skipped. As long as
nothing broke the chain (`~ragged`), `ExportInv` adds to `ChainInv`: the numbers of the
log and its buffer have no gaps and the chain goes on from them (`NumberInv`); the spool
and its buffer rise and hold only records of the log or its buffer (`OrderInv`), so a
number the cursor covers is not given to a new record after a crash (`KnownInv`); and
the cursor, the cursor file, the offset and the batch in flight pass over only records
that are accounted for (`ShipInv`). After a break, a BROKEN restart included, none of
this holds of the new records, and `OldInv` takes over for the ones from before it: they
are the first lines of the spool, in order (`OldFiles`), and whatever the cursor, the
offset and the batch pass over is accounted for (`OldShip`), also when the numbers of
new records fall below the cursor.

**Lineage.** `LineageInv`: a segment's name is never given again (`NamesGiven`), so
what either task read under a name is still what is under it (`ReadWhole`), what the
replay task has behind it is delivered (`SentBehind`), and what is not on its list is
newer than all that is (`OldestFirst`). An event leaves the files only by a delete that
counts it, or adds it to `gone` when the file could not be read.

**SpoolStaysWithinCap.** The cap counts once, at the start of an append, and then
subtracts what it deletes, while the replay task deletes the same segments. `CapInv`:
every event is in one file at most (`InOneFile`) and is offered to the spool once
(`TakenOnce`), and the count is never below what the files hold, from `Measure` on
(`UnderCap`), unless the reading of the lengths failed, which `misread` records. What the
files hold is a sum over a set of segments. Its laws (adding or removing a member, a
subset weighs no more) are proved from the smallest set that breaks them: the library's
`WFMin` with the well-founded order of the naturals picks that set, so no induction
theorem with an operator parameter is used.

**Types.** Two type invariants needed more than types. An offset into the audit spool
stays inside it (`AuditTypeCorrect`) because a shipper that holds no batch has no place
in the spool (`ShipTypes`), and because lines are built of records stamped so far
(`FileTypes`), which bounds the numbers; a restart reads the last one from the log, whose
shape is `ChainInv`. That only events count as delivered, dropped or gone
(`LineageTypeCorrect`) rests on `TakenOnce`: the emitter has an event whenever it is at
work.

**NeverStampedes.** `Leased`: a read of the lease that a compare-exchange would still
find is of an expired lease, and after one success the lease is younger than the change
to Half-Open.

Every safety property of the passing runs is a theorem. Model-checked only is liveness
(`RequestsEnd`, `StagedWritesGo`, `AbandonedIsStolen`, `StatementsEnd`,
`PoolConverges`, `FragmentsEnd`, both `SpoolDrains`, `NeverLatched`,
`FollowsBackend`), which is out of the prover's reach.

## 5. Where code and documentation disagree

Shown by a run that violates a property:

**Two copy-on-write statements** (`commit_cow`). The loser is re-applied below its own
retry loop by `Transaction::commit`, and both versions of a row stay;
`write_handler.rs:1056` says the whole rewrite is re-run.

Observations met while modelling, without a run of their own. Those marked * are
counterexamples TLC gives when the named constant, or the exception the property makes
for them, is lifted:

- (a) The base of a claim is the table loaded for the commit (`commit.rs:29`), which
  may be newer than what the statement read; `txn.rs:7` says it is "the `main`
  snapshot that write read". `MainGrows` shows nobody's commit is lost, but the statement may not
  have seen it.
- (b) The claim of an empty table binds no catalog until its write succeeds
  (`txn.rs:498`, `:369`), so after a failed first write a transaction can hold
  tables of two catalogs.
- (c) A query timeout or cancel that drops a running COMMIT (`query_handler.rs:3211`)
  leaves the id ended, with no end record and no discard; the branches wait for
  `DropStale`.
- (d) A dropped branch of a table that was empty when claimed is started again
  without its first writes (`txn.rs:437`, `:782`): an acknowledged write is missing
  from the COMMIT that reports success.
- (e) A commit of unknown outcome that lands after the reload showed an unmoved table
  (`write_handler.rs:1124`): a rewrite then names files its held guard has deleted,
  and an append that a compaction has meanwhile rewritten is applied again. The same
  holds for a cancel after the request was sent. `commit_faults`, which has both, has
  no rewrites.
- (f) A merge-on-read UPDATE pins its row delta to the snapshot loaded for the commit
  and not to the one it read (`write_handler.rs:4721`): of two concurrent ones, one
  is lost, although `mor-vs-cow.md:133` says the action "fails with a retryable
  conflict if another writer advances the snapshot first".
- (g) A release of unknown outcome that lands late frees a claim the same holder took
  again in between (`maintenance_lease.rs:578`), which is why `LeaseExcludes` assumes
  `~Late`; and a release after a renewal whose answer was lost finds its path gone
  and leaves its own claim live until it expires (`:751`). A commit that was applied and
  answered by a transport error has its row file deleted by the guard (`:580`, `:675`,
  `:785`). `read_lease_rows` opens the files of all lease rows before it compares the
  job_key, so from then on no table's lease can be read, acquired, renewed or released:
  every coordinator compacts every table without a lease (`active_one_table` fails
  open), until someone repairs the lease table.
- (h)* A lost answer to COMMIT (`RolledBackIsInvisible` with the fault `lost_reply`).
  The catalog applied the commit, the transaction is reopened (`txn_registry.rs:253`),
  and the repeated COMMIT answers TRANSACTION_CONFLICT with every write on main;
  `txn.rs:543` says the tables are then as if the transaction never ran.
  `PublishesOnce` does hold.
- (i)* Two first writes of one transaction at once (`MainGrows` with
  `Concurrent = TRUE`). Both create the branch; the second sets it back to an older
  base than the recorded one and COMMIT removes another writer's commit from main.
  `branch.rs:75` says a duplicate create fails; no requirement on the ref is sent.
- (j)* Two stores or two bumps that overlap get past the cache's fence (`Overlap =
  TRUE`): `update_etag` re-inserts the entry another load is about to undo, and two
  prunes at once can bring a generation back. `rest_catalog.rs:1079` argues for any
  interleaving of one store and one invalidation. The ETag of the background HEAD may
  also be newer than the table it is attached to, and a later 304 then vouches for the
  old one; `NoLastingStaleness` excepts that entry.
- (k)* A first lease claim that races another (`Fresh = TRUE`): the late append is not
  seen by the claim after it; `maintenance_lease.rs:66` says exclusion is real from the
  second claim onward.
- (l)* The client's own timeout on a commit request is not recognised as an unknown
  outcome (`writer.rs:149`), so the guard deletes files that may be committed;
  `writer.rs:146` counts "a timeout on the commit request" in. Lease commits have the
  same guard (g).
- (m) The result cache stores a result after the write that invalidated its tables
  (`query_cache.rs:286`); only the TTL ends it.
- (n)* Audit: a torn last line makes the chain start again at number 0
  (`logger.rs:684`), which a cursor further on counts as shipped, and the next record
  is written to the same line; likewise a torn line of the spool. A clean stop may do
  the same: the tip is looked for in the last 64 KiB only (`:635`), so a last record
  longer than that, or a window that starts inside a character (`:639`), gives a BROKEN
  segment, and the records after it are not exported until their numbers pass the
  cursor. A trim flushes the
  spool but not the native log (`logger.rs:590`), so a crash can leave records in the
  spool whose numbers are used again. A crash between truncating and writing the
  cursor makes a shipper with `start_at = now`, the default, pass over its backlog. A
  record that is only in the native log at a crash is not exported.
- (o)* Lineage: an event may be sent by the replay and counted as dropped by the cap,
  or a segment be deleted that the replay had already freed room with; an event the
  collector refuses for good (4xx) blocks everything behind it until the cap removes
  it; half a line left by a crash takes the next event with it, uncounted; new events
  overtake spooled ones. When the replay removes a segment while the spool is measured,
  `unwrap_or(0)` (`spool.rs:99`) reads the size as 0 and the event is appended past the
  cap, until an append measures it right; `:7-11` says disk use stays bounded. A file
  cut inside a character cannot be read: the replay stops at it on every pass
  (`:235`), so it and everything newer stay until the cap deletes them, and the cap
  deletes it with nothing counted (`:118`), although `:7-11` says every event of a
  deleted segment is counted. An append that fails is counted as a sink error, not as
  a dropped event.
- (p) Pool: after a retry elsewhere the credential tracker still names the first
  worker (`distributed_scan.rs:864`). A worker restarted with another protocol version
  is refused before the registry hears of it (`flight_sql.rs:3020`) and is evicted
  only by failing; `worker_registry.rs:570` reads as if it were at once. A health
  check that passes re-admits a worker at once, whatever the quiet period says, and so
  does the hello after the one whose failures were acknowledged. A worker of an older
  ScanTask version whose checks pass, because it has the key of the configuration or
  answers with a plain `ok`, is evicted by every hello (`:600`) and admitted again by
  every check (`:787`), for ever; `:570-573` says that it "does not keep receiving
  tickets". A late
  `mark_unhealthy` takes out the new process of a URL until its next hello or check.
  A purge may drop the entry of a fragment that was registered just before it.
- (q)* Breaker: a second probe is admitted between the compare-exchange and the store
  of the lease (`circuit_breaker.rs:175`), where `:16` speaks of one; `NoStampede` is
  that there is never a third. A caller that found the window over before the breaker
  opened again can still win the change to Half-Open.
- (r)* An id that is sent again more than a day after its transaction ended
  (`txn_registry.rs:38`) is a new transaction: the registry answers a repeated COMMIT
  with success, as of a transaction that did nothing, though the first one was rolled
  back and nothing is on main, and a branch of it that nobody dropped can be continued
  when the table was empty.
- (s) A compaction whose reload after the commit fails (`maintenance.rs:1483`) is
  reported as failed though its files were swapped; `AnswersAreTrue` excepts it.

## 6. Not modelled

Rows, expressions, plans, file contents and statistics are data: scans, policies,
SQL rewriting and planning have no state a small model could say something about.
Front ends, tools, configuration and start-up are parsing, encoding and I/O. Within
the modelled components: wall-clock time (expiry is a choice), the text of errors
(only the classes the code tells apart), metrics, and the maintenance ledger;

- transactions, commits, lease: the audit record apart from its outcome, snapshot
  expiry and orphan removal beside the commits (a compaction whose baseline was expired
  is refused and planned again, like one that met a delete), the statistics a
  compaction carries over, and its distributed form
  (`rewrite_data_files_distributed`, `maintenance.rs:1547`), which commits in batches
  and has no cleanup guard;
- cache: entries of several tables in one instance (the fence is per key), views and
  namespaces;
- pool: capacities and the scheduler's weights, the peer check and legacy hellos, Hive
  scans, tickets, dynamic filters, the push of credentials, compaction on workers;
- audit: the queue in front of the writer and `fail_mode`, the OCSF file, write errors
  of the disk, masking;
- lineage: the extraction of events, the other sinks;
- result cache: it promises no more than its TTL (observation (m));
- spill, sessions, authentication: counters and maps whose operations are one lock
  each; they come after what is above.

The modules cover the concurrent and fault-tolerant core. The largest part of the
repository (planning, functions, formats, protocols, configuration, vendored crates)
is sequential data processing that these methods do not reach.

## 7. Plan

The safety properties of the passing runs are all theorems; what is left to the runs
is liveness. Models next: snapshot expiry and orphan removal beside `WriteCommit`; pending
logins; the spill budgets.

## 8. Running it

`tlc -config MCTxn_faults.cfg MCTxn` model-checks one instance (the module and the
configuration of each run are in `PROJECT.json`); `tlapm LeaseProofs.tla` checks
the proofs of one module. The runs take from seconds to about three minutes, the proofs of
a module from seconds to several minutes.
