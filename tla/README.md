# A verification project for DataForge

DataForge generates test data: users describe a *case* (tables, columns, generation
strategies, associations between tables), and the program inserts the rows into a MySQL or
Redis data source, batch by batch, with several threads, and can retry, stop and roll back
what it did.  Cases are combined into *scenes*, DAGs of cases.  The backend is a FastAPI
process and Celery workers that share a MySQL system database and a Redis; the frontend
polls the API.

This directory holds TLA+ models of the parts of the backend whose correctness depends on
concurrency, failures and ordering, the TLC runs that check them, and TLAPS proofs.  Paths
below are relative to `src/backend/app/` unless they start with `docs/` or `README.md`.

## 1. Inventory

| Component | Source | State | Operations | What makes it correct | Modules |
|---|---|---|---|---|---|
| Batch engine | `engine/executor.py` | futures of a thread pool, statistics, batch logs, status of the task, rows in the target database | submit in waves, insert the tables of a batch in order, retry an insert in place, record, stop on the failure rate, verdict | the verdict and the logs agree with the rows; no orphans; nothing runs after the verdict; every execution ends | `TaskContract`, `BatchRun`, `BatchRunProofs` |
| Task lifecycle | `services/case_service.py`, `services/task_service.py`, `tasks/execute_task.py`, `tasks/rollback_task.py`, `engine/executor.py` | row of the task, message in the broker, retry threads, batch and rollback logs, `rollback_status` | submit, deliver, execute, stop, retry, roll back | one writer at a time; rows can be found again; a stopped task stays stopped; a finished rollback is complete; every run gets a verdict | `TaskLifecycle`, `TaskLifecycleProofs` |
| Scene scheduler | `engine/scene_executor.py`, `tasks/scene_task.py`, `services/scene_service.py`, `tasks/execute_task.py` | row of the scene execution, rows of its nodes, node progress in Redis, tasks of the nodes | start, submit a layer, wait, apply the failure strategy, verdict, stop, retry nodes | layers are barriers; the abort strategy holds; the verdict is true; a running scene has a scheduler | `SceneExec`, `SceneExecProofs` |
| Metadata synchronisation and data sources | `tasks/sync_task.py`, `services/datasource_service.py`, `services/engine_service.py`, `engine/db_pool.py` | lock in Redis, status of the data source, metadata caches in MySQL and Redis, engine pools | trigger, synchronise, scheduled synchronisation, heartbeat, edit, delete | the caches describe the schema; one synchronisation at a time; a data source does not stay "synchronising"; a deleted data source leaves nothing | `MetadataSync`, `MetadataSyncProofs` |
| Counters | `engine/strategies/number_strategies.py` | counters in Redis with a life time | initialise, reserve a range, expire | no value is handed out twice or skipped while the counter lives | `NumberGrants`, `IncrCounter`, `GenerationProofs` |
| Cases, folders, scenes, engine configuration | `services/case_service.py`, `services/scene_service.py`, `services/engine_service.py`, `services/datasource_service.py` | rows of cases, folders, scenes, data sources and tasks; messages | create, save, rename, copy, move, delete, execute, batch execution | names are unique; what is used is not deleted; folder counts add up; a batch is submitted whole | `Catalogue`, `CatalogueProofs` |
| Insert order and generation | `engine/dep_analyzer.py`, `engine/data_generator.py`, `engine/executor.py`, `services/engine_service.py`, `engine/strategies/` | the configuration, the metadata caches, the values of one batch | validate, prepare, order the tables, inject, override, generate, insert | sources before targets; foreign keys match; a configuration that was accepted can run | `Generation`, `GenerationProofs` |
| Redis generation | `engine/redis_gen.py`, `tasks/rollback_task.py` | keys of the target Redis, counters of templates, rollback logs | validate, reserve numbers, write a batch, record, roll back | numbers follow on; no batch overwrites another; a rollback leaves nothing | `RedisGen`, `RedisGenProofs` |
| Snowflake numbers | `engine/strategies/pk_strategies.py` | last timestamp and sequence of a process | next number, wait for the clock | numbers increase and are unique | `Snowflake`, `GenerationProofs` |
| Users and login | `services/user_service.py`, `core/security.py`, `api/deps.py` | users, permissions, counters of failures and of API calls, tokens and their blacklist | login, logout, register, decide, assign permissions, change a password | a lock holds and ends; a logged-out token is refused; permissions are those of one request | `Accounts`, `AccountsProofs` |
| Notifications | `services/notification_service.py`, `tasks/notify_helper.py` | rows, unread counter in Redis | create, read | the counter follows the rows | not modelled |
| Overview, tools, AI, frontend, schema, deployment | | | | | not modelled |

How they interact: the API writes a row and sends a message through the broker (Celery over
Redis); a worker finds the row by the id in the message and overwrites its status as it goes;
progress is written to Redis for the frontend; the scheduler of a scene is itself a Celery
task that submits one task per node and learns of their ends from Redis, while its decisions
are taken from MySQL; retries of a task run in a thread of the API process, rollbacks in a
worker.  Nothing but the status columns synchronises these processes, and each of them reads
a status in one transaction and writes it in a later one.

What is hard: the order of these reads and writes; messages that overtake the commit of the
row they name; workers that die with an unacknowledged message; threads of a pool that go on
after the main thread has given up; locks and counters that expire.  `PROJECT.json` lists the
hazards one by one, each at its line, with the properties that cover it.

## 2. Plan

Done, in the order of their importance to the system:

1. `BatchRun` with proofs, the engine that every task runs.
2. `TaskLifecycle`, which uses that engine in outline.
3. `SceneExec`, which uses tasks in outline.
4. `NumberGrants` and `IncrCounter`, an abstract specification and its implementation, with
   proofs.
5. `MetadataSync` with proofs.
6. `Catalogue`, what the tasks and scenes are made of and the requests that submit them.
7. `Generation`, from a configuration to the rows of a batch.
8. `RedisGen`, `Snowflake` and `Accounts` with proofs.
9. Proofs about `TaskLifecycle` and `SceneExec`, then about `Catalogue` and `Generation`, and that
   the statistics of a task are true: every invariant a run checks is a theorem.

10. `TaskContract`, what an execution promises to the stop, the retry and the rollback, implemented
   by `BatchRun`, with the proof.

Next, in this order: what `TaskLifecycle` assumes of an execution derived from `TaskContract`; the
notification counter.

## 3. Batch engine: `TaskContract`, `BatchRun`

| Model | Code |
|---|---|
| `fut`, `at`, `out` | the futures of `_run_offsets`, the position and the result of `_execute_batch` |
| `rows` | committed copies of a batch of a table in the target database |
| `Submit`, `Wait`, `SkipCancelled`, `Record`, `CheckRate` | the loop of `_run_offsets`, one action between two calls |
| `NextShard`, `RoundEnd` | `_run_all`, `_execute_normal_mode`, `execute_iterate_mode` |
| `Finalize`, `Publish` | `_finalize_task`: the committed verdict, then Redis |
| `MainRaises`, `Unwind` | an exception in the main thread, the exit of the pool, `_mark_task_failed`, whose own commit may raise |
| `NotifyCancelled` | a free thread comes across a cancelled future: only then does `wait` return it |
| `StartBatch`, `Enter`, `GenerateRefused`, `InsertSucceeds`, `InsertFails`, `SyncAndFinish`, `BatchRaises` | `_execute_batch`, one action per table |

The attempts of `_insert_with_retry` are one action: they touch nothing but their own rows, and
nobody reads these before the batch is finished.  A commit whose answer is lost leaves rows
behind an attempt that counts as failed; `MaxLost` bounds how often.  `BatchRaises` needs no
cause in the model: the sampling of a source table and the reservation of counters can fail at
any table.  Values are left out; `Source` only says which table copies values of which.

Run `batch`: normal mode, and two rounds of iterate mode over three batches in two shards, two
threads, two batches in flight, one lost answer.  Three batches over two threads with a shard of
two are the smallest instance in which a stop finds a batch logged, one running and one not
submitted.  Two rounds distinguish all, some and no failed rounds.  `RowsTrue` says what is in the
target database (`LogsMatchRows`, `NoOrphanOfMain`, `CancelledLeavesNothing`), `StatisticsTrue` what
is counted (`EveryRowCounted`, `PartialMeansMixed`).  The run has `MaxRetry` = 0: the second copy of
a batch that an in-place retry inserts after a lost answer does not occur in it, but in the proof
of `RowsTrue`, which is about every `MaxRetry`.  `VerdictHolds` says what a verdict means: a success is
complete (`SuccessMeansComplete`), and it is the end of all work (`NoWorkAfterVerdict`).

`TaskContract` is what an execution promises to those who come after it, and knows no threads,
futures, rounds or statistics.  Its steps are `Insert` (the rows of a table of a batch appear),
`Write` (a batch is logged), `Decide` (the verdict) and `Withdraw` (a committed verdict becomes
"failed", since announcing it raised: `_mark_task_failed` overwrites it).  Rows appear only while the
task runs and its batch is not logged, a log is written once and agrees with the rows unless a commit
was not answered, success means all, partial success something but not all.  `KeepsContract` says
that `BatchRun` implements it: `copies` are `rows`, `log` is what `out` says of the logged futures
(`Logs`), `sure` is "no answer was lost" (`Answered`), `verdict` is `status`, and every other step
of the engine stutters.  `TaskLifecycle` has the same three steps in outline: its `RunBatch`, `Record`
and the commit of the verdict are `Insert`, `Write` and `Decide`.

What the code does not promise: a chain A -> B -> C.  `_execute_batch` skips the remaining tables
only when the main table failed; when B fails, C is inserted with values of the rows of B that were
generated and never inserted, although the requirements (`docs/popsicle_产品需求readme.md:751`) say
otherwise.  `NoOrphanOfMain` is therefore about copies of the main table.

And the commit of `_mark_task_failed` (`engine/executor.py:994`) is caught by nobody: when it raises,
the execution is left (`pc` = "left") and the task stays RUNNING.  `Termination` therefore promises that
every execution ends and leaves no work behind, and a verdict unless it ended there.

Fairness: weak, of the main thread and of each thread of the pool; the code has no lock or
queue a thread could wait on for ever, calls to databases time out.

## 4. Task lifecycle: `TaskLifecycle`

One task, one Celery process (`Exec`), the retry threads of the API process (`Retriers`), a
forced stop and a rollback.  A batch stands for one table's batch.  Each handler is split where
the code commits or hands over: `AbortCheck` reads and revokes, `AbortCommit` writes;
`RollbackCheck`, `RollbackMark` (commit), `RollbackSend`; `CheckExec`, `BeginExec`.  `RunBatch`
and `Record` are the engine in outline; `TooManyFailed` is its failure-rate stop.  `copies`,
`rblog`, `unkept` and `ghost` relate the rows in the target database to the rollback logs: `unkept`
counts the successful batches that were logged without one, since the task is too large
(`_decide_rollback_capture`) or the keys the server gave out are not known
(`_capture_mysql_rollback` returns None); a ghost is a log whose rows are deleted but which is not
marked, because the worker died or a commit failed between the two.

Faults: `Kill` (SIGTERM of a revoked task, message acknowledged), `WorkerCrash` (the message is
delivered again, or counts as handled when only the pool process died), `ApiCrash` (retry threads and
requests vanish), `RollbackCrash` (the message comes again, or counts as handled).  `MaxEvents` bounds
requests and crashes together; `count` exists for this bound.  A failure of the system database needs
no event: the commits that nothing catches (`WriteBackId`, `BeginExec`, `BeginRetry`, `Unwound`,
`RollbackMark`, `RollbackSend`, `RollbackError`) may raise at any time, executed or not, and leave
`lost` or `rbLost` behind them.  `RollbackError` is the outer handler of the rollback task.

Assumptions: one rollback request at a time is between its check and its message; the history of
a finished process (`res`, `stopped`) is forgotten, as nobody reads it; the chunks in which a log's
rows are deleted are one transaction, hence one step; a `send_task` that raises has not queued its
message.

Run `lifecycle`: any two requests or crashes (a retry against a stop, a crash in a rollback, a
double click on retry), two batches, two retry threads; the proofs are about any number of them.
`SoleWriter` holds without crashes only, and between the execution and the retries only: two
retries do overlap after a double click.  `RequestsHonoured` says what stops and rollbacks
promise: `AbortHolds` is about stops that come before a process has passed its check (a stop
between the check and the commit of RUNNING is overwritten), `RollbackComplete` about the moment a
rollback succeeds.  `RowsAccounted` exempts the copies that are `unkept`, which no rollback deletes.
`WorkEnds` joins `RunEnds`, which exempts runs whose process was lost or was left by a commit that
raises, and `RollbackEnds`: from the mark on, a rollback gets another status however its logs fail and
its worker crashes, unless nobody is left to write it (`rbLost`).

What the code does not promise: a second retry runs batches that the first one repaired, since
every batch that ever failed is collected (requirement at `docs/popsicle_产品需求readme.md:997`); a
worker that dies leaves its task RUNNING, since the redelivered message meets the idempotence guard
(the comment at `tasks/execute_task.py:55` counts on the redelivery); a rollback whose request dies
between the mark and the message, whose pool process dies, or whose last commit raises leaves
`rollback_status` at 1, with which every later request is refused (`services/task_service.py:324`);
rows without a rollback log stay when the task is "rolled back"; a retry may declare SUCCESS
without batches that never ran (`lifecycle_retry`, see *Findings*).

Fairness: weak, of the worker, of each run, of the retry threads, of the rollback worker and of
the API handlers that are under way; none of users, of the broker losing a worker, or of the commit
of the submission as such beyond the handler being under way.  CHECK_DEADLOCK is off because a
task at rest is a legal end.

## 5. Scene scheduler: `SceneExec`

Process 0 is the scheduler, processes 1.. are deliveries of the retry message.  `SendNode`,
`MarkRunning`, `CommitNodes` keep the order of `_submit_layer_nodes`: messages and Redis first, the
commit of all rows of the layer last.  `Poll` reads Redis, `Collect` MySQL.  The worker of a node
(`StartTask`, `RunTask`, `WriteRow`, `WriteProgress`) is `execute_data_gen` with its report in
`_writeback_scene_node`.  `Seen` is what a retry finds in its session: the rows it wrote itself are
not read again (`db/session.py`: `expire_on_commit=False`).  `CommitRaises` is a commit outside every
try block that raises, executed or not: that of RUNNING (`BeginScene`, `BeginRetry`) and that of
`_mark_scene_failed` (`MarkFailed`).  A forced stop revokes some of the running tasks and may end at any
of them (`StopCheck`).

Run `scene_exec`: three nodes, two of them in the first layer, one of these with the strategy
"abort"; one forced stop, retry or crash.  Two nodes in a layer are needed for a partial result,
a second layer for the barrier.  `NotStopped` and `NotRetried` in the properties name what the
code does not promise: after a forced stop the scheduler goes on (`scene_stop`), after a retry the
verdict may rest on stale rows, and a message that overtook the commit of its row is not counted
as a failure.  Only safety is checked: the scheduler's wait ends by its time limit, which
is one of the causes of `Raise`.

## 6. Counters: `NumberGrants`, `IncrCounter`

`NumberGrants` is what an INCR_FROM column promises: every client is granted, at once, numbers
that no other client holds, until the issuer forgets.  `IncrCounter` is the key in Redis over the
life of one task: `Begin` (`_init_incr_counters`, SET NX), `Reserve` (`prefetch_incr_range`, INCRBY by
the rows of the batch, the range is what lies below the new value), `Store` (the insert of the batch
commits; a failed insert wastes its numbers), `Finish` (`_expire_incr_counters`, best effort, not
reached by a run that raises) and `Expire`, the end of the life time, which may come at any moment
once there is one.  `era` and `expiries` say in which life of the key a range was reserved.

`Start` is the first value `_init_incr_counters` sets, the parameter `start` or 1.  `validate` also
takes the name `start_value` for it (`number_strategies.py:55`), which the initialisation does not
know (`engine/executor.py:341`): such a column is accepted and starts at 1.

Run `incr_counter`: the execution and two retries that may overlap, a batch of three rows and one
of two, starting at 5.  Two sizes are needed for an offset that is right for equal batches only, a
start above 1 to tell a lost counter (INCRBY takes it for 0) from a fresh one.  `GrantsDistinct` is
the refinement: reservations map to grants, an expiry to forgetting them, everything else to a
stutter (`Live` says that a reservation is of the present life of the key).  `NumbersWhole` (stored numbers are distinct, and none is skipped) speaks of the first life
only; what a retry does after the expiry is that it repeats numbers.  No fairness; a task whose runs have ended is at rest, hence
CHECK_DEADLOCK FALSE.

The definitions of a specification are called `IncrInit`, `IncrNext`, `IncrSpec` here and `IdInit`,
`IdNext`, `IdSpec` in `Snowflake`, because `GenerationProofs` extends both beside `Generation`.

## 7. Metadata synchronisation: `MetadataSync`

One MySQL data source.  Its structure exists three times: on a server (`schema`), in three cache
tables of the system database (`cache`) and in Redis (`redis`).

| Model | Code |
|---|---|
| `ds`, `lock`, `queue` | the row in df_datasource, df:lock:sync, the messages tasks.sync_datasource |
| `pool[w]` | `_engines` of a worker process: the server the engine was built for |
| `got[w]`, `old[w]` | what `_collect_metadata` returned, `existing_names` of `_persist_metadata` |
| `Deliver`, `TakeLock`, `Mark`, `Connect`, `Collect` (three steps), `Diff`, `Commit`, `Refresh`, `Notify`, `Release` | `_do_sync`, one action between two accesses to something shared |
| `Raise`, `Fail` | an exception between the mark and the commit, and its handler, which may raise itself |
| `Request`, `Edit`, `Delete` | `trigger_sync` and the daily run, `update_datasource`, `delete_datasource` |
| `Read`, `WriteBack` | the readers of `engine_service.py`, split at the await between them |
| `Heartbeat`, `Crash`, `LockExpires`, `RedisExpires`, `Ddl` | engines made and dropped by `heartbeat_check`; faults, time and the world outside |

A table is absent, has columns, or has columns and an index; columns of the last two differ, as
COLUMN_KEY does.  The writes of a synchronisation are one step with its commit, because its session
reads the caches only in `Diff` and its rows are not visible before (`expire_on_commit=False`: the
object `ds` is not read again).

Run `metadata_sync`: two workers, two servers, one table, any three events.  One table is enough
because `_persist_metadata` treats each table by itself; a second server is needed for edits and engines that
are out of date, a second worker for the overlap after an early end of the lock, three events for
DDL during an overlap.  Workers and servers are interchangeable, hence the symmetry.  Only safety is
checked, without fairness; CHECK_DEADLOCK is off because a data source at rest is a legal end.

What the properties exempt is what the code does not ensure:

* `OneSync` holds until the lock expires under its holder (`overrun`).  After that the first worker
  deletes the lock of the second, and so on, until all of them have ended.
* `ReadsTrue`: `CachesDescribe` is about synchronisations that collected what the server held at the commit, and
  that no other one overlapped between its difference and its commit; it speaks of the server that
  was read.  After an edit this may be the old one: `update_datasource` drops "the Worker's
  synchronous pool" (comment at `services/datasource_service.py:273`), but in the API process, where
  it is not used.  And the message of an edit is dropped when a synchronisation is under way.
* Index rows of a table that lost all its indexes stay, since only tables in `indexes_by_table` are
  deleted first (`tasks/sync_task.py:206`), although the comment at line 181 says that deleting
  first takes care of removed indexes.
* `RowsOwned`: `NoOrphanRows` is about images of one moment.  A table created between the first two queries leaves
  columns without a table; if the table is dropped again, no synchronisation removes them.
* `ReadsTrue`: `RedisFollows` excludes the time between a commit and the next refresh that succeeds, and
  write-backs of rows that were replaced meanwhile.  After a failed refresh readers still find the
  former structure in Redis, whereas the comment at `tasks/sync_task.py:382` counts on the next query to
  read MySQL.
* `SyncingIsServed` exempts a worker that `abandoned` its synchronisation: one that died, one whose
  commit of the mark (`tasks/sync_task.py:345`) was executed without an answer, and one whose handler
  (406-411) met the same failure of the system database that had brought it there.  What they marked
  stays marked until somebody asks for a synchronisation, since `scheduled_sync_all` takes normal data
  sources only.  The property says that every other exception, of the target database above all,
  ends in ERROR.

## 8. Cases, folders, scenes and data sources: `Catalogue`

Every request has one database session (`db/session.py`).  Its reads see the snapshot of its first
read, its writes happen at its commit on the database as it is by then, so a request is two steps:
`SaveCase`, `UpdateCase` and their like read and check; `InsertRow`, `UpdateRow`,
`DeleteRow`, `Move`, `RemoveFolder`, `RemoveSource` write.  An execution has one more: it inserts a
task, sends its message (`SendNext`) and only then commits (`CommitJobs`), so that a worker may look
for the task too early (`TakeTooEarly`) and a broker that refuses a message rolls back tasks whose
messages are out (`Abort`).  A request is *overtaken* when another commits between its two steps;
a row remembers in `late` which of its columns an overtaken request wrote.  `Assigned` is a row with
the columns of an edit, `CasesIn` what the case list shows of a folder.  The properties say
that what the checks are for holds except of these: the database has no constraint but the unique
(group, name) of a folder.

Run `catalogue`: two requests of a user and an administrator at a time, over any sequence of
requests, on four pools of ids: two cases and a folder; a case and two tasks; a case and two
scenes; a case, a scene and a task.  Two of a kind are what a clash of names takes, a batch of two
tasks is what a partial submission takes, and a scene with a case and a task of it is what the
deletion of something in use takes.  Data sources are deleted in the pools with tasks.  `MaxBatch`
bounds a batch execution, `MaxFaults` the messages the broker refuses.

What the code does not ensure, beyond the races:

* The name of a scene is "unique within its group" (`services/scene_service.py:149`), but it is
  looked up in the group of the caller: an administrator who edits or copies a group's scene, or a
  member who edits one of the group 99, can give two scenes of a group one name.  `late` marks these.
* Two rows of one name make `scalar_one_or_none` of every later check raise (error 500).
* A case moved into a folder that is deleted meanwhile is in no folder and not "unfiled" either.
* Tables of a case that live in another data source, and Redis data sources a case synchronises to,
  do not protect these sources from deletion; neither does a finished task that may be retried.
* A batch whose message a worker took before the commit stays PENDING for ever (`outrun`).

## 9. From a configuration to rows: `Generation`

`Save` is `validate_case_config`, `Prepare` is `_prepare_context` of the worker, with `Forget` (a
synchronisation that no longer finds a table) before either; `InsertOrder` is Kahn's algorithm of
`build_insert_order` as a recursive function over its rounds, each of which places the head of the
queue (`Place`) and queues the tables this frees (`Freed`); it is checked against the definition of a
cycle; `StartBatch`, `SampleEmpty`, `CallFails`,
`GenerateRefused`, `Insert`, `InsertFails` and `EndBatch` are the tables of `_execute_batch` with the
precedence of values: what an association injects, what the iterate mode overrides, what is derived,
what is skipped.  A value is the place where it was made, which is all a foreign key is about; one
row stands for the rows of a batch, which are generated alike.  Batches follow one another here
(`BatchRun` has their concurrency), and each is retried once, as `retry_failed_batches` would.  An
attempt raises when a sample finds no row (`SampleEmpty`), when the SELECT of a sample fails, or when
the INCRBY of a counter does, which is no ValueError (`CallFails`); the behaviour ends there, what
the engine makes of it is `BatchRaises` of `BatchRun`.  `SamplesFindRows` is about the first kind only:
the code promises nothing about failing calls.

Run `generation`: three tables, every pair of associations between any of their columns, every
list of three or four between any tables, and every assignment of strategies to the columns of one
table under seven shapes of associations; two batches and their retries, one failing insert.

What a configuration can do after it was accepted (`SavedPrepares` names the first five):

* a source column of the main table that exists but is not configured; a source in a related table
  that is skipped there; two sources for one target column; a table forgotten by a synchronisation;
  a default that is no literal: the comment in `executor._infer_strategy` says expressions such as
  CURRENT_TIMESTAMP are not injected as literals, but only parentheses are looked for, so that the
  preparation of such a table fails;
* a UUID in a short column passes `validate` and raises when it generates; a table whose columns are
  all skipped "succeeds" without rows; unknown columns are accepted and every insert fails;
* foreign keys do not match ("保证外键一致", `engine/data_generator.py:5`) when the target column is
  auto-increment and not listed, or when the insert of a related source table failed.

`exec_params`, tables of other data sources, and the texts the strategies make up are left out.

## 10. Redis generation: `RedisGen`

One template stands for the placeholder that tells its keys apart, a key holds the rows written to
it.  `Valid` is `_validate_redis_case` or `_validate_redis_syncs`; `SeedCounter` (SET NX) and `Reserve`
(INCRBY) are the two calls of `_reserve_incr_base`; `Write` is a MULTI of `_RedisBatchWriter`, of which
a command may fail without undoing the others; `WriteFails` is a Redis out of reach, or an answer
that is lost after the commands were executed; `Record` writes the batch log and the rollback log in
one commit; the rollback visits the logs newest first and does not delete a key twice.  In a pure
Redis case batches follow one another until the failure rate stops them, in a synchronisation they
run in the threads of the pool (`MaxWorkers`).

A set or a sorted set adds the elements it does not hold (`Added`); `conf.member` says which
elements of different rows are equal (none, those of one index in their batches, all).  `Timed` is
what the commands do to the life times of their keys: `ttl_seconds` sets one, a SET without it ends
one; `ExpireKey` ends a key, and `lapsed` keeps the rows it held.  In a synchronisation the batches
that wait for a thread are run even after the main thread raised, and are cancelled by the
failure-rate stop, which the rows of the case's tables may cause, too (`Finish`).

Run `redis_gen`: three batches of two rows, two threads, two failing calls or keys that expire, all
864 configurations, with or without a key that was there before.  What a set held before is taken
to be other elements than the task's.

What the code does not ensure:

* The header of `redis_gen.py` (line 16) says a batch is atomic and a failed one writes nothing; a
  command on a key of another type fails and the others stay, and a batch whose answer was lost is
  recorded as failed with its keys written and no rollback log (`LeftoversExplained` names both).
* The counter lives for 24 hours from its first use: a longer task repeats numbers (`expired`).
* Nothing seeds the counters of INCR_FROM in key fields and field mappings, so that their `start`
  (`number_strategies.py:43`) is ignored and they begin with 0.
* Keys made of {i} are the same in every batch and overwrite each other, yet all rows are counted.
* Equal elements of a set collapse, yet the rows handed to SADD and ZADD are counted
  (`engine/redis_gen.py:308`); `RowsKept` promises an equal element for each.
* Rows go with the life time of their key (`ttl_seconds`, or one the key had before), and stay
  counted; a batch that adds to a key prolongs its life, one that replaces a string without
  `ttl_seconds` makes it last.
* A rollback deletes keys that were there before the task, and a key of another type gets the
  life time of the task.

## 11. Snowflake numbers: `Snowflake`

A thread takes the lock of its process's generator (`Enter`), reads the clock (`ReadClock`), waits for
the next millisecond when the clock is behind or the sequence is exhausted (`WaitNextMs`), and composes
the number (`Issue`).  `Tick` and `SetBack` move the clock, `Restart` gives a process a new life with
machine bits of its own choice: they are the PID modulo 32.

Run `snowflake`: three threads in two processes, two numbers per millisecond, a clock that is set
back once, one restart, so that sequences overflow, the clock lies behind the last number and
processes share machine bits.  `IdsUnique` names what the bits do not exclude: "globally unique"
(`engine/strategies/pk_strategies.py:115`) is false of two processes whose PIDs agree modulo 32, and
of processes forked after the import, which share the generator of their parent.

## 12. Users, tokens and limits: `Accounts`

A request is a coroutine, split at every await that lets another request between two accesses that
matter: `LoginCheck` (the lock), `LoginRow` (the user), `LoginFailed` and `SetLifetime` (INCR, then
EXPIRE by the request that saw 1), `LoginClear`, `LoginIssue`; `AiCall` shares the counter of API keys;
`RegisterCheck`, `RegisterInsert`; `Load`, then `DeleteMenus` and `CommitMenus` or `CommitRow` for the
decisions of administrators, with the gap locks of MySQL and its `Deadlock`; `ChangeCheck`,
`ChangeCommit`.  `Die` ends a request at any await, `Fault` is an error of Redis, which login treats as
"not locked" and "not counted".

Run `accounts`: two requests, one user, one API key, two codes, one token, one fault.  Two requests
are what every race here takes.

What the code does not ensure: a request that dies between INCR and EXPIRE leaves a counter
without a life time, and the account locked, for ever (`unclosed`); a token that was logged out is accepted
again in the second in which it expires, since the life time of the blacklist is rounded down;
`change_my_password` says it reads the latest hash (`services/user_service.py:555`), but the session
returns the object it has loaded, so that a reset by an administrator in between is overwritten;
approval, rejection and disabling race, and the last commit wins.  Avatar, default data source, last login
and audit log are not modelled.

## 13. Findings

* `lifecycle_retry`: the verdict of a retry looks at logged batches only; batches that never ran are
  missing from a task that reads SUCCESS.  In the trace one of two batches is logged as a success, an
  exception ends the run before the other is submitted, the task is FAILED without a failed log, and
  its retry has nothing to run and recounts.
* `scene_stop`: the status ABORTED of a scene is overwritten by its scheduler.

The sections above list, under "what the code does not promise" and "does not ensure", what the
properties exempt for the same reason.

## 14. Proofs

### `BatchRunProofs`

For every number of tables, synchronisations, rounds, batches, threads, retries and lost answers
that satisfy the assumptions `SizesAssumption`, `LimitsAssumption` and `TablesAssumption`:

* `TypeCorrect`, the state keeps its shape;
* `VerdictsHold` with its parts `SuccessIsComplete` and `VerdictIsQuiet`, and `RowsAreTrue` with its
  parts `LogsAreTrue`, `MainBeforeDependents` and `CancelledAreClean`;
* `StatisticsAreTrue` with its part `RowsAllCounted`;
* `ContractIsKept`, the refinement `Spec => Contract!Spec`: with those above, all properties of the
  run but termination.

None of these is inductive.  `IInv` adds: what a future's state says about its result and position
(`ForwardOnly`), what an entry says about rows (`EntriesMatchRows`), that a failed main table ends a
batch (`MainFirst`), that a batch logged with a failed entry shows in `fail` of its round
(`FailuresCounted`), that rounds are run one after the other and an unstopped round is
submitted to its last batch before it ends (`RoundDiscipline`), and what a verdict was computed from
(`VerdictEarned`).  `SuccessIsComplete` then follows: no failures in any round, all batches of all
rounds logged (an unstopped round has no cancelled batch), hence only entries that are "ok", hence
rows.  One lemma per conjunct and action that can disturb it; the temporal step is PTL.

`StatisticsAreTrue` adds `RowsCounted` (in a round, successes and failures together are the rows
of the logged batches, once per table and synchronisation; in a round that is over, at least every
row of the round once per table, since cancelled batches count as failed) and `CountsShown` (a
success or a failure that is counted is in a log).  The sums are cardinalities of sets of rows: a
step adds one batch, a set that is disjoint from those before.  The theorem assumes `FailPct < 100`,
that is `FAIL_RATE_THRESHOLD` below 1.0 (its default is 0.5, `config.py:80`): at 1.0 a task all of
whose rows failed is not above the threshold, and "partial" would not mean mixed.

`ContractIsKept` is under the same hypothesis, as a partial verdict of the contract has something in a
log and something missing.  `ContractStep` has a lemma for each step that can be seen: `InsertSeen`
(with `AtWork`: a thread at work is on a batch of the task, and the task is running), `RecordSeen`, `FinalizeSeen` and `UnwindSeen`; the steps of the threads and of the main
thread that leave rows, logs and status alone stutter (`WorkerSeen`, `Unseen`).  The one new invariant
is `SyncsLast`: a synchronisation succeeds only in a batch all of whose tables did.

### `MetadataSyncProofs`

For any tables, workers, servers and number of events (`ServersAssumption`, `BoundAssumption`):
`SyncTypes`, and all properties of `metadata_sync`: `SyncsExclude`, `MarkedIsServed`, `ReadsAreTrue`
with its parts `CachesAreFaithful` and `RedisAgrees`, `RowsAreOwned` with `NoRowsAreOrphaned` and
`DeletionIsComplete`.  `IInv` adds that a
worker that collects has an engine (`PoolThere`), that the lock is set while a worker that took it goes
on (`LockGood`, without which `OneSync` is not inductive), and two facts about a worker that is alone:
the names it compares with are those that are cached (`OldIsCached`), and what it has stored is still
there when it refreshes Redis (`StoredIsCached`).  `CommitFacts` derives from the first what a commit
stores; the caches, the orphans and the second follow from it, and Redis from the second.

### `TaskLifecycleProofs`

For any batches, any finite set of retry threads and any number of requests and crashes
(`ProcessesAssumption`, `BoundsAssumption`): `TaskTypesHold`, `RowsAreAccounted`, `WritersExclude`,
`RequestsAreHonoured`, all properties of `lifecycle` but liveness.  `TypeOK` is not inductive by
itself: that a rollback deletes copies which are there needs `LogsBound` and `Books`, which is
`RowsAccounted` with the rows held by runs in the inequality too.  `Books` needs `Apart` (a batch is
run or waits to be logged, not both) and `UnwindIsLost`.  `SoleWriter` follows from `Locked`: without
crashes the message is handled once (`MessageOut`), and between its delivery and the verdict the
status is none a retry is let in by.  `RollbackComplete` follows from `Settled` (without retries a
task that may be rolled back has no more runs) and `Snapshot` (the worker visits every log there is).

### `SceneExecProofs`

For any nodes, layers, strategies, retries, requests and crashes (`LayersAssumption`,
`BoundsAssumption`): `SceneTypesHold`, `LayersAreBarriers`, `StrategyIsHonoured`, `VerdictsAreTrue`,
`RunningScenesAreServed`, all properties of `scene_exec`.  The argument: as long as nobody stops the
scene, a scheduler at work finds it running, so no retry is let in (`Phases`), and what happens is
the scheduler's or its tasks' (lemma `SceneSteps`).  Then what the scheduler reads in Redis and in
MySQL tells the state of a node's task (`Reported`): progress is final only when no worker is on the
node, and behind a final progress the row says what came of it, because the worker writes the row
first.  `Ahead`, `Submitted`, `Awaited` and `Behind` say where a node stands by its layer; lemma
`LayerDone` draws from them that a layer that was waited for has no task left, and `Layers`, from
which the barrier and the strategy are read off, follows from it at the one step that begins a layer.
`VerdictsEarned` is the same lemma applied to all layers.  `RunningIsServed` needs only who is
responsible for a running scene (`Served`), and that a verdict is none of "pending" and "running"
(`VerdictsReady`).

### `RedisGenProofs`

For any batches, rows, threads, limits and failing calls (`SizesAssumption`): `NumbersFollow`,
`RowsAreKept`, `LeftoversAreExplained`.  `IInv` joins `CounterGood` (the numbers handed out are the
interval from the first number to the counter, and pairwise apart), `RowsStay` (`RowsKept` from the
write on, which rests on batches having different keys because their numbers are apart), and for
the rollback `RowsKnown` (where the rows of the task are, and which of them a log names) and
`LookedAt` (a key the rollback has passed is empty, or a log that failed still names it); `Places`
and `StageGood` relate them to the control state.

### `AccountsProofs`

For any users, API keys, tokens, codes, limits and any finite set of requests
(`LimitsAssumption`, `NamesAssumption`): `AccountTypes`, `LockHolds`, `CountersEnd`, `LogoutIsKept`,
`AssignmentsAreWhole`, all properties of `accounts`.  `IInv` adds that a request under way is about
somebody, that the blacklist entry of a logged-out token lives as long as the token
(`Blacklisted`), and that the request that deleted a user's codes is, by the gap locks of MySQL, the
only one that will insert some (`Deleted`).

### `CatalogueProofs`

For any clients, users, groups, names, ids and pools of them (`GroupsAssumption`, `IdsAssumption`,
`RowsAssumption`): `TypeCorrect`, `NamesApart`, `SourcesStay`, `FoldersCount`, `BatchesWhole`, all
properties of `catalogue`.  A request writes what it checked on its snapshot.  The heart of `IInv` is
`Checked`: what a request under way has checked holds of the database as it is, as long as the request
is not stale.  It is inductive because a step that commits makes all other requests stale, and a
step that does not commit leaves the tables alone; at the commit, `Checked` turns into the property,
and a stale request leaves its columns in `late`, which the properties exempt.  `NamesUnique` joins
`IInv` as it is.  `RowsRefer` says that the source and the folder of a row are there (`SourcesStay` is
part of it, `FoldersCount` follows: the counts are those of disjoint sets whose union is all cases).
`SentApart` and `QueuedPending` say that the ids of one batch are distinct and have no rows before
its commit, and that a message in the broker is about a task that waits, from which `SubmittedWhole`
is preserved.

### `GenerationProofs`

How generated rows get their values: three specifications that do not interact, `Generation`,
`IncrCounter` and `Snowflake`.

*Insert order and rows*, for any tables, columns, configurations, batches and failed inserts
(`BoundsAssumption`, `ConfigsAssumption`: a configuration names tables and columns somebody knows):
`TypeCorrect`, `OrderCorrect`, `AcceptedPrepares`, `ForeignKeysHold`, `SamplesAreFed`, all
properties of `generation`.

* The order.  `Placing` is the invariant of the loop in `build_insert_order`: what is placed and what
  is queued are distinct tables, the queue is made of those whose sources are all placed, and a
  placed table comes after its sources.  `PlacingInit` and `PlacingStep` show it of the first queue
  and of one round.  A recursive function over numbers needs two inductions, that it exists
  (`RoundsExist`) and that every round keeps `Placing` (`RoundsPlace`); they are done in the form of
  sets (`AllNumbers`: a set with 0 and the successor of each of its elements has all numbers, from
  the well-foundedness of < on the numbers).  After as many rounds as there are tables the queue is
  empty; then what was never placed are tables that each have a source among themselves, a cycle
  (`OrderedCyclic`).
* The rows.  `IInv` follows an attempt: what is left to insert is in insert order and has not
  succeeded (`TodoInv`); rows are as they were generated, and a row of any table has a log "ok" for it
  and for the main table (`RowsInv`); a batch has one row of a table (`OnceInv`); rows of the attempt
  were made after their sources were passed (`AfterInv`); a log "ok" has its row (`LogInv`); what is in
  memory is of passed tables and is in the database if their insert succeeded (`MadeInv`); what was
  passed and is not in memory was refused, or is "ok" from an earlier attempt (`PassedInv`); what
  saving and preparing checked stays true (`Settled`).  `ForeignKeysMatch` is preserved by `MadeInv`
  when the source is in memory and by `RowsInv` when it is sampled.  Every action is first summed up
  as an `Effect` on one table, then there is one lemma per conjunct.

*The counter of a column*, for any runs, batches and sizes (`RunsAssumption`, `SizeAssumption`):
`CounterTypeCorrect`, `NumbersAreWhole` with its parts `RowsAreDistinct` and `NoNumberSkipped`, and the
refinement `CounterGrants` (`IncrSpec => NumberGrants!Spec` under the mapping `Granted`).  `CounterInv`
adds that the ranges reserved in the present life end at or below the counter (`BelowCounter`) and are
pairwise apart (`Apart`), that a key with a life time exists and every run of the first life finds it
at or above the start value (`KeyThere`), and that the ranges of the first life fill the interval
below the counter (`Filled`).  The refinement needs `BelowCounter` for the expiry (no reservation
belongs to the next life) and `Apart` after the step for a reservation (the new range meets no
granted one).

*Snowflake numbers*, for any threads, processes, sizes of the fields and bounds (`BitsAssumption`):
`GeneratorTypes`, `NumbersIncrease`, `NumbersAreUnique`.  Lemmas `Later`, `SameTime` and `MachineBits` say
that a number is ordered by time, then by machine and sequence, and tells its machine.  `IdInv`: the
lock is held inside `next_id` (`Locked`), the newest number is made of the last timestamp and the
sequence (`NewestKept`), the one about to be issued is larger (`NextIsLarger`), and while the clock was
not set back, earlier lives of a process used earlier milliseconds (`InThePast`, `NewestIsLargest`);
numbers carry the bits of their process until it restarts (`Marked`).

### Not proved

Model-checked only: `Termination` and `WorkEnds` (liveness), `StoppedStays` and `SuccessIsWhole` (they
do not hold).  `RedisGen!TypeOK`, which no run checks, is proved only in the part the other theorems
need (`Shape`).

## 15. Bounds and what is left out

Bounds are constants named in the modules: `MaxEvents` (requests and crashes together),
`MaxRetries`, `MaxLost`, `MaxFaults` (lost answers and failing calls), `MaxBatch`, `MaxTime`,
`MaxBack`, `MaxRestarts` (the clock and its processes), `MaxPw`, and `Pools` of ids.  The proofs are
about every value of the constants that satisfies the named assumptions, and do not depend on the
sizes; `BatchRunProofs` needs that tables are inserted sources first (`TablesAssumption`), which
`engine/dep_analyzer.py` provides and `Generation` checks, `TaskLifecycleProofs` and `AccountsProofs`
that retry threads and requests are finitely many.  Left out: wall-clock time (a time limit is a step
that may happen at any moment), the content of rows and notifications, and the components marked so in
the inventory.
