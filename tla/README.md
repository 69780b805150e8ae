# Verification of HiveSync

HiveSync is one Python process (FastAPI, SQLite, `rclone` as a subprocess) that
keeps pairs of directories in sync: one way, both ways (bisync), on a cron line
or continuously. Its runs delete files, so what matters most is that two of them
never work on one job at a time, that a run's record tells what happened, that
what a run removed can be had back, and that a run which was started is seen to
its end. This directory holds TLA+ models of the parts that decide this, the TLC
runs that check them on small instances, and proofs that hold for every size.
Line numbers refer to `src/`.

## The system's parts

| part | state | operations | hard behaviour | correct if | module |
|---|---|---|---|---|---|
| run rows and jobs (`models/job.py`, `db.py`) | `job`, `job_run`, partial unique index on queued/running | insert, update, cascade delete | sessions never re-read a row, commits write `WHERE id = ?`, SQLite gives ids out again | one active row per job | RunLifecycle |
| live runner (`jobs/runner.py`) | thread pool, `_active` registry of rclone children | `submit`, `run_now`, `cancel`, `shutdown`, `resize` | cancel, delete, crash between any two commits of `run_now`; a pool replaced under a submission | no double run, every run ends, outcome final, what is created begins | RunLifecycle, Pools |
| what a run tells (`jobs/runner.py:575-857`, `engines/parsers.py`) | the lines absorbed, the row's counts, the table of changes | `_absorb`, `_record`, `_record_bisync`, `_prune_quiet_cycle` | rclone words one thing in several ways; cut tables; killed runs | counts, table and plan agree with what was done | RunRecord |
| plan runner (`jobs/planner.py`) | thread pool | `create_run`, `submit`, `run_now`, `resize` | shares the row table with the live runner | as above | RunLifecycle, Pools |
| requests (`api/`, `web/__init__.py`) | none of their own | run, force, resync, cancel, create, save, delete, stream, import | check in one statement, act in another; copies of rows | refuse what must be refused | all |
| run broker (`jobs/events.py`) | subscribers, backlog, latest figures, finished ids | `publish`, `finish`, `subscribe` | queues filled outside the lock, bounded | in order, nothing twice, the stream ends | RunBroker, RunStream |
| activity recorder (`jobs/events.py:178`) | latest figures, session totals | `record`, `forget`, `reset_session` | cumulative figures of runs that end at different times, a reset in between | the session shows no more than has moved | RunRecord |
| scheduler (`jobs/scheduler.py`, `cron.py`) | APScheduler's entries, a copy of the job table | `reload`, `_fire`, `_maintain` | reloads that cross, handlers that do not reload, reused ids | fires follow the job table | Schedule |
| watcher (`jobs/watcher.py`) | interval, due time, cycle start per job | `tick` | change seen through surviving rows only; a pass that ends in an exception | backs off only when quiet, forgets no job | Watcher |
| brake and engines (`engines/`) | none | plan, parse, `resolve_max_delete`, build commands | rounding, truncated output, stale plan | never deletes more than was agreed | Brake |
| bisync (`engines/bisync.py`, `runner.py:228`) | `bisync_initialized`, work directory | run, resync, pre-flight | crash between commits, lost directory | never resyncs by itself | Brake |
| archive, restore, retention (`jobs/archive.py`, `restore.py`, `retention.py`) | archive directories, the paths in run rows, run history | plan, prune, list, restore | settings change under all three, one slug for two jobs, a pass that acts on a plan | nothing is lost before its retention ran out, restored files come home | Upkeep |
| connections, credentials, presets (`api/`, `web/`, `probe.py`) | rows, pinned host keys, probed capabilities | test, trust, forget, edit, delete, use | handlers that work on a copy for seconds | trust only what was approved, no dangling reference | Connections |
| import (`portable.py`) | - | presets, connections, jobs, preferences in one session | what is added is not seen by what comes next | what the document says is what is made | Connections, Schedule, Pools |
| preferences (`preferences.py`) | the settings table | load, save, apply | several writers, one of which applies | the pools follow what is set | Pools |
| startup and shutdown (`main.py`) | - | `_release_interrupted_runs`, `lifespan` | crash at any point | no job stays blocked | RunLifecycle, Pools, Schedule |
| login limits, sessions, setup (`ratelimit.py`, `security.py`) | attempts, users | check, record, clear, first admin | - | the limit holds; one first account | - |

They meet in three places: the rows of SQLite, the executors' queues, and
`LiveRunner._active` with the broker next to it. Requests, scheduler threads and
the watcher create rows and submit their ids; a worker takes an id, loads row and
job once, plans, spawns rclone, registers it, reads its output and records the
outcome; a cancel writes the row and then looks into the registry. The scheduler
and the pools hold copies of what the tables say (entries, a number of threads),
which some of the tables' writers refresh and others do not. Archives outlive the
rows and jobs that explain them.

`PROJECT.json` lists every component, and under `hazards` everything here that
is hard to test, with the properties that cover it or a note on why none does.

## The modules

Each module has one subject and says of the others' only what its own needs: a
run is its life in `RunLifecycle`, a queue entry in `Pools`, a thing that is
active and ends in `Watcher` and `Schedule`, a series of moved files in `Upkeep`,
and what it did and told in `RunRecord`. The operators marked "Mutant" are
plausible errors in the definition that follows them; no specification uses them.
Variables marked "history" are only there to state properties.

### RunLifecycle: the life of a run

State: the rows (`status`, `jobOf`, by run id), the `jobs`, the request threads
(`step`, `held`, `doomed`), the pools' `queue`s, the workers (`pc`, `run`,
`work`), their rclone (`proc`), the registry (`active`), the rclone processes no
worker waits for any more (`orphans`) and the `phase` of the process.

One action is one commit, one locked section or one system call, because the
code's sessions (`expire_on_commit=False`, `autoflush=False`) never look at a
row again between them and an UPDATE is `WHERE id = ?`:

| code | actions |
|---|---|
| `create_run`, then `submit` | `CreateRun`, `Submit` |
| a cron fire that meets a conflict | `RecordSkip` |
| `cancel_run`: read, commit, `LiveRunner.cancel` | `CancelRead`, `CancelCommit`, `CancelStop` |
| `DELETE /api/jobs/{id}` | `ApiDelete` |
| the delete form: look, delete | `FormDeleteCheck`, `FormDeleteCommit` |
| `prune_runs` | `PruneRuns` |
| `run_now` of either runner | `Take`, `MarkRunning`, `PlanFails`, `DryRunEnds`, `PlanCleared`, `Spawn`, `Register`, `CommitCommand`, `Record`, `PruneQuietCycle`, `Close` |
| `_guarded` | `UnexpectedError` |
| `StreamingProcess` and rclone | `Signal` in `CancelStop` and `Shutdown`; `ChildExits`, `OrphanExits` |
| `lifespan`'s exit, the container's end, `_release_interrupted_runs` | `Shutdown`, `ClosePools`, `Crash`, `Startup` |

Abstracted: what a plan or rclone says is a choice of outcomes; whether a
continuous cycle moved anything is a choice in `PruneQuietCycle`; a row is its
status and its job. A commit on a row that is gone raises (`StaleDataError`) and
leads to `run_now`'s `finally`; the unique index refuses a worker's commit as
well as an insert. A new row gets the largest id in use plus one, so ids come
back after their row was deleted. Bisync differs in what it counts, not in these
steps, apart from the commits of its mark, which `Brake` has. A crash leaves no
rclone: the container takes its processes with it.

`MCRunLifecycle` adds the symmetry of threads.

### RunBroker and RunStream: the output of a run

`RunStream` is the promise to a watcher: each kind of output in order, nothing
twice, no end before the run's end. `RunBroker` is `jobs/events.py` step by step
with the worker that publishes and the request that subscribes: the locked
sections of `publish`, `finish` and `subscribe`, every `put_nowait`, the
dropping and the retry on a full queue, the two calls of `finish` after an
unexpected exception. `Incarnations` are the runs that get the same id one after
the other (one in the run `stream`: the second's stream ends at once, see below).
`StreamAsPromised` is the refinement (`sent` of the first incarnation, `over` once
its outcome is known). Lines, statuses and "done" share the backlog and are one
kind ("log"). The bound on remembered finished ids (500)
is not modelled as exceeded.

### Brake: how much a run may remove

State: the job's kind, percentage and first-sync mark; bisync's `listing`; per
side the `files` a percentage is taken of and those that are `gone` and would be
removed; the refusals on record; and of the run its percentage (`share`), its
approval, what it counted (`base`), what its dry run came to (`pending`), what of
that was captured (`seen`), what rclone lets itself remove (`limit`) and did.
`FilesChange` may come between any two of these steps:

| code | actions |
|---|---|
| a run, "Run anyway", First Sync | `Run`, `ForceRun`, `FirstSync` |
| `_run_phases`: `check`, then the dry run of `operation_for`; `process.run` | `Check`, `DryRun` |
| `_preflight`, errors and the sentinel | `PreflightRefuses`, `PlanFails` |
| the live one way run with `--max-delete` | `SyncStarts`, `Remove`, `SyncEnds` |
| `_execute_bisync`: the mark, `_bisync_preflight` | `NotInitialised`, `BisyncPreflight`, `ResyncStarts` |
| the real bisync run | `BisyncNeedsResync`, `BisyncAborts`, `BisyncStarts`, `Remove`, `BisyncBreaks` |
| a resync and its two commits | `ResyncEnds`, `RecordResync` |
| the operator, the volume, the container | `EditPct`, `LoseWorkdir`, `Crash` |

A file is one of a number; copying is part of `FilesChange`. rclone is modelled by
what the code and its comments say of it: `--max-delete` is a count for `sync`,
enforced while it deletes, and a percentage per side for `bisync`, decided before
it starts. `kind` is fixed: an edited direction or delete mode takes effect with
the next run, like a job of that kind. One run at a time: that two may overlap is
`RunLifecycle`'s subject.

### Pools: how many runs at once

State: the preference (`stored`), the settings form and what it is to apply
(`form`, `want`), `LiveRunner._pool` and `_max_workers` (`pool`, `size`), and per
executor its threads (`cap`), whether it takes work (`open`) and its `queue`; of
each run where it is (`state`, `where`).

| code | actions |
|---|---|
| the settings form: `save`, `_apply_concurrency` | `SaveForm`, then `Swap` and `ShutOld` |
| `LiveRunner.resize`: the new pool under the lock; `old.shutdown(wait=False)` | `Swap`; `ShutOld` |
| `PATCH /api/settings`; an import's preferences | `PatchSettings`; `ImportPreferences` |
| `submit`: the attribute, then `executor.submit` | `ReadPool`, `Submit` |
| the executor's threads | `CreateRun`, `Begin`, `End` |
| a cancel of a run no pool has | `CancelStranded` |
| `shutdown`, the interpreter's exit, a crash, `create_app` | `Shutdown`, `Exit`, `Crash`, `Startup` |

`PlanRunner`'s pool is the same code and is resized by the same form. The form
holds the event loop, so only one is under way.

### Schedule: when jobs run by the clock

State: the job `table` as far as the scheduler reads it, the scheduler's `entry`
per job and its maintenance entry (`upkeep`), each request's place in `reload`
(`edit`, `copy`), a `fire` that has read its job, and whether a run is active
(`busy`).

| code | actions |
|---|---|
| `POST /api/jobs` and the form, the save form, `PATCH`, both deletes, both imports | `CreateJob`, `SaveJobForm`, `UpdateJob`, `DeleteJob`, `DeleteJobForm`, `ImportJob` (all of them a `Commit`) |
| `reload`: the query, `remove_all_jobs`, `_register` and the maintenance entry | `ReadTable`, `RemoveAllJobs`, `Register` |
| `_fire`: the job read again; `create_run` | `FireReads`, `FireStarts` |
| other runs | `RunStarts`, `RunEnds` |
| the end and the start of the process | `Crash`, `Startup` |

When a trigger fires is APScheduler's business and any moment here. A save in the
browser is a coroutine that does not yield between commit and reload; API handlers
and the delete form run on threads. What `JobBase` refuses a form cannot store; an
import stores it (`ImportJob` may bring a line no trigger can be built from).

### Watcher: continuous mode

State: per job its `interval` and what is left of the `wait` (`_due`), whether
`_cycle_started` holds a time (`stamped`), whether a finished row is younger than
that (`left`, and `fading` for a quiet cycle's row that is about to be pruned), the
active `run`; of the watcher where its pass is (`at`, `todo`, `cur`, `changed`).

| code | actions |
|---|---|
| `tick`: the query, forgetting jobs that left, `_due` | `Wake`, `PassOver`, `Rest` |
| `_changed_since` | `Ask` |
| `next_interval`, `_cycle_started = utcnow()` | `Stamp` |
| `_start`: `create_run`, `submit`, and the exceptions of both | `Start`, `WatcherSubmits`, `FindGone`, `AbandonPass` |
| a run's life | `RequestRun`, `Begin`, `Finish`, `PruneQuietCycle` |
| operators | `JobEdited`, `JobDeleted`, `JobCreated` |

Waits are counted down in ticks, so the clock needs no bound.

### Upkeep: archive, retention, restore

State: the clock, each `job`'s settings as far as they say where files are archived
and for how long, the `live` trees, the `archive` (which directory, file, version),
the `rows` that name archive directories with the settings they were made from,
each job's `run`, what a maintenance pass has planned to remove (`doomed`) and the
`restore` under way. A file's content is a number given once, so that a lost
version can be told. Two jobs whose names come to one slug share a directory, and
archive over each other (`ArchivedOver`) when they run in the same second.

| code | actions |
|---|---|
| `archive.plan_for`, `archive_dirs` committed, rclone with `--backup-dir` | `Begin`, `Carry` (`MoveAside` external), `End` |
| `retention.plan`, `plan_archive`; a stamp that `strptime` refuses | `PlanPass`; `PassRaises` |
| `prune_archive`, a failing `rmtree`, `prune_runs` | `RemoveTree`, `RemoveFails`, `EndPass` |
| `why_not`, `list_archived` and the operator's choice; `restore_file` | `StartRestore`; `RestoreFile` |
| saving and deleting a job | `EditJob`, `DeleteJob` |

### Connections: what jobs are made of

State: the tables (`conn` with place, credential, `keys`, `trusted` and the probed
`capabilities`; `credential`, `preset`, `job`) and of each request what it has
loaded (`req`). `Commit` is a transaction under `ForeignKeys`; `Flush` is the
UPDATE SQLAlchemy makes of a loaded row: the columns that differ from the copy.

| code | actions |
|---|---|
| the load of a handler, and what it checks at once | `Load`, `LoadTrust`, `LoadEdit`, `LoadDelete`, `LoadDeleteCredential`, `LoadDeletePreset`, `LoadJob`, `LoadImport` |
| `probe.test_connection` and the commit of its result | `Test` |
| `trust_host_key`, forgetting a key | `Trust`, `Forget` |
| `update_connection` and the form | `Edit` |
| deletes | `Drop`, `DropCredential`, `DropPreset`, `DeleteJob` |
| creating or saving a job with its links | `SaveJob` |
| `import_document` | `Import` |
| inserts | `CreateConnection`, `CreateCredential`, `CreatePreset` |

`Places` are what a connection may point at, `Identity` is the tuple the code
compares (type, host, port, share), `Offered` the host keys a server may answer a
scan with, before and after it was rebuilt.

### RunRecord: what is told of a run

State: two trees (`src`, `dst`), the worker's place (`at`), the plan's `presence`
and `plan`, what was read off rclone's log (`observed`), the `row` and its table of
`changes` (a set: of the order only what the cut at `MAX_PERSISTED_CHANGES` leaves
matters, see `Earlier`), and the recorder's `latest`, `counted` and `session`. A second run only
reports progress.

| code | actions |
|---|---|
| `_run_phases`: `rclone check`; the dry run and `_reconcile` | `Check`; `DryRun`, `PlanEnds` |
| rclone, and `_absorb` on the lines of each file | `Begin`, `CopyFile`, `RemoveFile`, `LeaveFile`, `FileError`, `Exit` |
| a stats record, `ActivityRecorder.record` | `Stats`, `OtherStats` |
| `_record`, `_record_bisync` | `Record` |
| `_prune_quiet_cycle`, `run_now`'s `finally` | `Prune`, `End` |
| `forget`, `reset_session` | `End`, `OtherEnds`; `ResetSession` |
| users, the other run | `UserEdits`, `OtherBegins`, `OtherMoves` |

rclone is external and logs what the version the image installs logs, as the
parsers and their comments describe it: other words for files above its multi-thread
cutoff, and two lines for a removal that goes to a backup directory.

### The proofs

`RunLifecycle_proofs`, `RunRecord_proofs`, `Upkeep_proofs`, `RunBroker_proofs`,
`Brake_proofs`, `Pools_proofs` and `Connections_proofs` hold the theorems about the
modules they are named after, `Triggers_proofs` those about `Schedule` and `Watcher`
(whose `Init`, `Next` and `Spec` have names of their own for that), see below.

## The runs

| run | instance | shows |
|---|---|---|
| `liveness` | one continuous archiving job, two live workers, one plan worker, one request thread, two ids; cancel, both deletes | `TypeOK`, `OneActivePerJob`, `RegistrySupervised`, `ActiveRowOwned` with everything operators do; `EveryRunEnds`, `RegistryDrains` |
| `nocancel` | two jobs (one continuous, one archiving), two live and one plan worker, two request threads, three ids; unexpected exceptions | `SlotHeldWhileSyncing`, `NeverDoubleRuns`, `FinishedIsFinal` while nobody cancels or deletes |
| `overlap` | as `nocancel`, with cancel | `NeverDoubleRuns` is violated |
| `pools` | two runs, three executors, one or two threads, stop and crash | `TypeOK`, `PoolFollowsSetting`, `CreatedRunsBegin`, `WithinCapInTheEnd`, `StopsInTheEnd` |
| `schedule` | two job ids, one usable and one unusable cron line, two requests, restarts | `TypeOK`, `ScheduleLagExplained`, `MaintenanceKept` |
| `watch` | two jobs, one of which is edited and deleted, intervals of one and two ticks, passes up to two ticks apart, refused submissions | `WatcherTypeOK`, `WidensOnlyWhenQuiet`, `KeepsWatching` |
| `upkeep` | three trees, one path, two versions, three days; a job with three settings that runs twice, and one with the same slug that may run in the same second | `TypeOK`, `NothingLost`, `RestoredHome`, `ExpiredGoes` |
| `connections` | one connection id, an SFTP server with two keys, two remotes the identity cannot tell apart, one credential, preset and job, two requests | `TypeOK`, `NoDanglingReference`, `PinnedAsReviewed`, `ProbeOfThisPlace` |
| `import` | as `connections` | `ImportedWithPresets` is violated |
| `record` | two files, one above the multi-thread cutoff, five kinds of job, one edit by users, a table of two | `RecordTells`, `SessionNeverInflated`, `QuietMovedNothing` |
| `stream` | two watchers, queues and backlog of one, two lines and a progress figure | `TypeOK`, `GapsOnlyFromOverflow`, `StreamAsPromised`, `ListenersEnd` |
| `brake` | jobs of all three kinds, two files a side, 20 and 60 %, room for two captured removals, timeouts | `TypeOK`, `WithinAgreed`, `CapturedExcessRefused`, `CopyNeverRefused`, `InitialisedMeansSynced` |

In `liveness`, `nocancel`, `overlap`, `pools` and `schedule` the process shuts down
or crashes at any moment and starts again. What the other modules keep in memory
does not survive a restart and starts empty, which is their `Init`; what `Upkeep`
keeps survives, and there a crash is an `End` or a `RemoveFails`.

### Bounds, and why they are enough

- `RunLifecycle`: two rows of a job are needed for an overlap, three for a revived
  run next to a running one next to a third; ids return after deletes and quiet
  cycles, so long histories are covered by few ids. Where `HistoryKeep` (at least
  10 in the code, pools have at most 32 workers) is below the number of live
  workers, history can be pruned from under a worker that has committed its outcome, and
  the worker's late drop then hits whatever run has got the id: with one row kept
  and two live workers TLC finds `SlotHeldWhileSyncing` violated. The runs keep as
  many rows as there are live workers, the threshold of the proof. The properties of
  `nocancel` are the ones cancel and delete break; `overlap` shows how.
  `ActiveRowOwned` and liveness are checked without `UnexpectedError`: after one
  the row stays running until the next restart, by design of `_guarded`
  (`runner.py:174`), and the job waits.
- `Pools`: a submission, a resize and a second resize need three executors; two
  runs are enough for one to wait behind the other, and ended runs are created anew.
- `Schedule`: two requests are what two reloads need to cross; with two ids a job
  is deleted and its id given to another while a fire or a reload still has it.
- `Watcher`: two jobs, so that a pass has one to abandon; `Floor` 1 and `Ceiling` 2
  give a doubling and its limit. Only one job is edited, since the other has to stay
  watched for `KeepsWatching` to ask anything.
- `Upkeep`: three days are a stamp, its last day and the day it is due; a retention
  of one or two days, a moved base, other endpoints and the suffix layout are the
  settings that tell the cases apart. Two runs of one job are one that archives and
  one that may meet what it left; the other job runs in the second of the first of
  them. Two versions, what was there and what replaced it, are what it takes for one
  to be archived over the other. One row is kept, so that history goes before
  archives do.
- `Connections`: two requests are the one that works on a copy and the one it
  crosses; what a third could do the first can do before it loads.
- `RunRecord`: a table of two entries is overrun by an archiving bidirectional run
  and just filled by others. `MaxBurst` bounds the bytes of the session; a run that
  ends between two reports of the other needs one byte each.
- `RunBroker`: queues and backlog of one make every put meet a full queue.
- `Brake`: two files a side are enough for a threshold below (20 %) and at (60 %)
  the number of files, for one side to exceed a percentage and both together the
  capture; the proofs do away with the bounds.

Symmetry is used for threads, requests and editors in runs that check no liveness.
In `record` the bounds on edits and on bytes leave a state with nothing to do, and
in `stream` a run that is over leaves nothing: deadlock is not an error there. No
other model stops.

### Fairness

- `RunLifecycle`: request and worker threads that can step do; rclone ends by
  itself or by SIGTERM and at the latest SIGKILL (`process.py:207`); a process that
  is shutting down ends and is started again (the container's restart policy,
  without which nothing runs at all).
- `RunBroker`: the worker's publishing and finishing and the watchers' reading.
  Whether a run ever ends is not the broker's business.
- `Watcher`: its thread goes on, and so does each run, whose end `RunLifecycle`
  shows. `KeepsWatching` excepts a history that deletes jobs for ever: each delete
  may end one pass.
- `Pools`: the form finishes what it began, executors begin what they hold while a
  thread is free, runs take their steps, and the interpreter exits once its threads
  have. `WithinCapInTheEnd` is about histories in which the number is left alone
  from some time on.
- `Upkeep`: the nightly pass comes and ends (`schedule` shows that its entry is
  kept), and a directory that could be removed infinitely often is (strong, because
  `rmtree` may fail on some nights).

Nothing makes an operator act, a run be created, or the process crash.

## What the checks found

- **A cancel lets a second run start beside the first** (`overlap`). `cancel_run`
  commits `cancelled` (`api/jobs.py:347`), which frees the job's slot, before its
  rclone has stopped. While the worker still plans there is nothing in the
  registry, so the cancel is lost as well and the sync goes ahead.
- **An import drops the presets it brings** (`import`). `import_document` looks the
  presets up (`portable.py:182`) in a session that does not flush by itself, so the
  ones it has just added are not found; the jobs are created without them and sync
  files the preset would have excluded. The test of the round trip passes because
  its sessions flush.

The properties that hold are stated so that they say what does not: the exceptions
in `ScheduleLagExplained` (handlers that do not reload, reloads that crossed),
`PinnedAsReviewed` and `ProbeOfThisPlace` (a request that finishes on an old copy),
`PoolFollowsSetting` (writers other than the form, a restart), `CreatedRunsBegin`
(a submission that met a replaced pool), `NothingLost` (two jobs of one slug under
one base, of which one prunes or archives over the other's files) and `RestoredHome`
(endpoints that changed, files the other of these jobs archived) are all reached; without any
one of them the property is violated.

### What reading and earlier checks showed

These have no run of their own.

Runs and their streams:

- A cancelled run comes back: `run_now` writes `running` without looking
  (`runner.py:192`), and `_record` overwrites what the row says.
- A job can be deleted under a starting run: the form's check and its delete are
  separate (`web/__init__.py:1689-1699`).
- A stream that never ends: a watcher that subscribes between the two locked
  sections of `finish` (`events.py:100-108`) waits for ever when the run failed.
- A stream that ends at once: the id of a deleted quiet cycle is given to the next
  run, but `_finished` remembers it (`events.py:127`).
- A run whose submission met a pool being replaced stays queued, and its job blocked,
  until it is cancelled or the process restarts. The stored number of concurrent runs
  is not applied at startup, nor by `PATCH` or an import. A draining pool starts what
  is in its queue after a shutdown began.

The brake:

- An emptied source can pass the pre-flight: a dry run's output is cut at
  512 * 1024 characters (`process.py:78`), and the deletions are counted in what is
  left. A line about a deletion takes some 240 of them: with the default 20 %, a
  destination of more than about eleven thousand files is no longer refused. The
  live run then stops at `--max-delete`, as `WithinAgreed` says, but after removing
  that many. A dry run that hits its timeout has the same effect.
- An approval of a bidirectional run is a switch: `--force` lifts rclone's
  percentage, and files that go missing after the dry run are removed as well
  (`runner.py:282`, `:359`).

What a run tells:

- A bidirectional archiving job is refused by `JobBase` (`schemas/job.py:90-97`) but
  stored by an import (`portable.py:258-308`), which validates nothing; the table of
  such a run lists what was archived twice (`runner.py:808`).
- The table is cut at its first entries, so deletions go first (`runner.py:651`).
- With a backup directory a replaced file may be logged, and counted, as new.
- `applied_as_planned` compares numbers, not files. A run ended by a signal is
  recorded as cancelled whoever sent it.
- `_prune_quiet_cycle` drops any quiet live run of a continuous job, one started by
  hand included. The session is cleared when the last run that has *reported* ends,
  although one that has not yet reported may be at work.

The watcher and the scheduler:

- A job whose cycles fail never backs off, since the failure's row counts as a change
  (`watcher.py:14` says a quiet job does). A job's first look doubles its interval
  already. A run that ends between the question and the stamp is seen by no cycle. A
  lost run ends the job's cycles. `should_keep` (`watcher.py:79`) is not used.
- `PATCH /api/jobs/{id}` and the API's import do not reload the scheduler; two reloads
  that cross may leave the older table registered until the next one.

Archives:

- The archive on the source side of a bidirectional job is never pruned; neither is
  what a renamed job, or one with another base or layout, left under the old name.
  Where both its ends are local and a base is chosen, both sides share a directory.
- Two jobs whose names come to one slug under one base prune each other's archives,
  each by its own retention, list each other's files, and archive over each other
  when they run in the same second.
- A directory named like a stamp with an impossible date makes every pass raise, and
  the settings page with it. A pass acts on its plan though settings change meanwhile.
- A restored file goes to where the job's endpoints are now.

Connections, settings, import:

- A test that crosses an edit or an approval writes over the newer columns; an
  approval that crosses a forget leaves a connection trusted without keys, which
  means unchecked. Editing the host leaves the keys pinned.
- What tells whether a connection points somewhere else (type, host, port, share)
  misses a remote's name and back end: the probe of another remote stays.
- Deleting a credential or preset that something has just started to use, in the
  browser, and an import whose names were taken meanwhile end in an unhandled
  `IntegrityError`. A custom preset with the name of a new built-in one stops the
  start (`filter_presets.py:84-101`).
- One invalid row among the preferences makes all of them their defaults, which the
  next `PATCH` saves. Two saves that overlap lose one of the changes.

## What is proved

TLAPS checks all proofs. They hold for any sets of jobs, workers, requests, files,
places and keys and for any value of the bounds, from the assumptions the modules
name, which only say of what kind a constant is (`ConstantsAssumption`,
`BrokerAssumption`, `WatcherAssumption`); where a theorem needs more its statement
says so. Each inductive invariant was checked by TLC on the instance of the module's
run before it was proved.

`RunLifecycle_proofs`, whatever operators do: `TypeOK`, `OneActivePerJob` and
`RegistrySupervised`. The types alone are not inductive: `Typed` adds what a
worker past its first step holds (a run, a job, a child only if it is a live
worker) and what a request holds. With it, each of the two others is inductive:
every write of a status either adds no active row, or is guarded by the unique
index; and a worker leaves the states in which it may be registered only through
`Close`, which clears the registry. Then `ActiveRowOwned` (`RowsOwned`) where no
worker meets an exception it does not expect: the request that inserts a row has
it, and from there a row leaves an owner only to the next one or with an outcome.
The hypothesis `~MayFault` is needed, since `_guarded` leaves such a row running.

While nobody cancels or deletes (`Undisturbed`): `SlotHeldWhileSyncing`,
`NeverDoubleRuns` and `FinishedIsFinal`, with crashes, unexpected exceptions,
pruned history and continuous jobs. The argument is ownership: every run a thread
still has to see to has a row in the state that thread expects (`Claims`), no run
is in two places (`Unique`: one request, one place of one queue, or one worker), an
abandoned rclone has a running row that no thread holds (`OrphanRows`). A child
is alive only while its worker holds such a run, so its job's slot is taken, and
by `OneActivePerJob` there is only one.

A quiet cycle's row is deleted by id, after its outcome was committed; by then
pruning may have deleted it and SQLite may have given the id to another run. That
this does not happen is `Settled`: a row a worker may still drop is finished and
no other worker's, or it is gone and a newer finished row exists that no worker
may drop, so the id cannot come back. Its lemma (`Survivor`) counts: what made the
row prunable are at least `HistoryKeep` newer rows that stay, and the other live
workers are fewer. So the theorems ask for at least as many rows kept as there are
live workers, or for no continuous job (`FewWorkers`). As installed that is 200
rows against 3 workers, but the settings also allow 10 rows and 32 workers.

`Upkeep_proofs`: `TypeOK`, `NothingLost` and `RestoredHome`. The invariant ties
three records of the present second together: whatever has its stamp (an archived
file, a run, the row of a restore) has a row for as long as its job is there
(`Stamped`), because history keeps the newest row and a deleted job never runs
again. So the guard against a second run within a second also protects the
archive: nothing is in the way of what a run moves aside (`Unhindered`), and a row
tells of the run that filled its directory (`Telling`). What a pass removes it
planned by a retention that had run out (`Rightful`). None of this
asks that jobs keep apart: of two that share a directory and run in one second each
may archive over what the other has, and only that (`ArchivedOver`), and what one
restores may be what the other archived.

`RunBroker_proofs`: `TypeOK` for any number of incarnations, watchers and sizes;
and for a run whose id is not given out again (`Incarnations = 1`) the refinement
`StreamAsPromised` and `GapsOnlyFromOverflow`. `OrderInv` says of a watcher that
what it has been served and what is in its channel, in that order, are numbers
that rise within each kind and were published, that an event the worker has under
way is newer than all of them and goes to it at most once, and that a sentinel is
only there when the outcome is known. `GapInv` adds that the log's numbers in the
backlog, and what a watcher has and will get of it, are without gaps until a queue
overflows. With a second incarnation the numbers start anew, and its stream ends at
once (see above), so neither would be true.

`Brake_proofs`: all five properties of `brake`. `BrakeIsLeast` says what
`resolve_max_delete` returns: the least positive count that is not below the
percentage (up to the size where Python's division rounds, 2^53). The invariant
`Bounded` is what makes `WithinAgreed` inductive: a run that plans has removed
nothing (`Fresh`); one way, rclone's limit is the threshold for as long as it
works, and a captured excess never gets that far (`OneWay`); both ways, what rclone
set out to remove was within the percentage when it looked (`BothWays`).

`RunRecord_proofs`: `RecordTells`, `SessionNeverInflated`, `QuietMovedNothing` and
`TypeOK`, for any finite set of files, any room in the table and any edits by users.
The invariant `RecordInv` is `Typed`, `Told` and `SessionCovered`. `Told` follows a
run file by file: the log has one operation for each file something was done with,
and it tells what (`LogTells`); rclone comes to every file once (`OnceEach`); of the
files it has yet to come to the plan says what it will find, of the others what it
did (`PlanStands`, as long as nobody changed a tree); and rclone's total lags behind
what was moved until it ends by itself (`BytesLag`). The counts then are the sizes
of sets between which naming the file is a bijection (`OpsCounted`), and the table
has room for every operation where the counts together fit (`RoomForAll`: the
doubles of an archiving bidirectional run come last). `SessionCovered` adds what
each run has moved and not reported (`Unaccounted`): the session and that together
have moved since the burst began. It needs that what is counted of a run is what it
last reported, which is part of `TypeOK`. A reset keeps it because it counts what
was reported; the end of a run, because the session goes with the last run that had
reported anything.

`Triggers_proofs`, of `Schedule`: `TypeOK`, `MaintenanceKept` and `ScheduleLagExplained`. The
maintenance entry is missing only while some reload is between its second and its
third step. A reload that no other has crossed since it read holds what the table
still asks for, but for jobs in `silent` and for requests whose own reload is to come
(`CopyCurrent`), and finds the scheduler empty when it registers (`ClearedEmpty`).

`Pools_proofs`: `TypeOK`, which includes that no pool has more threads at work than
its limit, and `PoolFollowsSetting`. A run is in the queue of one pool, once
(`Queued`), so that beginning it frees a place there and takes one thread; and what
the form has saved and not yet applied is in `want` (`Applied`).

`Connections_proofs`: `TypeOK`, `NoDanglingReference`, `PinnedAsReviewed` and
`ProbeOfThisPlace`. Every write is a `Commit`, which the foreign keys check as a
whole; the two action properties follow from what a copy can differ in from the row
it is written over.

`Triggers_proofs`, of `Watcher`: `WatcherTypeOK` and `WidensOnlyWhenQuiet`. A cycle
that owes something has left a row that the question finds (`OwedIsLeft`), and an
answer that was "no" stands until the stamp (`AnswerStands`).

Only model-checked: all liveness (`EveryRunEnds`, `RegistryDrains`, `ListenersEnd`,
`KeepsWatching`, `CreatedRunsBegin`, `WithinCapInTheEnd`, `StopsInTheEnd`,
`ExpiredGoes`), which under fairness is out of the prover's reach. `TypeOK` of
`RunRecord` is proved and, with the rest of `RecordInv`, was checked on the instance
of `record`; it is not a property of that run.

## The plan

Done: every safety property a run checks and expects to hold is proved, the
refinement of `RunStream` included. What is left, in this order:

1. An abstract specification of a job (a tree from which a run removes no more than was
   agreed, and nothing that is not archived) that `Brake` and `Upkeep` implement.
2. `RunBroker` with more than one incarnation of an id: what a watcher of the second is
   still promised.

## Not modelled, and why

- Login limits, sessions and setup: their handlers are coroutines that do not await
  between a check and its commit, so in the one process there is nothing of theirs
  interleaves; what is left is arithmetic on time stamps, and cryptography.
- Export, previews, pages and the reading API: they change no state.
- `prune_logs`: it removes files no other part reads back, oldest first.
- The parsing of rclone's JSON beyond the messages the counts depend on, the content of
  its configuration beyond pinned keys, filters and comparison flags: data the
  properties do not tell apart, handed on to rclone.
- `BisyncEngine.plan` per file: its plan is shown, the record does not use it.
- The refusals of nested archives: checks of two paths, made when a job is saved.
- Metrics, notifications, health, capabilities, migrations, headers, logging, templates:
  no state that interleaves.
- Speed samples of the activity recorder: derived for display.
