---------------------------- MODULE RunLifecycle ----------------------------
(***************************************************************************)
(* The life of a run: the job_run rows, the requests that create, cancel   *)
(* and delete them, the two thread pools that execute them (LiveRunner and *)
(* PlanRunner), the rclone child of each live worker, and a restart.       *)
(*                                                                         *)
(* Everything runs in one process; the threads share nothing but the       *)
(* SQLite tables, the pools' queues and LiveRunner._active.  A session     *)
(* never re-reads a row it holds (expire_on_commit=False, autoflush=False) *)
(* and a commit writes the assigned columns WHERE id = ?, whatever the row *)
(* says by then, so each step below is one commit or one locked section.   *)
(***************************************************************************)
EXTENDS Naturals, Sequences, FiniteSets

CONSTANTS
    Jobs,           \* the jobs that exist at the start
    ContinuousJobs, \* those the watcher polls; the others may have a cron line
    ArchiveJobs,    \* those with delete_mode = archive
    LiveWorkers,    \* the threads of LiveRunner's pool
    PlanWorkers,    \* the threads of PlanRunner's pool
    Requests,       \* the threads that serve requests, fires and watcher ticks
    Modes,          \* the modes in which runs are requested: "live", "plan" (a dry run)
    MaxRuns,        \* bound: the largest run id the model hands out
    HistoryKeep,    \* the preference run_history_keep
    MayCancel,      \* whether an operator cancels runs
    DeletePaths,    \* the ways a job is deleted: "form" (web) and "api"
    MayFault,       \* whether a worker meets an exception it does not expect
    NoJob, NoWorker \* "none" in the places that hold a job or a worker

ASSUME ConstantsAssumption ==
    /\ ContinuousJobs \subseteq Jobs
    /\ ArchiveJobs \subseteq Jobs
    /\ LiveWorkers \cap PlanWorkers = {}
    /\ Modes \subseteq {"live", "plan"}
    /\ MaxRuns \in Nat \ {0}
    /\ HistoryKeep \in Nat \ {0}
    /\ MayCancel \in BOOLEAN
    /\ MayFault \in BOOLEAN
    /\ DeletePaths \subseteq {"form", "api"}
    /\ NoJob \notin Jobs
    /\ NoWorker \notin LiveWorkers \cup PlanWorkers

Workers == LiveWorkers \cup PlanWorkers
RunIds  == 1..MaxRuns
NoRun   == 0
Pools   == {"live", "plan"}
PoolOf(w) == IF w \in LiveWorkers THEN "live" ELSE "plan"

Active   == {"queued", "running"}
Finished == {"success", "failed", "cancelled", "skipped"}
Status   == Active \cup Finished \cup {"absent"}

VARIABLES
    phase,    \* "up", "stopping" (lifespan is terminating the children it found),
              \* "draining" (the pools take no more work) or "down"
    jobs,     \* the rows of the job table
    status,   \* job_run.status by id, "absent" where there is no row
    jobOf,    \* job_run.job_id by id
    step,     \* what a request thread does next
    held,     \* the run a request thread holds
    doomed,   \* the job a delete form has checked and is about to delete
    queue,    \* the run ids waiting in each executor
    pc,       \* where a worker is in run_now
    run,      \* the run id a worker was given
    work,     \* the Job object a worker loaded
    proc,     \* the rclone child of a worker
    active,   \* LiveRunner._active: the worker whose child a cancel would stop
    orphans   \* jobs with an rclone no worker waits for any more

rowVars     == <<status, jobOf>>
requestVars == <<step, held, doomed>>
workerVars  == <<pc, run, work>>
vars == <<phase, jobs, rowVars, requestVars, queue, workerVars, proc, active, orphans>>

Steps == {"idle", "submitLive", "submitPlan", "cancelCommit", "cancelStop", "deleteCommit"}
PCs   == {"idle", "loaded", "reloaded", "planning", "cleared", "spawned", "registered",
          "consuming", "recorded", "closing"}
ProcStates == {"none", "running", "signalled", "ok", "error", "terminated"}

Present(id) == status[id] # "absent"

\* Mutant: the index covers queued rows only.
QueuedRow(id, j) == status[id] = "queued" /\ jobOf[id] = j

\* A row the partial unique index covers.
ActiveRow(id, j) == status[id] \in Active /\ jobOf[id] = j
HasActiveRow(j) == \E id \in RunIds : ActiveRow(id, j)
Alive(w) == proc[w] \in {"running", "signalled"}

\* SQLite gives a new row the largest rowid in use plus one, so the id of the
\* newest row is given out again once that row is deleted.
NextId(n) == /\ \A id \in RunIds : Present(id) => id < n
             /\ n > 1 => Present(n - 1)

Init ==
    /\ phase = "up"
    /\ jobs = Jobs
    /\ status = [id \in RunIds |-> "absent"]
    /\ jobOf = [id \in RunIds |-> NoJob]
    /\ step = [r \in Requests |-> "idle"]
    /\ held = [r \in Requests |-> NoRun]
    /\ doomed = [r \in Requests |-> NoJob]
    /\ queue = [p \in Pools |-> <<>>]
    /\ pc = [w \in Workers |-> "idle"]
    /\ run = [w \in Workers |-> NoRun]
    /\ work = [w \in Workers |-> NoJob]
    /\ proc = [w \in Workers |-> "none"]
    /\ active = [id \in RunIds |-> NoWorker]
    /\ orphans = {}

-----------------------------------------------------------------------------
(* Requests, scheduled fires and watcher ticks. *)

Insert(n, j, s) ==
    /\ NextId(n)
    /\ status' = [status EXCEPT ![n] = s]
    /\ jobOf' = [jobOf EXCEPT ![n] = j]

Goto(r, s, id, j) ==
    /\ step' = [step EXCEPT ![r] = s]
    /\ held' = [held EXCEPT ![r] = id]
    /\ doomed' = [doomed EXCEPT ![r] = j]

\* create_run: the INSERT commits unless the partial unique index refuses it.
CreateRun(r, j, m) ==
    /\ phase = "up" /\ step[r] = "idle"
    /\ j \in jobs
    /\ ~HasActiveRow(j)
    /\ \E n \in RunIds :
          /\ Insert(n, j, "queued")
          /\ Goto(r, IF m = "live" THEN "submitLive" ELSE "submitPlan", n, NoJob)
    /\ UNCHANGED <<phase, jobs, queue, workerVars, proc, active, orphans>>

\* A cron fire that met RunConflict leaves a skipped row.
RecordSkip(r, j) ==
    /\ phase = "up" /\ step[r] = "idle"
    /\ j \in jobs \ ContinuousJobs
    /\ HasActiveRow(j)
    /\ \E n \in RunIds : Insert(n, j, "skipped")
    /\ UNCHANGED <<phase, jobs, requestVars, queue, workerVars, proc, active, orphans>>

\* The executor refuses work once it was shut down.  The requests that stamp
\* the row again before they submit (resync, force) give up if it is gone.
Submit(r) ==
    /\ step[r] \in {"submitLive", "submitPlan"}
    /\ LET p == IF step[r] = "submitLive" THEN "live" ELSE "plan"
       IN  \/ /\ phase \in {"up", "stopping"}
              /\ queue' = [queue EXCEPT ![p] = Append(@, held[r])]
           \/ /\ phase = "draining" \/ ~Present(held[r])
              /\ UNCHANGED queue
    /\ Goto(r, "idle", NoRun, NoJob)
    /\ UNCHANGED <<phase, jobs, rowVars, workerVars, proc, active, orphans>>

\* cancel_run: the status is read, then written, then the registry is asked.
CancelRead(r, id) ==
    /\ MayCancel
    /\ phase = "up" /\ step[r] = "idle"
    /\ status[id] \in Active
    /\ Goto(r, "cancelCommit", id, NoJob)
    /\ UNCHANGED <<phase, jobs, rowVars, queue, workerVars, proc, active, orphans>>

CancelCommit(r) ==
    /\ step[r] = "cancelCommit"
    /\ \/ /\ Present(held[r])
          /\ status' = [status EXCEPT ![held[r]] = "cancelled"]
          /\ Goto(r, "cancelStop", held[r], NoJob)
       \/ /\ ~Present(held[r])
          /\ Goto(r, "idle", NoRun, NoJob)
          /\ UNCHANGED status
    /\ UNCHANGED <<phase, jobs, jobOf, queue, workerVars, proc, active, orphans>>

\* StreamingProcess.terminate: nothing if the child has exited, else SIGTERM.
Signal(ws) == proc' = [w \in Workers |->
                          IF w \in ws /\ proc[w] = "running" THEN "signalled" ELSE proc[w]]

CancelStop(r) ==
    /\ step[r] = "cancelStop"
    /\ Signal({active[held[r]]})
    /\ Goto(r, "idle", NoRun, NoJob)
    /\ UNCHANGED <<phase, jobs, rowVars, queue, workerVars, active, orphans>>

\* Mutant: ON DELETE SET NULL instead of CASCADE.
DropJobKeepRuns(j) ==
    /\ jobs' = jobs \ {j}
    /\ jobOf' = [id \in RunIds |-> IF jobOf[id] = j THEN NoJob ELSE jobOf[id]]
    /\ UNCHANGED status

\* Deleting a job deletes its runs: ON DELETE CASCADE.
DropJob(j) ==
    /\ jobs' = jobs \ {j}
    /\ status' = [id \in RunIds |-> IF jobOf[id] = j THEN "absent" ELSE status[id]]
    /\ jobOf' = [id \in RunIds |-> IF jobOf[id] = j THEN NoJob ELSE jobOf[id]]

\* DELETE /api/jobs/{id} looks at no run.
ApiDelete(r, j) ==
    /\ "api" \in DeletePaths
    /\ phase = "up" /\ step[r] = "idle"
    /\ j \in jobs
    /\ DropJob(j)
    /\ UNCHANGED <<phase, requestVars, queue, workerVars, proc, active, orphans>>

\* The delete form looks for an active run first, in a statement of its own.
FormDeleteCheck(r, j) ==
    /\ "form" \in DeletePaths
    /\ phase = "up" /\ step[r] = "idle"
    /\ j \in jobs
    /\ ~HasActiveRow(j)
    /\ Goto(r, "deleteCommit", NoRun, j)
    /\ UNCHANGED <<phase, jobs, rowVars, queue, workerVars, proc, active, orphans>>

FormDeleteCommit(r) ==
    /\ step[r] = "deleteCommit"
    /\ DropJob(doomed[r])
    /\ Goto(r, "idle", NoRun, NoJob)
    /\ UNCHANGED <<phase, queue, workerVars, proc, active, orphans>>

\* prune_runs keeps the newest HistoryKeep finished rows of every job.
Prunable(id) ==
    /\ status[id] \in Finished
    /\ HistoryKeep <= Cardinality({n \in RunIds : /\ n > id
                                                  /\ status[n] \in Finished
                                                  /\ jobOf[n] = jobOf[id]})

PruneRuns ==
    /\ phase = "up"
    /\ \E id \in RunIds : Prunable(id)
    /\ status' = [id \in RunIds |-> IF Prunable(id) THEN "absent" ELSE status[id]]
    /\ jobOf' = [id \in RunIds |-> IF Prunable(id) THEN NoJob ELSE jobOf[id]]
    /\ UNCHANGED <<phase, jobs, requestVars, queue, workerVars, proc, active, orphans>>

-----------------------------------------------------------------------------
(* The workers. *)

At(w, s) == pc' = [pc EXCEPT ![w] = s]

\* run_now's first reads.  A row that already said "running" is not written
\* again by the next commit: its status did not change in the session.
Take(w) ==
    /\ pc[w] = "idle"
    /\ queue[PoolOf(w)] # <<>>
    /\ LET id == Head(queue[PoolOf(w)])
       IN  /\ run' = [run EXCEPT ![w] = id]
           /\ work' = [work EXCEPT ![w] = jobOf[id]]
           /\ At(w, CASE status[id] = "absent"  -> "closing"
                      [] status[id] = "running" -> "reloaded"
                      [] OTHER                  -> "loaded")
    /\ queue' = [queue EXCEPT ![PoolOf(w)] = Tail(@)]
    /\ UNCHANGED <<phase, jobs, rowVars, requestVars, proc, active, orphans>>

\* Mutant: no unique index in the way of the worker's own commit.
MarkRunningUnchecked(w) ==
    /\ pc[w] \in {"loaded", "reloaded"}
    /\ \/ /\ Present(run[w])
          /\ At(w, "planning")
          /\ status' = [status EXCEPT ![run[w]] = "running"]
       \/ ~Present(run[w]) /\ At(w, "closing") /\ UNCHANGED status
    /\ UNCHANGED <<phase, jobs, jobOf, requestVars, queue, run, work, proc, active, orphans>>

\* The commit of status = running.  It fails on a row that is gone and on the
\* unique index; either exception goes straight to run_now's finally.
MarkRunning(w) ==
    /\ pc[w] \in {"loaded", "reloaded"}
    /\ LET id == run[w]
           refused == /\ pc[w] = "loaded"
                      /\ \E other \in RunIds \ {id} : ActiveRow(other, jobOf[id])
       IN  \/ /\ ~Present(id) \/ refused
              /\ At(w, "closing")
              /\ UNCHANGED status
           \/ /\ Present(id) /\ ~refused
              /\ At(w, "planning")
              /\ status' = IF pc[w] = "loaded" THEN [status EXCEPT ![id] = "running"]
                                               ELSE status
    /\ UNCHANGED <<phase, jobs, jobOf, requestVars, queue, run, work, proc, active, orphans>>

\* A commit that ends the run.  On a row that is gone it raises, to finally.
WriteOutcome(w, s, next) ==
    \/ Present(run[w])  /\ status' = [status EXCEPT ![run[w]] = s] /\ At(w, next)
    \/ ~Present(run[w]) /\ UNCHANGED status /\ At(w, "closing")

\* Mutant: an early return that records no outcome.
PlanFailsQuietly(w) ==
    /\ pc[w] = "planning"
    /\ At(w, "closing")
    /\ UNCHANGED <<phase, jobs, rowVars, requestVars, queue, run, work, proc, active, orphans>>

\* The plan failed, or _preflight refused it, or the command cannot be built.
PlanFails(w) ==
    /\ pc[w] = "planning"
    /\ WriteOutcome(w, "failed", "closing")
    /\ UNCHANGED <<phase, jobs, jobOf, requestVars, queue, run, work, proc, active, orphans>>

\* PlanRunner: the plan is all there is to do.
DryRunEnds(w) ==
    /\ w \in PlanWorkers
    /\ pc[w] = "planning"
    /\ WriteOutcome(w, "success", "closing")
    /\ UNCHANGED <<phase, jobs, jobOf, requestVars, queue, run, work, proc, active, orphans>>

\* The plan passed the brake.  An archive job commits where it will archive to.
PlanCleared(w) ==
    /\ w \in LiveWorkers
    /\ pc[w] = "planning"
    /\ At(w, IF work[w] \in ArchiveJobs /\ ~Present(run[w]) THEN "closing" ELSE "cleared")
    /\ UNCHANGED <<phase, jobs, rowVars, requestVars, queue, run, work, proc, active, orphans>>

Spawn(w) ==
    /\ pc[w] = "cleared"
    /\ proc' = [proc EXCEPT ![w] = "running"]
    /\ At(w, "spawned")
    /\ UNCHANGED <<phase, jobs, rowVars, requestVars, queue, run, work, active, orphans>>

Register(w) ==
    /\ pc[w] = "spawned"
    /\ active' = [active EXCEPT ![run[w]] = w]
    /\ At(w, "registered")
    /\ UNCHANGED <<phase, jobs, rowVars, requestVars, queue, run, work, proc, orphans>>

\* The worker leaves its child, if it has one, to itself.
Abandon(w) ==
    /\ orphans' = IF Alive(w) THEN orphans \cup {work[w]} ELSE orphans
    /\ proc' = [proc EXCEPT ![w] = "none"]
    /\ At(w, "closing")

\* command_redacted is committed once the child runs.
CommitCommand(w) ==
    /\ pc[w] = "registered"
    /\ \/ Present(run[w])  /\ At(w, "consuming") /\ UNCHANGED <<proc, orphans>>
       \/ ~Present(run[w]) /\ Abandon(w)
    /\ UNCHANGED <<phase, jobs, rowVars, requestVars, queue, run, work, active>>

\* _record: what wait() returned decides, not what the row says by now.
Record(w) ==
    /\ pc[w] = "consuming"
    /\ proc[w] \in {"ok", "error", "terminated"}
    /\ WriteOutcome(w, CASE proc[w] = "ok"    -> "success"
                         [] proc[w] = "error" -> "failed"
                         [] OTHER             -> "cancelled",
                    IF proc[w] = "ok" THEN "recorded" ELSE "closing")
    /\ proc' = [proc EXCEPT ![w] = "none"]
    /\ UNCHANGED <<phase, jobs, jobOf, requestVars, queue, run, work, active, orphans>>

\* After a success: a continuous cycle that moved nothing deletes its row, in
\* one transaction with job.last_checked_at, so not once the job is gone.
PruneQuietCycle(w) ==
    /\ pc[w] = "recorded"
    /\ \/ UNCHANGED rowVars
       \/ /\ work[w] \in ContinuousJobs \cap jobs
          /\ status' = [status EXCEPT ![run[w]] = "absent"]
          /\ jobOf' = [jobOf EXCEPT ![run[w]] = NoJob]
    /\ At(w, "closing")
    /\ UNCHANGED <<phase, jobs, requestVars, queue, run, work, proc, active, orphans>>

\* Mutant: the child stays in the registry.
CloseKeepsChild(w) ==
    /\ pc[w] = "closing"
    /\ At(w, "idle")
    /\ run' = [run EXCEPT ![w] = NoRun]
    /\ work' = [work EXCEPT ![w] = NoJob]
    /\ UNCHANGED <<phase, jobs, rowVars, requestVars, queue, proc, active, orphans>>

\* run_now's finally.  PlanRunner keeps no registry.
Close(w) ==
    /\ pc[w] = "closing"
    /\ active' = IF w \in LiveWorkers THEN [active EXCEPT ![run[w]] = NoWorker] ELSE active
    /\ At(w, "idle")
    /\ run' = [run EXCEPT ![w] = NoRun]
    /\ work' = [work EXCEPT ![w] = NoJob]
    /\ UNCHANGED <<phase, jobs, rowVars, requestVars, queue, proc, orphans>>

\* Mutant: the handler fails the run, though its child may still be at work.
UnexpectedErrorFailsRun(w) ==
    /\ MayFault
    /\ pc[w] \in {"loaded", "planning", "cleared", "registered", "consuming"}
    /\ Abandon(w)
    /\ status' = [status EXCEPT ![run[w]] = "failed"]
    /\ UNCHANGED <<phase, jobs, jobOf, requestVars, queue, run, work, active>>

\* An exception run_now does not name (no disk space for the log, no process
\* to be had, a locked database): finally runs and _guarded logs it.
UnexpectedError(w) ==
    /\ MayFault
    /\ pc[w] \in {"loaded", "planning", "cleared", "registered", "consuming"}
    /\ Abandon(w)
    /\ UNCHANGED <<phase, jobs, rowVars, requestVars, queue, run, work, active>>

-----------------------------------------------------------------------------
(* rclone, and the process as a whole. *)

\* rclone ends by itself, or because of SIGTERM and at the latest SIGKILL.
ChildExits(w) ==
    /\ Alive(w)
    /\ \E code \in {"ok", "error", "terminated"} :
          /\ code = "terminated" => proc[w] = "signalled"
          /\ proc' = [proc EXCEPT ![w] = code]
    /\ UNCHANGED <<phase, jobs, rowVars, requestVars, queue, workerVars, active, orphans>>

\* An rclone nobody reads loses its pipe and dies, or finishes first.
OrphanExits(j) ==
    /\ j \in orphans
    /\ orphans' = orphans \ {j}
    /\ UNCHANGED <<phase, jobs, rowVars, requestVars, queue, workerVars, proc, active>>

\* lifespan's exit: LiveRunner.shutdown terminates the children the registry
\* holds, for up to fifteen seconds each, and workers go on meanwhile.
Shutdown ==
    /\ phase = "up"
    /\ phase' = "stopping"
    /\ Signal({active[id] : id \in RunIds})
    /\ UNCHANGED <<jobs, rowVars, requestVars, queue, workerVars, active, orphans>>

\* Only then do the pools refuse work and forget what is queued.
ClosePools ==
    /\ phase = "stopping"
    /\ phase' = "draining"
    /\ queue' = [p \in Pools |-> <<>>]
    /\ UNCHANGED <<jobs, rowVars, requestVars, workerVars, proc, active, orphans>>

\* The container stops, at any moment: only the database is left.
Crash ==
    /\ phase # "down"
    /\ phase' = "down"
    /\ step' = [r \in Requests |-> "idle"]
    /\ held' = [r \in Requests |-> NoRun]
    /\ doomed' = [r \in Requests |-> NoJob]
    /\ queue' = [p \in Pools |-> <<>>]
    /\ pc' = [w \in Workers |-> "idle"]
    /\ run' = [w \in Workers |-> NoRun]
    /\ work' = [w \in Workers |-> NoJob]
    /\ proc' = [w \in Workers |-> "none"]
    /\ active' = [id \in RunIds |-> NoWorker]
    /\ orphans' = {}
    /\ UNCHANGED <<jobs, rowVars>>

\* Mutant: only what was running is released.
StartupForgetsQueued ==
    /\ phase = "down"
    /\ phase' = "up"
    /\ status' = [id \in RunIds |-> IF status[id] = "running" THEN "failed" ELSE status[id]]
    /\ UNCHANGED <<jobs, jobOf, requestVars, queue, workerVars, proc, active, orphans>>

\* Mutant: whatever did not succeed is released.
StartupFailsSkipped ==
    /\ phase = "down"
    /\ phase' = "up"
    /\ status' = [id \in RunIds |->
                     IF status[id] \in {"success", "absent"} THEN status[id] ELSE "failed"]
    /\ UNCHANGED <<jobs, jobOf, requestVars, queue, workerVars, proc, active, orphans>>

\* _release_interrupted_runs, before the first request is accepted.
Startup ==
    /\ phase = "down"
    /\ phase' = "up"
    /\ status' = [id \in RunIds |-> IF status[id] \in Active THEN "failed" ELSE status[id]]
    /\ UNCHANGED <<jobs, jobOf, requestVars, queue, workerVars, proc, active, orphans>>

-----------------------------------------------------------------------------
RequestBegins(r) ==
    \/ \E j \in jobs : \/ \E m \in Modes : CreateRun(r, j, m)
                       \/ RecordSkip(r, j)
                       \/ ApiDelete(r, j)
                       \/ FormDeleteCheck(r, j)
    \/ \E id \in RunIds : CancelRead(r, id)

RequestStep(r) ==
    \/ Submit(r)
    \/ CancelCommit(r)
    \/ CancelStop(r)
    \/ FormDeleteCommit(r)

WorkerStep(w) ==
    \/ Take(w)
    \/ MarkRunning(w)
    \/ PlanFails(w)
    \/ DryRunEnds(w)
    \/ PlanCleared(w)
    \/ Spawn(w)
    \/ Register(w)
    \/ CommitCommand(w)
    \/ Record(w)
    \/ PruneQuietCycle(w)
    \/ Close(w)

Next ==
    \/ \E r \in Requests : RequestBegins(r) \/ RequestStep(r)
    \/ \E w \in Workers : WorkerStep(w) \/ UnexpectedError(w) \/ ChildExits(w)
    \/ \E j \in Jobs : OrphanExits(j)
    \/ PruneRuns
    \/ Shutdown
    \/ ClosePools
    \/ Crash
    \/ Startup

Spec == Init /\ [][Next]_vars

\* Threads that can step do, rclone does not run for ever, and a process that
\* is shutting down ends and is started again.
Fairness ==
    /\ \A r \in Requests : WF_vars(RequestStep(r))
    /\ \A w \in Workers : WF_vars(WorkerStep(w)) /\ WF_vars(ChildExits(w))
    /\ \A j \in Jobs : WF_vars(OrphanExits(j))
    /\ WF_vars(ClosePools)
    /\ WF_vars(phase = "draining" /\ Crash)
    /\ WF_vars(Startup)

FairSpec == Spec /\ Fairness

-----------------------------------------------------------------------------
\* The types of the variables; a run id and a job go together in every row.
TypeOK ==
    /\ phase \in {"up", "stopping", "draining", "down"}
    /\ jobs \subseteq Jobs
    /\ status \in [RunIds -> Status]
    /\ jobOf \in [RunIds -> Jobs \cup {NoJob}]
    /\ \A id \in RunIds : Present(id) <=> jobOf[id] # NoJob
    /\ step \in [Requests -> Steps]
    /\ held \in [Requests -> RunIds \cup {NoRun}]
    /\ doomed \in [Requests -> Jobs \cup {NoJob}]
    /\ queue \in [Pools -> Seq(RunIds)]
    /\ pc \in [Workers -> PCs]
    /\ run \in [Workers -> RunIds \cup {NoRun}]
    /\ work \in [Workers -> Jobs \cup {NoJob}]
    /\ proc \in [Workers -> ProcStates]
    /\ active \in [RunIds -> LiveWorkers \cup {NoWorker}]
    /\ orphans \subseteq Jobs

\* At most one queued or running row per job, through every commit of every
\* thread: the unique index of models/job.py, also for a worker that revives a
\* row an operator cancelled while it was queued.
OneActivePerJob ==
    \A a, b \in RunIds :
        status[a] \in Active /\ status[b] \in Active /\ jobOf[a] = jobOf[b] => a = b

\* What LiveRunner.cancel finds under a run id is the child of a worker that
\* still executes that very run: a SIGTERM never reaches another run's rclone,
\* although run ids are given out again.
RegistrySupervised ==
    \A id \in RunIds : active[id] # NoWorker =>
        /\ run[active[id]] = id
        /\ pc[active[id]] \in {"registered", "consuming", "recorded", "closing"}

\* Some thread has yet to see to the run: it was created and is not submitted
\* yet, it waits in a pool, or a worker has not written its outcome.
Owned(id) ==
    \/ \E r \in Requests : held[r] = id /\ step[r] \in {"submitLive", "submitPlan"}
    \/ \E p \in Pools : \E i \in 1..Len(queue[p]) : queue[p][i] = id
    \/ \E w \in Workers : run[w] = id /\ pc[w] \notin {"idle", "recorded", "closing"}

\* While the application is up no row keeps the job's slot without a thread
\* that will free it: what a restart left is released before anything starts,
\* and every way out of run_now wrote an outcome or found the row gone.
ActiveRowOwned ==
    phase = "up" => \A id \in RunIds : status[id] \in Active => Owned(id)

Syncing(j) == j \in orphans \/ \E w \in Workers : Alive(w) /\ work[w] = j

\* The row keeps the job's slot for as long as an rclone works on the job, even
\* one its worker has abandoned.
SlotHeldWhileSyncing == \A j \in Jobs : Syncing(j) => HasActiveRow(j)

\* "never double-runs": no two rclone processes sync one job.
NeverDoubleRuns ==
    \A w \in Workers : Alive(w) =>
        /\ work[w] \notin orphans
        /\ \A v \in Workers \ {w} : Alive(v) => work[v] # work[w]

\* A finished run keeps its outcome; its row may only be deleted.
FinishedIsFinal ==
    [][\A id \in RunIds : status[id] \in Finished => status'[id] \in {status[id], "absent"}]_vars

\* Every run that was created ends: its row leaves queued and running.
EveryRunEnds == \A id \in RunIds : status[id] \in Active ~> status[id] \notin Active

\* The registry forgets every child it was given.
RegistryDrains == \A id \in RunIds : active[id] # NoWorker ~> active[id] = NoWorker
=============================================================================
