------------------------------ MODULE Schedule ------------------------------
(***************************************************************************)
(* When a job runs by the clock.  The job table is the schedule; the       *)
(* APScheduler instance of JobScheduler holds a copy of it, which is       *)
(* rebuilt by reload() and by nothing else.  Requests change the table,    *)
(* some of them reload afterwards, and reload() itself reads the table,    *)
(* clears the scheduler and registers what it read: three steps that other *)
(* threads' steps come between.                                            *)
(*                                                                         *)
(* Saving a job in the browser runs on the event loop and never yields     *)
(* between its commit and the end of its reload, so two such saves do not  *)
(* overlap; the API handlers and the delete form run on threads.           *)
(***************************************************************************)
EXTENDS Naturals, FiniteSets

CONSTANTS
    MaxJobs,    \* bound: the largest id the job table hands out
    Crons,      \* the usable cron lines
    Editors,    \* the requests in progress that change jobs
    Unusable,   \* a cron line no trigger can be built from
    NoCron,     \* "no schedule"
    MayRestart  \* whether the process is killed and started again

ASSUME ConstantsAssumption ==
    /\ MaxJobs \in Nat \ {0}
    /\ {NoCron, Unusable} \cap Crons = {} /\ NoCron # Unusable
    /\ MayRestart \in BOOLEAN

JobIds == 1..MaxJobs

VARIABLES
    up,         \* the process runs
    table,      \* the job table: what each id's row says about running
    entry,      \* the job entries of the scheduler: the cron line each id fires on
    upkeep,     \* the maintenance entry is registered
    edit,       \* where a request is: "idle", "committed", "loaded", "cleared"
    form,       \* the request is a save in the browser, on the event loop
    copy,       \* the table as a request's reload read it
    fire,       \* where the fire of a job is: "no", or "read" once it found the job enabled
    busy,       \* the job has a queued or running row
    silent,     \* history: jobs changed without a reload since the table was last read
    crossed,    \* history: requests whose reload another reload has crossed
    torn        \* history: the reload that finished last had been crossed

scheduler == <<entry, upkeep>>
history   == <<silent, crossed, torn>>
requests  == <<edit, form, copy>>
vars == <<up, table, scheduler, requests, fire, busy, history>>

NoRow == [enabled |-> FALSE, cron |-> NoCron, present |-> FALSE]

\* What JobBase lets a row say: a cron line that can be used, or none (as for
\* every continuous job, which is the watcher's; see Watcher).
Rows == [enabled : BOOLEAN, cron : Crons \cup {NoCron}, present : {TRUE}]

\* build_trigger makes a trigger of it.
Usable(line) == line \in Crons

\* Mutant: an unusable line is registered all the same.
AnyLine(row) == IF row.enabled THEN row.cron ELSE NoCron

\* _register: the entry a row asks for.  A line it cannot use is logged and skipped.
Wanted(row) == IF row.enabled /\ Usable(row.cron) THEN row.cron ELSE NoCron

Present(j) == table[j].present

\* SQLite gives a new row the largest id in use plus one.
NextId(n) == /\ \A j \in JobIds : Present(j) => j < n
             /\ n > 1 => Present(n - 1)

Nothing == [j \in JobIds |-> NoCron]

Init ==
    /\ up = TRUE
    /\ table = [j \in JobIds |-> NoRow]
    /\ entry = Nothing
    /\ upkeep = TRUE
    /\ edit = [e \in Editors |-> "idle"]
    /\ form = [e \in Editors |-> FALSE]
    /\ copy = [e \in Editors |-> Nothing]
    /\ fire = [j \in JobIds |-> "no"]
    /\ busy = [j \in JobIds |-> FALSE]
    /\ silent = {}
    /\ crossed = {}
    /\ torn = FALSE

-----------------------------------------------------------------------------
(* Requests that change the table. *)

\* The event loop is held by a save in the browser until its reload is done.
LoopFree == \A e \in Editors : ~form[e]

\* A request commits row r for job j and goes on to reload, or is done.
Commit(e, j, r, then, onLoop) ==
    /\ up /\ edit[e] = "idle"
    /\ onLoop => LoopFree
    /\ table' = [table EXCEPT ![j] = r]
    /\ edit' = [edit EXCEPT ![e] = then]
    /\ form' = [form EXCEPT ![e] = onLoop]
    /\ silent' = IF then = "idle" THEN silent \cup {j} ELSE silent
    /\ UNCHANGED <<up, scheduler, copy, fire, crossed, torn>>

\* POST /api/jobs, and the job form without an id.
CreateJob(e) ==
    \E j \in JobIds, r \in Rows, onLoop \in BOOLEAN :
        /\ NextId(j)
        /\ Commit(e, j, r, "committed", onLoop)
        /\ UNCHANGED busy

\* The job form of an existing job.
SaveJobForm(e) ==
    \E j \in JobIds, r \in Rows :
        /\ Present(j)
        /\ Commit(e, j, r, "committed", TRUE)
        /\ UNCHANGED busy

\* PATCH /api/jobs/{id}: the same columns, and no reload.
UpdateJob(e) ==
    \E j \in JobIds, r \in Rows :
        /\ Present(j)
        /\ Commit(e, j, r, "idle", FALSE)
        /\ UNCHANGED busy

\* DELETE /api/jobs/{id}, and the delete form, which refuses a busy job.
\* The rows of the job's runs go with it.
DeleteJob(e) ==
    \E j \in JobIds :
        /\ Present(j)
        /\ Commit(e, j, NoRow, "committed", FALSE)
        /\ busy' = [busy EXCEPT ![j] = FALSE]

DeleteJobForm(e) ==
    \E j \in JobIds :
        /\ Present(j) /\ ~busy[j]
        /\ Commit(e, j, NoRow, "committed", FALSE)
        /\ UNCHANGED busy

\* An import creates the jobs whose names are new, from the document's columns
\* as they stand: nothing validates the cron line.  The form reloads, after
\* reading the upload and without yielding again; the API does not.
ImportJob(e) ==
    \E j \in JobIds, c \in Crons \cup {NoCron, Unusable}, on, onLoop \in BOOLEAN :
        /\ NextId(j)
        /\ Commit(e, j, [enabled |-> on, cron |-> c, present |-> TRUE],
                  IF onLoop THEN "committed" ELSE "idle", onLoop)
        /\ UNCHANGED busy

-----------------------------------------------------------------------------
(* JobScheduler.reload, step by step. *)

ReadTable(e) ==
    /\ up /\ edit[e] = "committed"
    /\ copy' = [copy EXCEPT ![e] = [j \in JobIds |-> Wanted(table[j])]]
    /\ edit' = [edit EXCEPT ![e] = "loaded"]
    /\ silent' = {}
    /\ crossed' = crossed \ {e}
    /\ UNCHANGED <<up, table, scheduler, form, fire, busy, torn>>

\* Every other reload in progress is crossed by a step of this one.
Cross(e) == crossed' = crossed \cup {d \in Editors \ {e} : edit[d] \in {"loaded", "cleared"}}

\* Mutant: reload() only adds.
RemoveNothing(e) ==
    /\ up /\ edit[e] = "loaded"
    /\ edit' = [edit EXCEPT ![e] = "cleared"]
    /\ Cross(e)
    /\ UNCHANGED <<up, table, scheduler, form, copy, fire, busy, silent, torn>>

RemoveAllJobs(e) ==
    /\ up /\ edit[e] = "loaded"
    /\ entry' = Nothing
    /\ upkeep' = FALSE
    /\ edit' = [edit EXCEPT ![e] = "cleared"]
    /\ Cross(e)
    /\ UNCHANGED <<up, table, form, copy, fire, busy, silent, torn>>

\* Mutant: maintenance is registered at startup only.
RegisterJobs(e) ==
    /\ up /\ edit[e] = "cleared"
    /\ entry' = [j \in JobIds |-> IF copy[e][j] # NoCron THEN copy[e][j] ELSE entry[j]]
    /\ edit' = [edit EXCEPT ![e] = "idle"]
    /\ form' = [form EXCEPT ![e] = FALSE]
    /\ copy' = [copy EXCEPT ![e] = Nothing]
    /\ Cross(e)
    /\ torn' = (e \in crossed)
    /\ UNCHANGED <<up, table, upkeep, fire, busy, silent>>

\* Each entry replaces the one of the same id and leaves the others alone.
Register(e) ==
    /\ up /\ edit[e] = "cleared"
    /\ entry' = [j \in JobIds |-> IF copy[e][j] # NoCron THEN copy[e][j] ELSE entry[j]]
    /\ upkeep' = TRUE
    /\ edit' = [edit EXCEPT ![e] = "idle"]
    /\ form' = [form EXCEPT ![e] = FALSE]
    /\ copy' = [copy EXCEPT ![e] = Nothing]
    /\ Cross(e)
    /\ torn' = (e \in crossed)
    /\ UNCHANGED <<up, table, fire, busy, silent>>

-----------------------------------------------------------------------------
(* Fires and the runs they start. *)

\* _fire reads the job again, and goes on only if it is there and enabled.
FireReads(j) ==
    /\ up /\ entry[j] # NoCron /\ fire[j] = "no"
    /\ Present(j) /\ table[j].enabled
    /\ fire' = [fire EXCEPT ![j] = "read"]
    /\ UNCHANGED <<up, table, scheduler, requests, busy, history>>

\* create_run: refused while a run of the job is active (a skipped row is left)
\* and by the foreign key once the job is gone (the exception is logged).
FireStarts(j) ==
    /\ up /\ fire[j] = "read"
    /\ fire' = [fire EXCEPT ![j] = "no"]
    /\ busy' = [busy EXCEPT ![j] = Present(j)]
    /\ UNCHANGED <<up, table, scheduler, requests, history>>

\* A run requested by an operator or the watcher, and the end of any run.
RunStarts(j) == /\ up /\ Present(j) /\ ~busy[j]
                /\ busy' = [busy EXCEPT ![j] = TRUE]
                /\ UNCHANGED <<up, table, scheduler, requests, fire, history>>
RunEnds(j)   == /\ up /\ busy[j]
                /\ busy' = [busy EXCEPT ![j] = FALSE]
                /\ UNCHANGED <<up, table, scheduler, requests, fire, history>>

-----------------------------------------------------------------------------
(* The process is killed, and starts: the entries live in memory only. *)

Crash ==
    /\ MayRestart /\ up
    /\ up' = FALSE
    /\ entry' = Nothing
    /\ upkeep' = FALSE
    /\ edit' = [e \in Editors |-> "idle"]
    /\ form' = [e \in Editors |-> FALSE]
    /\ copy' = [e \in Editors |-> Nothing]
    /\ fire' = [j \in JobIds |-> "no"]
    /\ UNCHANGED <<table, busy, history>>

\* _release_interrupted_runs, then JobScheduler.start before the first request.
Startup ==
    /\ ~up
    /\ up' = TRUE
    /\ busy' = [j \in JobIds |-> FALSE]
    /\ entry' = [j \in JobIds |-> Wanted(table[j])]
    /\ upkeep' = TRUE
    /\ silent' = {}
    /\ crossed' = {}
    /\ torn' = FALSE
    /\ UNCHANGED <<table, requests, fire>>

Request(e) == \/ CreateJob(e) \/ SaveJobForm(e) \/ UpdateJob(e) \/ ImportJob(e)
              \/ DeleteJob(e) \/ DeleteJobForm(e)
Reload(e)  == ReadTable(e) \/ RemoveAllJobs(e) \/ Register(e)

Next ==
    \/ \E e \in Editors : Request(e) \/ Reload(e)
    \/ \E j \in JobIds : FireReads(j) \/ FireStarts(j) \/ RunStarts(j) \/ RunEnds(j)
    \/ Crash \/ Startup

Spec == Init /\ [][Next]_vars

-----------------------------------------------------------------------------
Entries == [JobIds -> Crons \cup {NoCron}]

TypeOK ==
    /\ up \in BOOLEAN
    /\ \A j \in JobIds : table[j] = NoRow \/ table[j].present
    /\ entry \in Entries
    /\ edit \in [Editors -> {"idle", "committed", "loaded", "cleared"}]
    /\ copy \in [Editors -> Entries]
    /\ fire \in [JobIds -> {"no", "read"}]
    /\ busy \in [JobIds -> BOOLEAN]
    /\ silent \subseteq JobIds
    /\ crossed \subseteq Editors

\* No request is between its commit and the end of its reload.
Settled == up /\ \A e \in Editors : edit[e] = "idle"

\* Between requests the scheduler fires exactly what the job table asks for,
\* except for a job changed by a handler that does not reload (PATCH and the
\* API's import), and except after two reloads that crossed, until the next
\* reload that none crosses: no other order of requests, deletions, fires,
\* reused ids and restarts leaves a job unscheduled or a dead job scheduled.
ScheduleLagExplained ==
    Settled /\ ~torn => \A j \in JobIds \ silent : entry[j] = Wanted(table[j])

\* Maintenance is scheduled whenever no reload is in progress: reload() clears
\* it with the jobs, and every crossing of reloads registers it again.
MaintenanceKept == Settled => upkeep
=============================================================================
