------------------------------ MODULE Watcher ------------------------------
(***************************************************************************)
(* Continuous mode: one thread wakes every tick, asks of each continuous   *)
(* job whether its last cycle left a run behind, narrows or widens the     *)
(* wait accordingly, and starts the next cycle.  The runs themselves are   *)
(* executed by LiveRunner's pool and end whenever they end; operators      *)
(* start runs of the same jobs, switch jobs on and off and delete them.    *)
(*                                                                         *)
(* Time is counted in ticks and every wait is what is left of it, so the   *)
(* clock needs no bound.  `_changed_since` compares the finish of every    *)
(* surviving row with the stamp of the last cycle; all it can tell is      *)
(* whether one of them is younger, and that is what is kept here.          *)
(***************************************************************************)
EXTENDS Naturals, FiniteSets

CONSTANTS
    Jobs,       \* the jobs
    Floor,      \* continuous_interval_seconds, in ticks, at least five seconds
    Ceiling,    \* continuous_idle_interval_seconds, in ticks
    Editable,   \* those that operators edit and delete (a bound: the others stay as they are)
    MaxPause,   \* bound: the most ticks that pass between two passes of the loop
    NoJob,      \* "none"
    MayRefuse   \* whether a pool refuses a submission (it was being replaced; see Pools)

ASSUME WatcherAssumption ==
    /\ Floor \in Nat \ {0}
    /\ Ceiling \in Nat /\ Floor <= Ceiling
    /\ MaxPause \in Nat \ {0}
    /\ Editable \subseteq Jobs
    /\ NoJob \notin Jobs
    /\ MayRefuse \in BOOLEAN

VARIABLES
    job,        \* "watched" (continuous and enabled), "other", or "gone"
    interval,   \* WatchState.interval, 0 where the watcher has no state for the job
    wait,       \* ticks until _due
    stamped,    \* _cycle_started holds a time for the job
    left,       \* a finished row of the job is younger than that time
    fading,     \* a quiet cycle's row that is about to be pruned: "no", "old" or "young"
    run,        \* the active run: "none", "made" (by the watcher, which has yet to
                \* submit it), "queued", "running", or "lost" (no pool has it)
    quiet,      \* whether that run is pruned when it turns out to have moved nothing
    at,         \* where the watcher is: "asleep", "pass", "asked", "stamped", "submitting"
    todo,       \* the jobs its pass has read and not reached
    cur,        \* the job it is at
    changed,    \* the answer it got
    owed        \* history: a run that moved something or failed ended since the stamp

jobVars   == <<job, run, quiet>>
rowVars   == <<left, fading>>
stateVars == <<interval, wait, stamped>>
passVars  == <<at, todo, cur, changed>>
watcherVars == <<jobVars, rowVars, stateVars, passVars, owed>>

Lesser(a, b)  == IF a < b THEN a ELSE b
Greater(a, b) == IF a > b THEN a ELSE b

\* The partial unique index: queued and running rows; a lost run stays queued.
Active(j) == run[j] # "none"
Watched   == {j \in Jobs : job[j] = "watched"}

WatcherInit ==
    /\ job \in [Jobs -> {"watched", "other"}]
    /\ \A j \in Jobs \ Editable : job[j] = "watched"
    /\ interval = [j \in Jobs |-> 0]
    /\ wait = [j \in Jobs |-> 0]
    /\ stamped = [j \in Jobs |-> FALSE]
    /\ left = [j \in Jobs |-> FALSE]
    /\ fading = [j \in Jobs |-> "no"]
    /\ run = [j \in Jobs |-> "none"]
    /\ quiet = [j \in Jobs |-> FALSE]
    /\ at = "asleep"
    /\ todo = {}
    /\ cur = NoJob
    /\ changed = FALSE
    /\ owed = [j \in Jobs |-> FALSE]

-----------------------------------------------------------------------------
(* The watcher's thread. *)

\* Mutant: nothing holds the doubling.
DoubleInterval(i, moved) ==
    IF moved THEN Floor ELSE Greater(Floor, 2 * i)

\* next_interval: back to the floor after a change, twice as long after none.
NextInterval(i, moved) ==
    IF moved THEN Floor ELSE Lesser(Ceiling, Greater(Floor, 2 * i))

\* The rest of the pass: the job is due again one interval after it began.
Reschedule ==
    /\ wait' = [wait EXCEPT ![cur] = interval[cur]]
    /\ todo' = todo \ {cur}
    /\ at' = "pass"
    /\ cur' = NoJob

\* Mutant: the job is tried again until it works.
RetryJob == UNCHANGED <<at, todo, cur, wait>>

\* An exception ends the pass, whatever is left of it; _loop logs it.
AbandonPass ==
    /\ todo' = {}
    /\ at' = "asleep"
    /\ cur' = NoJob
    /\ UNCHANGED wait

\* tick: the jobs are read once, and those no longer among them forgotten.
Wake ==
    /\ at = "asleep"
    /\ \E d \in 1..MaxPause :
          wait' = [j \in Jobs |-> IF j \in Watched /\ wait[j] > d THEN wait[j] - d ELSE 0]
    /\ at' = "pass"
    /\ todo' = Watched
    /\ interval' = [j \in Jobs |-> IF j \in Watched THEN interval[j] ELSE 0]
    /\ stamped' = [j \in Jobs |-> j \in Watched /\ stamped[j]]
    /\ owed' = [j \in Jobs |-> j \in Watched /\ owed[j]]
    /\ UNCHANGED <<jobVars, rowVars, cur, changed>>

Rest ==
    /\ at = "pass" /\ todo = {}
    /\ at' = "asleep"
    /\ UNCHANGED <<jobVars, rowVars, stateVars, todo, cur, changed, owed>>

\* A job that is not due is passed over; the query gives no order.
PassOver(j) ==
    /\ at = "pass" /\ j \in todo
    /\ wait[j] > 0
    /\ todo' = todo \ {j}
    /\ UNCHANGED <<jobVars, rowVars, stateVars, at, cur, changed, owed>>

\* _changed_since: before its first cycle a job has not changed.
Ask(j) ==
    /\ at = "pass" /\ j \in todo
    /\ wait[j] = 0
    /\ interval' = [interval EXCEPT ![j] = IF @ = 0 THEN Floor ELSE @]
    /\ changed' = (stamped[j] /\ (left[j] \/ fading[j] = "young"))
    /\ at' = "asked"
    /\ cur' = j
    /\ UNCHANGED <<jobVars, rowVars, wait, stamped, todo, owed>>

\* A refused INSERT makes the session forget the jobs it read, and the pass ends
\* where one it reads again is gone.
FindGone(j) ==
    /\ at = "pass" /\ j \in todo
    /\ job[j] = "gone"
    /\ AbandonPass
    /\ UNCHANGED <<jobVars, rowVars, interval, stamped, changed, owed>>

\* next_interval, and _cycle_started = utcnow().
Stamp ==
    /\ at = "asked"
    /\ interval' = [interval EXCEPT ![cur] = NextInterval(@, changed)]
    /\ stamped' = [stamped EXCEPT ![cur] = TRUE]
    /\ left' = [left EXCEPT ![cur] = FALSE]
    /\ fading' = [fading EXCEPT ![cur] = IF @ = "no" THEN "no" ELSE "old"]
    /\ owed' = [owed EXCEPT ![cur] = FALSE]
    /\ at' = "stamped"
    /\ changed' = FALSE
    /\ UNCHANGED <<jobVars, wait, todo, cur>>

\* _start: a run, nothing (RunConflict), or an exception where the job is gone
\* by now, since the refused INSERT makes the session read it again.
Start ==
    /\ at = "stamped"
    /\ IF job[cur] = "gone" THEN AbandonPass /\ UNCHANGED jobVars
       ELSE IF Active(cur) THEN Reschedule /\ UNCHANGED jobVars
       ELSE /\ run' = [run EXCEPT ![cur] = "made"]
            /\ quiet' = [quiet EXCEPT ![cur] = TRUE]
            /\ at' = "submitting"
            /\ UNCHANGED <<job, wait, todo, cur>>
    /\ UNCHANGED <<rowVars, interval, stamped, changed, owed>>

\* LiveRunner.submit.  A pool that is being replaced refuses; the row stays.
\* Where the job was deleted meanwhile, its run went with it: the commit of
\* last_checked_at fails, or finds a new job under the same id.
WatcherSubmits ==
    /\ at = "submitting"
    /\ IF run[cur] = "made"
       THEN \/ run' = [run EXCEPT ![cur] = "queued"] /\ Reschedule
            \/ MayRefuse /\ run' = [run EXCEPT ![cur] = "lost"] /\ AbandonPass
       ELSE (Reschedule \/ AbandonPass) /\ UNCHANGED run
    /\ UNCHANGED <<job, quiet, rowVars, interval, stamped, changed, owed>>

-----------------------------------------------------------------------------
(* Requests and runs. *)

\* A run by hand, live or dry, created and submitted by one request.
RequestRun(j) ==
    /\ job[j] # "gone" /\ ~Active(j)
    /\ \E r \in {"queued"} \cup IF MayRefuse THEN {"lost"} ELSE {}, live \in BOOLEAN :
          /\ run' = [run EXCEPT ![j] = r]
          /\ quiet' = [quiet EXCEPT ![j] = live]
    /\ UNCHANGED <<job, rowVars, stateVars, passVars, owed>>

\* run_now loads the job.  A live run of a continuous job is pruned like a cycle,
\* even of one that is disabled ("other"); a dry run is not.
Begin(j) ==
    /\ run[j] = "queued"
    /\ run' = [run EXCEPT ![j] = "running"]
    /\ \E continuous \in BOOLEAN :
          /\ job[j] = "watched" => continuous
          /\ quiet' = [quiet EXCEPT ![j] = @ /\ continuous]
    /\ UNCHANGED <<job, rowVars, stateVars, passVars, owed>>

\* Mutant: a failed cycle is pruned like a quiet one.
FinishAndPrune(j, outcome) ==
    /\ run[j] = "running"
    /\ run' = [run EXCEPT ![j] = "none"]
    /\ quiet' = [quiet EXCEPT ![j] = FALSE]
    /\ IF outcome # "moved" /\ quiet[j]
       THEN /\ fading[j] = "no"
            /\ fading' = [fading EXCEPT ![j] = "young"]
            /\ UNCHANGED left
       ELSE /\ left' = [left EXCEPT ![j] = TRUE]
            /\ UNCHANGED fading
    /\ owed' = [owed EXCEPT ![j] = @ \/ (outcome # "nothing" /\ stamped[j]
                                         /\ ~(at = "asked" /\ cur = j))]
    /\ UNCHANGED <<job, stateVars, passVars>>

\* The outcome is committed: nothing moved, something moved, or a failure.
\* The row of a quiet cycle stays until _notify returns and it is pruned.
Finish(j, outcome) ==
    /\ run[j] = "running"
    /\ run' = [run EXCEPT ![j] = "none"]
    /\ quiet' = [quiet EXCEPT ![j] = FALSE]
    /\ IF outcome = "nothing" /\ quiet[j]
       THEN /\ fading[j] = "no"
            /\ fading' = [fading EXCEPT ![j] = "young"]
            /\ UNCHANGED left
       ELSE /\ left' = [left EXCEPT ![j] = TRUE]
            /\ UNCHANGED fading
    \* A run that ends between the question and the stamp is nobody's: it is
    \* older than the new stamp, and the answer was given without it.
    /\ owed' = [owed EXCEPT ![j] = @ \/ (outcome # "nothing" /\ stamped[j]
                                         /\ ~(at = "asked" /\ cur = j))]
    /\ UNCHANGED <<job, stateVars, passVars>>

PruneQuietCycle(j) ==
    /\ fading[j] # "no"
    /\ fading' = [fading EXCEPT ![j] = "no"]
    /\ UNCHANGED <<jobVars, left, stateVars, passVars, owed>>

\* A job is switched to or from continuous mode, or enabled, or disabled.
JobEdited(j) ==
    /\ j \in Editable /\ job[j] # "gone"
    /\ job' = [job EXCEPT ![j] = IF @ = "watched" THEN "other" ELSE "watched"]
    /\ UNCHANGED <<run, quiet, rowVars, stateVars, passVars, owed>>

\* Its runs go with it; a run that holds its rclone ends without a row.
JobDeleted(j) ==
    /\ j \in Editable /\ job[j] # "gone"
    /\ job' = [job EXCEPT ![j] = "gone"]
    /\ run' = [run EXCEPT ![j] = "none"]
    /\ quiet' = [quiet EXCEPT ![j] = FALSE]
    /\ left' = [left EXCEPT ![j] = FALSE]
    /\ fading' = [fading EXCEPT ![j] = "no"]
    /\ owed' = [owed EXCEPT ![j] = FALSE]
    /\ UNCHANGED <<stateVars, passVars>>

\* A new job is given the id of a deleted one; the watcher may not have noticed.
JobCreated(j) ==
    /\ job[j] = "gone"
    /\ job' = [job EXCEPT ![j] = "watched"]
    /\ UNCHANGED <<run, quiet, rowVars, stateVars, passVars, owed>>

Outcomes == {"nothing", "moved", "failed"}

Watching == \/ Wake \/ Rest \/ Stamp \/ Start \/ WatcherSubmits
            \/ \E j \in Jobs : PassOver(j) \/ Ask(j) \/ FindGone(j)
Running(j) == \/ Begin(j) \/ PruneQuietCycle(j)
              \/ \E o \in Outcomes : Finish(j, o)
Operating(j) == RequestRun(j) \/ JobEdited(j) \/ JobDeleted(j) \/ JobCreated(j)

WatcherNext == Watching \/ \E j \in Jobs : Running(j) \/ Operating(j)

WatcherSpec == WatcherInit /\ [][WatcherNext]_watcherVars

\* The watcher's thread and the workers go on; the operator need not.
WatcherFairSpec ==
    /\ WatcherSpec
    /\ WF_watcherVars(Watching) /\ \A j \in Jobs : WF_watcherVars(Running(j))
-----------------------------------------------------------------------------
WatcherTypeOK ==
    /\ job \in [Jobs -> {"watched", "other", "gone"}]
    /\ interval \in [Jobs -> {0} \cup Floor..Ceiling]
    /\ \A j \in Jobs : wait[j] \in 0..interval[j]
    /\ stamped \in [Jobs -> BOOLEAN]
    /\ left \in [Jobs -> BOOLEAN]
    /\ fading \in [Jobs -> {"no", "old", "young"}]
    /\ run \in [Jobs -> {"none", "made", "queued", "running", "lost"}]
    /\ quiet \in [Jobs -> BOOLEAN]
    /\ at \in {"asleep", "pass", "asked", "stamped", "submitting"}
    /\ todo \subseteq Jobs
    /\ cur \in Jobs \cup {NoJob}
    /\ (cur = NoJob) <=> at \in {"asleep", "pass"}
    /\ changed \in BOOLEAN
    /\ owed \in [Jobs -> BOOLEAN]

\* The wait of a job is lengthened only when no run of it that moved something
\* or failed has ended since its last cycle was stamped, whoever started that
\* run and whatever rows were pruned meanwhile.  (The one run that is missed is
\* one that ends between the question and the stamp.)
WidensOnlyWhenQuiet ==
    [][\A j \in Jobs : at = "asked" /\ cur = j /\ stamped[j] /\ at' = "stamped"
          /\ (interval'[j] > interval[j] \/ interval'[j] > Floor) => ~owed[j]]_watcherVars

\* A watched job is started again and again, through conflicts, refused
\* submissions and passes that end in an exception, as long as jobs are not
\* deleted for ever under the watcher's feet.  A lost run counts as active: it
\* is the end of the job's cycles, and Pools shows how it comes about.
DeleteSome == \E j \in Jobs : JobDeleted(j)
KeepsWatching ==
    []<><<DeleteSome>>_watcherVars \/ \A j \in Jobs : []<>(job[j] # "watched" \/ Active(j))
=============================================================================
