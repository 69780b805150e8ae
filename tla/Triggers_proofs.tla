--------------------------- MODULE Triggers_proofs ---------------------------
(***************************************************************************)
(* Theorems about what starts runs without being asked: the scheduler      *)
(* (Schedule), for any number of job ids, cron lines and requests in       *)
(* progress, and the watcher of continuous jobs (Watcher), for any number  *)
(* of jobs, any floor and ceiling, and any time between two passes.        *)
(***************************************************************************)
EXTENDS Schedule, Watcher, TLAPS

Steps == {"idle", "committed", "loaded", "cleared"}

\* What the job table may hold; an import may bring a line that cannot be used.
TableRows == [enabled : BOOLEAN, cron : Crons \cup {NoCron, Unusable}, present : BOOLEAN]

\* The types of all the variables.
Typed ==
    /\ up \in BOOLEAN /\ upkeep \in BOOLEAN /\ torn \in BOOLEAN
    /\ table \in [JobIds -> TableRows]
    /\ \A j \in JobIds : table[j] = NoRow \/ table[j].present
    /\ entry \in Entries
    /\ edit \in [Editors -> Steps]
    /\ form \in [Editors -> BOOLEAN]
    /\ copy \in [Editors -> Entries]
    /\ fire \in [JobIds -> {"no", "read"}]
    /\ busy \in [JobIds -> BOOLEAN]
    /\ silent \subseteq JobIds
    /\ crossed \subseteq Editors

\* Every row asks for a cron line that can be used, or for none.
LEMMA WantedTyped ==
  ASSUME NEW row \in TableRows
  PROVE  Wanted(row) \in Crons \cup {NoCron}
  BY DEF Wanted, Usable, TableRows

\* What a request leaves behind that commits: one row replaced, and the request
\* on its way to a reload or done.
LEMMA CommitTyped ==
  ASSUME Typed, NEW e \in Editors, NEW j \in JobIds, NEW r \in TableRows,
         r = NoRow \/ r.present,
         NEW then \in {"idle", "committed"}, NEW onLoop \in BOOLEAN,
         Commit(e, j, r, then, onLoop), busy' \in [JobIds -> BOOLEAN]
  PROVE  Typed'
  <1>1. /\ table' = [table EXCEPT ![j] = r] /\ edit' = [edit EXCEPT ![e] = then]
        /\ form' = [form EXCEPT ![e] = onLoop]
        /\ silent' \in {silent, silent \cup {j}}
        /\ UNCHANGED <<up, entry, upkeep, copy, fire, crossed, torn>>
    BY DEF Commit, scheduler
  <1>2. table' \in [JobIds -> TableRows] /\ \A i \in JobIds : table'[i] = NoRow \/ table'[i].present
    BY <1>1 DEF Typed
  <1>3. edit' \in [Editors -> Steps]
    BY <1>1 DEF Typed, Steps
  <1>4. form' \in [Editors -> BOOLEAN] /\ silent' \subseteq JobIds
    BY <1>1 DEF Typed
  <1> QED
    BY <1>1, <1>2, <1>3, <1>4 DEF Typed, Entries

\* The requests that change the table are all commits of a row of the table.
\* After a commit that does not reload, the job is known to lag.
LEMMA RequestIsCommit ==
  ASSUME Typed, NEW e \in Editors, Request(e)
  PROVE  \E j \in JobIds, r \in TableRows, then \in {"idle", "committed"}, onLoop \in BOOLEAN :
            /\ r = NoRow \/ r.present
            /\ Commit(e, j, r, then, onLoop)
            /\ busy' \in [JobIds -> BOOLEAN]
  <1>1. NoRow \in TableRows /\ \A r \in Rows : r \in TableRows /\ r.present
    BY DEF NoRow, TableRows, Rows
  <1>2. busy' \in [JobIds -> BOOLEAN]
    BY DEF Request, CreateJob, SaveJobForm, UpdateJob, ImportJob, DeleteJob, DeleteJobForm, Typed
  <1>3. CASE CreateJob(e)
    BY <1>1, <1>2, <1>3 DEF CreateJob
  <1>4. CASE SaveJobForm(e)
    BY <1>1, <1>2, <1>4 DEF SaveJobForm
  <1>5. CASE UpdateJob(e)
    BY <1>1, <1>2, <1>5 DEF UpdateJob
  <1>6. CASE ImportJob(e)
    <2>1. PICK j \in JobIds, c \in Crons \cup {NoCron, Unusable}, on \in BOOLEAN, onLoop \in BOOLEAN :
             Commit(e, j, [enabled |-> on, cron |-> c, present |-> TRUE],
                    IF onLoop THEN "committed" ELSE "idle", onLoop)
      BY <1>6 DEF ImportJob
    <2>2. [enabled |-> on, cron |-> c, present |-> TRUE] \in TableRows
      BY DEF TableRows
    <2> QED
      BY <1>2, <2>1, <2>2
  <1>7. CASE DeleteJob(e)
    BY <1>1, <1>2, <1>7 DEF DeleteJob
  <1>8. CASE DeleteJobForm(e)
    BY <1>1, <1>2, <1>8 DEF DeleteJobForm
  <1> QED
    BY <1>3, <1>4, <1>5, <1>6, <1>7, <1>8 DEF Request

\* Every step keeps the types.
LEMMA TypedStep == Typed /\ [Next]_vars => Typed'
<1> SUFFICES ASSUME Typed, [Next]_vars PROVE Typed'
  OBVIOUS
<1>1. ASSUME NEW e \in Editors, Request(e) PROVE Typed'
  BY <1>1, RequestIsCommit, CommitTyped
<1>2. ASSUME NEW e \in Editors, ReadTable(e) PROVE Typed'
  <2>1. [j \in JobIds |-> Wanted(table[j])] \in Entries
    BY WantedTyped DEF Typed, Entries
  <2> QED
    BY <1>2, <2>1 DEF ReadTable, Typed, Steps, scheduler, Entries
<1>3. ASSUME NEW e \in Editors, RemoveAllJobs(e) PROVE Typed'
  BY <1>3 DEF RemoveAllJobs, Typed, Steps, Cross, Nothing, Entries
<1>4. ASSUME NEW e \in Editors, Register(e) PROVE Typed'
  <2>1. entry' \in Entries
    BY <1>4 DEF Register, Typed, Entries
  <2>2. copy' \in [Editors -> Entries] /\ edit' \in [Editors -> Steps] /\ form' \in [Editors -> BOOLEAN]
    BY <1>4 DEF Register, Typed, Entries, Nothing, Steps
  <2> QED
    BY <1>4, <2>1, <2>2 DEF Register, Typed, Cross
<1>5. ASSUME NEW j \in JobIds, FireReads(j) \/ FireStarts(j) \/ RunStarts(j) \/ RunEnds(j)
      PROVE  Typed'
  BY <1>5 DEF FireReads, FireStarts, RunStarts, RunEnds, Typed, scheduler, requests, history,
              Present, TableRows, Entries
<1>6. CASE Crash
  BY <1>6 DEF Crash, Typed, history, Nothing, Entries, Steps
<1>7. CASE Startup
  <2>1. [j \in JobIds |-> Wanted(table[j])] \in Entries
    BY WantedTyped DEF Typed, Entries
  <2> QED
    BY <1>7, <2>1 DEF Startup, Typed, requests, Entries
<1>8. CASE UNCHANGED vars
  BY <1>8 DEF vars, Typed, scheduler, requests, history, Entries
<1> QED
  BY <1>1, <1>2, <1>3, <1>4, <1>5, <1>6, <1>7, <1>8 DEF Next, Reload

LEMMA TypedInit == Init => Typed
  <1> SUFFICES ASSUME Init PROVE Typed
    OBVIOUS
  <1>1. NoRow \in TableRows /\ Nothing \in Entries
    BY DEF NoRow, TableRows, Nothing, Entries
  <1>2. table \in [JobIds -> TableRows] /\ \A j \in JobIds : table[j] = NoRow
    BY <1>1 DEF Init
  <1>3. entry \in Entries /\ copy \in [Editors -> Entries] /\ edit \in [Editors -> Steps]
    BY <1>1 DEF Init, Steps
  <1> QED
    BY <1>2, <1>3 DEF Init, Typed

\* Rows, entries and requests are always of their kind.
THEOREM TypeCorrect == Spec => []TypeOK
  <1>1. Typed => TypeOK
    BY DEF Typed, TypeOK, Steps
  <1> QED
    BY <1>1, TypedInit, TypedStep, PTL DEF Spec

-----------------------------------------------------------------------------
(* Maintenance. *)

\* While the process is down no request is in progress; while it is up the
\* maintenance entry is missing only between a reload's clearing of the
\* scheduler and its registering.
Cleared == \E e \in Editors : edit[e] = "cleared"
UpkeepInv ==
    /\ ~up => \A e \in Editors : edit[e] = "idle"
    /\ up /\ ~upkeep => Cleared

LEMMA UpkeepStep == Typed /\ UpkeepInv /\ [Next]_vars => UpkeepInv'
<1> SUFFICES ASSUME Typed, UpkeepInv, [Next]_vars PROVE UpkeepInv'
  OBVIOUS
<1> USE DEF Typed, UpkeepInv, Cleared
<1>1. ASSUME NEW e \in Editors, Request(e) PROVE UpkeepInv'
  <2>1. PICK j \in JobIds, r \in TableRows, then \in {"idle", "committed"}, onLoop \in BOOLEAN :
           Commit(e, j, r, then, onLoop)
    BY <1>1, RequestIsCommit
  <2> QED
    BY <2>1 DEF Commit, scheduler
<1>2. ASSUME NEW e \in Editors, ReadTable(e) PROVE UpkeepInv'
  BY <1>2 DEF ReadTable, scheduler
<1>3. ASSUME NEW e \in Editors, RemoveAllJobs(e) PROVE UpkeepInv'
  BY <1>3 DEF RemoveAllJobs
<1>4. ASSUME NEW e \in Editors, Register(e) PROVE UpkeepInv'
  BY <1>4 DEF Register
<1>5. ASSUME NEW j \in JobIds, FireReads(j) \/ FireStarts(j) \/ RunStarts(j) \/ RunEnds(j)
      PROVE  UpkeepInv'
  BY <1>5 DEF FireReads, FireStarts, RunStarts, RunEnds, scheduler, requests
<1>6. CASE Crash
  BY <1>6 DEF Crash
<1>7. CASE Startup
  BY <1>7 DEF Startup, requests
<1>8. CASE UNCHANGED vars
  BY <1>8 DEF vars, scheduler, requests
<1> QED
  BY <1>1, <1>2, <1>3, <1>4, <1>5, <1>6, <1>7, <1>8 DEF Next, Reload

\* The maintenance entry is registered whenever no reload is in progress,
\* however many of them cross (JobScheduler.reload clears it with the jobs).
THEOREM MaintenanceStays == Spec => []MaintenanceKept
  <1>1. Init => UpkeepInv
    BY DEF Init, UpkeepInv
  <1>2. UpkeepInv => MaintenanceKept
    BY DEF UpkeepInv, Cleared, MaintenanceKept, Settled
  <1> QED
    BY <1>1, <1>2, TypedInit, TypedStep, UpkeepStep, PTL DEF Spec

-----------------------------------------------------------------------------
(* The schedule follows the job table. *)

\* A reload that no other has crossed since it read the table.
Uncrossed(e) == edit[e] \in {"loaded", "cleared"} /\ e \notin crossed

\* What it read is what the table still asks for, but for jobs changed without
\* a reload, and unless another request has a reload of its own to come.
CopyCurrent ==
    \A e \in Editors, j \in JobIds :
        Uncrossed(e) =>
            \/ copy[e][j] = Wanted(table[j])
            \/ j \in silent
            \/ \E d \in Editors \ {e} : edit[d] # "idle"

\* Between its clearing and its registering the scheduler is empty.
ClearedEmpty ==
    \A e \in Editors : Uncrossed(e) /\ edit[e] = "cleared" => entry = Nothing

LagInv == CopyCurrent /\ ClearedEmpty /\ ScheduleLagExplained

LEMMA LagStep == Typed /\ UpkeepInv /\ LagInv /\ [Next]_vars => LagInv'
<1> SUFFICES ASSUME Typed, UpkeepInv, LagInv, [Next]_vars PROVE LagInv'
  OBVIOUS
<1> USE DEF LagInv, CopyCurrent, ClearedEmpty, ScheduleLagExplained, Settled, Uncrossed
<1>1. ASSUME NEW e \in Editors, Request(e) PROVE LagInv'
  <2>1. PICK j \in JobIds, r \in TableRows, then \in {"idle", "committed"}, onLoop \in BOOLEAN :
           Commit(e, j, r, then, onLoop)
    BY <1>1, RequestIsCommit
  <2>2. /\ edit[e] = "idle" /\ edit' = [edit EXCEPT ![e] = then]
        /\ table' = [table EXCEPT ![j] = r]
        /\ silent' = IF then = "idle" THEN silent \cup {j} ELSE silent
        /\ up /\ UNCHANGED <<up, entry, copy, crossed, torn>>
    BY <2>1 DEF Commit, scheduler
  <2>3. \A i \in JobIds : i # j => table'[i] = table[i]
    BY <2>2 DEF Typed
  <2>4. edit'[e] = then /\ \A d \in Editors \ {e} : edit'[d] = edit[d]
    BY <2>2 DEF Typed
  <2>5. CopyCurrent'
    BY <2>2, <2>3, <2>4
  <2>6. ClearedEmpty'
    BY <2>2, <2>4
  <2>7. ScheduleLagExplained'
    BY <2>2, <2>3, <2>4
  <2> QED
    BY <2>5, <2>6, <2>7
<1>2. ASSUME NEW e \in Editors, ReadTable(e) PROVE LagInv'
  <2>1. /\ edit[e] = "committed" /\ edit' = [edit EXCEPT ![e] = "loaded"]
        /\ copy' = [copy EXCEPT ![e] = [j \in JobIds |-> Wanted(table[j])]]
        /\ crossed' = crossed \ {e}
        /\ UNCHANGED <<up, table, entry, torn>>
    BY <1>2 DEF ReadTable, scheduler
  <2>2. /\ edit'[e] = "loaded" /\ \A d \in Editors \ {e} : edit'[d] = edit[d] /\ copy'[d] = copy[d]
        /\ \A j \in JobIds : copy'[e][j] = Wanted(table[j])
    BY <2>1 DEF Typed
  <2>3. CopyCurrent'
    BY <2>1, <2>2
  <2>4. ClearedEmpty'
    BY <2>1, <2>2
  <2>5. ScheduleLagExplained'
    BY <2>1, <2>2
  <2> QED
    BY <2>3, <2>4, <2>5
<1>3. ASSUME NEW e \in Editors, RemoveAllJobs(e) PROVE LagInv'
  <2>1. /\ edit[e] = "loaded" /\ edit' = [edit EXCEPT ![e] = "cleared"]
        /\ crossed' = crossed \cup {d \in Editors \ {e} : edit[d] \in {"loaded", "cleared"}}
        /\ entry' = Nothing
        /\ UNCHANGED <<up, table, copy, silent, torn>>
    BY <1>3 DEF RemoveAllJobs, Cross
  <2>2. edit'[e] = "cleared" /\ \A d \in Editors \ {e} : edit'[d] = edit[d]
    BY <2>1 DEF Typed
  <2> QED
    BY <2>1, <2>2
<1>4. ASSUME NEW e \in Editors, Register(e) PROVE LagInv'
  <2>1. /\ edit[e] = "cleared" /\ edit' = [edit EXCEPT ![e] = "idle"]
        /\ copy' = [copy EXCEPT ![e] = Nothing]
        /\ crossed' = crossed \cup {d \in Editors \ {e} : edit[d] \in {"loaded", "cleared"}}
        /\ torn' = (e \in crossed)
        /\ entry' = [j \in JobIds |-> IF copy[e][j] # NoCron THEN copy[e][j] ELSE entry[j]]
        /\ UNCHANGED <<up, table, silent>>
    BY <1>4 DEF Register, Cross
  <2>2. edit'[e] = "idle" /\ \A d \in Editors \ {e} : edit'[d] = edit[d] /\ copy'[d] = copy[d]
    BY <2>1 DEF Typed
  <2>3. CopyCurrent' /\ ClearedEmpty'
    BY <2>1, <2>2
  \* What an uncrossed reload registers is what it read, and nothing else.
  <2>4. ASSUME e \notin crossed, NEW j \in JobIds PROVE entry'[j] = copy[e][j]
    <3>1. entry[j] = NoCron
      BY <2>1, <2>4 DEF Nothing
    <3> QED
      BY <2>1, <3>1
  <2>5. ScheduleLagExplained'
    <3> SUFFICES ASSUME Settled', ~torn', NEW j \in JobIds \ silent'
                 PROVE  entry'[j] = Wanted(table'[j])
      OBVIOUS
    <3>1. e \notin crossed /\ \A d \in Editors \ {e} : edit[d] = "idle"
      BY <2>1, <2>2
    <3>2. copy[e][j] = Wanted(table[j])
      BY <2>1, <3>1
    <3> QED
      BY <2>1, <2>4, <3>1, <3>2
  <2> QED
    BY <2>3, <2>5
<1>5. ASSUME NEW j \in JobIds, FireReads(j) \/ FireStarts(j) \/ RunStarts(j) \/ RunEnds(j)
      PROVE  LagInv'
  BY <1>5 DEF FireReads, FireStarts, RunStarts, RunEnds, scheduler, requests, history
<1>6. CASE Crash
  BY <1>6 DEF Crash, Typed
<1>7. CASE Startup
  BY <1>7 DEF Startup, requests, UpkeepInv
<1>8. CASE UNCHANGED vars
  BY <1>8 DEF vars, scheduler, requests, history
<1> QED
  BY <1>1, <1>2, <1>3, <1>4, <1>5, <1>6, <1>7, <1>8 DEF Next, Reload

\* Between requests the scheduler fires what the job table asks for, except for
\* jobs changed by a handler that does not reload and after reloads that
\* crossed: no order of requests, reloads, deletions, reused ids and restarts
\* has another effect.
THEOREM ScheduleFollowsTable == Spec => []ScheduleLagExplained
  <1>1. Init => UpkeepInv /\ LagInv
    <2>1. Wanted(NoRow) = NoCron
      BY DEF Wanted, NoRow
    <2> QED
      BY <2>1 DEF Init, UpkeepInv, LagInv, CopyCurrent, ClearedEmpty, Uncrossed,
                  ScheduleLagExplained, Settled, Nothing
  <1>2. LagInv => ScheduleLagExplained
    BY DEF LagInv
  <1> QED
    BY <1>1, <1>2, TypedInit, TypedStep, UpkeepStep, LagStep, PTL DEF Spec

-----------------------------------------------------------------------------
(* The watcher.  It shares no variable with the scheduler: the wait between *)
(* two cycles of a continuous job is lengthened only when nothing moved.    *)

\* The waits are a function; WatcherTypeOK says what its values are.
WatchTyped == WatcherTypeOK /\ wait = [j \in Jobs |-> wait[j]]

\* The job that was asked about is due, and the watcher has a state for it.
AskedIsDue == at = "asked" => wait[cur] = 0 /\ interval[cur] # 0

\* A run that counts has left a row behind that is not pruned: pruning takes the
\* rows of quiet cycles only, and only a stamp makes both of them old.
OwedIsLeft == \A j \in Jobs : owed[j] => left[j]

\* The answer stays right until the stamp: what ends in between is too late for
\* the question, and counts with the cycle that is about to be stamped.
AnswerStands == at = "asked" /\ ~changed /\ stamped[cur] => ~owed[cur]

WatchInv == WatchTyped /\ AskedIsDue /\ OwedIsLeft /\ AnswerStands

\* Whatever the last cycle found, the next interval lies between the two.
LEMMA IntervalBounded ==
  ASSUME NEW i \in {0} \cup Floor..Ceiling, NEW moved \in BOOLEAN
  PROVE  /\ NextInterval(i, moved) \in Floor..Ceiling
         /\ moved => NextInterval(i, moved) = Floor
  BY WatcherAssumption DEF NextInterval, Lesser, Greater

LEMMA WatchInit == WatcherInit => WatchInv
<1> SUFFICES ASSUME WatcherInit PROVE WatchInv
  OBVIOUS
<1>1. \A j \in Jobs : interval[j] = 0 /\ wait[j] = 0 /\ wait[j] \in 0..interval[j]
  BY DEF WatcherInit
<1>2. job \in [Jobs -> {"watched", "other", "gone"}]
  BY DEF WatcherInit
<1>3. WatcherTypeOK
  BY <1>1, <1>2, WatcherAssumption DEF WatcherInit, WatcherTypeOK
<1> QED
  BY <1>3 DEF WatcherInit, WatchInv, WatchTyped, AskedIsDue, OwedIsLeft, AnswerStands

LEMMA WatchStep == WatchInv /\ [WatcherNext]_watcherVars => WatchInv'
<1> SUFFICES ASSUME WatchInv, [WatcherNext]_watcherVars PROVE WatchInv'
  OBVIOUS
<1> USE WatcherAssumption DEF WatchInv, WatchTyped, AskedIsDue, OwedIsLeft, AnswerStands,
        jobVars, rowVars, stateVars, passVars
<1>1. CASE Wake
  BY <1>1 DEF Wake, WatcherTypeOK, Watched
<1>2. CASE Rest
  BY <1>2 DEF Rest, WatcherTypeOK
<1>3. CASE Stamp
  <2>1. cur \in Jobs
    BY <1>3 DEF Stamp, WatcherTypeOK
  <2>2. NextInterval(interval[cur], changed) \in Floor..Ceiling
    BY <2>1, IntervalBounded DEF WatcherTypeOK
  <2>3. /\ interval' \in [Jobs -> {0} \cup Floor..Ceiling]
        /\ \A j \in Jobs : wait'[j] \in 0..interval'[j]
    BY <1>3, <2>1, <2>2 DEF Stamp, WatcherTypeOK
  <2>4. fading' \in [Jobs -> {"no", "old", "young"}]
    BY <1>3 DEF Stamp, WatcherTypeOK
  <2>5. WatcherTypeOK'
    BY <1>3, <2>1, <2>3, <2>4 DEF Stamp, WatcherTypeOK
  <2> QED
    BY <1>3, <2>1, <2>5 DEF Stamp, WatcherTypeOK
<1>4. CASE Start
  <2>1. cur \in Jobs
    BY <1>4 DEF Start, WatcherTypeOK
  <2>2. CASE job[cur] = "gone"
    BY <1>4, <2>1, <2>2 DEF Start, WatcherTypeOK, AbandonPass
  <2>3. CASE job[cur] # "gone" /\ Active(cur)
    <3>1. Reschedule /\ UNCHANGED jobVars /\ UNCHANGED <<rowVars, interval, stamped, changed, owed>>
      BY <1>4, <2>3 DEF Start
    <3>2. \A j \in Jobs : wait'[j] \in 0..interval'[j]
      BY <2>1, <3>1 DEF Reschedule, WatcherTypeOK
    <3>3. WatcherTypeOK'
      BY <2>1, <3>1, <3>2 DEF Reschedule, WatcherTypeOK
    <3> QED
      BY <3>1, <3>3 DEF Reschedule
  <2>4. CASE job[cur] # "gone" /\ ~Active(cur)
    BY <1>4, <2>1, <2>4 DEF Start, WatcherTypeOK
  <2> QED
    BY <2>2, <2>3, <2>4
<1>5. CASE WatcherSubmits
  <2>1. cur \in Jobs
    BY <1>5 DEF WatcherSubmits, WatcherTypeOK
  <2>2. /\ run' \in [Jobs -> {"none", "made", "queued", "running", "lost"}]
        /\ UNCHANGED <<job, quiet, rowVars, interval, stamped, changed, owed>>
        /\ Reschedule \/ AbandonPass
    BY <1>5, <2>1 DEF WatcherSubmits, WatcherTypeOK
  <2>3. CASE Reschedule
    <3>1. \A j \in Jobs : wait'[j] \in 0..interval'[j]
      BY <2>1, <2>2, <2>3 DEF Reschedule, WatcherTypeOK
    <3>2. WatcherTypeOK'
      BY <2>1, <2>2, <2>3, <3>1 DEF Reschedule, WatcherTypeOK
    <3> QED
      BY <2>2, <2>3, <3>2 DEF Reschedule
  <2>4. CASE AbandonPass
    BY <2>2, <2>4 DEF AbandonPass, WatcherTypeOK
  <2> QED
    BY <2>2, <2>3, <2>4
<1>6. ASSUME NEW j \in Jobs, PassOver(j) PROVE WatchInv'
  BY <1>6 DEF PassOver, WatcherTypeOK
<1>7. ASSUME NEW j \in Jobs, Ask(j) PROVE WatchInv'
  BY <1>7 DEF Ask, WatcherTypeOK
<1>8. ASSUME NEW j \in Jobs, FindGone(j) PROVE WatchInv'
  BY <1>8 DEF FindGone, WatcherTypeOK, AbandonPass
<1>9. ASSUME NEW j \in Jobs, RequestRun(j) PROVE WatchInv'
  BY <1>9 DEF RequestRun, WatcherTypeOK
<1>10. ASSUME NEW j \in Jobs, Begin(j) PROVE WatchInv'
  BY <1>10 DEF Begin, WatcherTypeOK
<1>11. ASSUME NEW j \in Jobs, NEW o \in Outcomes, Finish(j, o) PROVE WatchInv'
  BY <1>11 DEF Finish, WatcherTypeOK
<1>12. ASSUME NEW j \in Jobs, PruneQuietCycle(j) PROVE WatchInv'
  BY <1>12 DEF PruneQuietCycle, WatcherTypeOK
<1>13. ASSUME NEW j \in Jobs, JobEdited(j) PROVE WatchInv'
  BY <1>13 DEF JobEdited, WatcherTypeOK
<1>14. ASSUME NEW j \in Jobs, JobDeleted(j) PROVE WatchInv'
  BY <1>14 DEF JobDeleted, WatcherTypeOK
<1>15. ASSUME NEW j \in Jobs, JobCreated(j) PROVE WatchInv'
  BY <1>15 DEF JobCreated, WatcherTypeOK
<1>16. CASE UNCHANGED watcherVars
  BY <1>16 DEF watcherVars, WatcherTypeOK
<1> QED
  BY <1>1, <1>2, <1>3, <1>4, <1>5, <1>6, <1>7, <1>8, <1>9, <1>10, <1>11, <1>12, <1>13,
     <1>14, <1>15, <1>16 DEF WatcherNext, Watching, Running, Operating

\* Every variable keeps its type; no wait exceeds the interval it was set from,
\* and no interval its floor and ceiling.
THEOREM WaitsTypeCorrect == WatcherSpec => []WatcherTypeOK
<1>1. WatchInv => WatcherTypeOK
  BY DEF WatchInv, WatchTyped
<1> QED
  BY <1>1, WatchInit, WatchStep, PTL DEF WatcherSpec

\* The watcher lengthens a wait only where no run that moved something or failed
\* has ended since the last stamp: the rows it reads tell it, whatever is pruned,
\* edited, deleted and created again between the reading and the stamp.
THEOREM WidensQuietly == WatcherSpec => WidensOnlyWhenQuiet
<1>1. ASSUME WatchInv, [WatcherNext]_watcherVars, NEW j \in Jobs,
             at = "asked", cur = j, stamped[j], at' = "stamped",
             interval'[j] > interval[j] \/ interval'[j] > Floor
      PROVE  ~owed[j]
  <2>1. Stamp
    BY <1>1 DEF WatcherNext, watcherVars, Watching, Running, Operating, Wake, Rest, Start, WatcherSubmits,
         PassOver, Ask, FindGone, RequestRun, Begin, Finish, PruneQuietCycle, JobEdited,
         JobDeleted, JobCreated, passVars
  <2>2. interval[j] \in Floor..Ceiling /\ changed \in BOOLEAN
    BY <1>1 DEF WatchInv, WatchTyped, WatcherTypeOK, AskedIsDue
  <2>3. interval'[j] = NextInterval(interval[j], changed)
    BY <1>1, <2>1 DEF Stamp, WatchInv, WatchTyped, WatcherTypeOK
  <2>4. ~changed
    BY <1>1, <2>2, <2>3, IntervalBounded, WatcherAssumption
  <2> QED
    BY <1>1, <2>4 DEF WatchInv, AnswerStands
<1>2. WatchInv /\ [WatcherNext]_watcherVars =>
        [\A j \in Jobs : at = "asked" /\ cur = j /\ stamped[j] /\ at' = "stamped"
            /\ (interval'[j] > interval[j] \/ interval'[j] > Floor) => ~owed[j]]_watcherVars
  BY <1>1
<1> QED
  BY <1>2, WatchInit, WatchStep, PTL DEF WatcherSpec, WidensOnlyWhenQuiet
=============================================================================
