------------------------ MODULE RunLifecycle_proofs ------------------------
(***************************************************************************)
(* Theorems about RunLifecycle, for any number of jobs, workers, requests  *)
(* and run ids.  First the types, one active row per job, the registry and *)
(* the owners of rows, whatever is cancelled, deleted or goes wrong; then  *)
(* the exclusion of two runs of one job, and what it takes.                *)
(***************************************************************************)
EXTENDS RunLifecycle, FiniteSetTheorems, FunctionTheorems, WellFoundedInduction, TLAPS

\* A worker past its first reads has a run and a job; only LiveRunner's
\* workers get beyond planning; a child belongs to a worker that has it.
WorkerOK ==
    \A w \in Workers :
        /\ pc[w] \notin {"idle", "closing"} => run[w] \in RunIds /\ work[w] \in Jobs
        /\ pc[w] \in {"cleared", "spawned", "registered", "consuming", "recorded"}
              => w \in LiveWorkers
        /\ Alive(w) => pc[w] \in {"spawned", "registered", "consuming"}

\* A request that submits or cancels holds a run.
RequestOK ==
    \A r \in Requests : step[r] \notin {"idle", "deleteCommit"} => held[r] \in RunIds

Typed == TypeOK /\ WorkerOK /\ RequestOK

\* What submitting to a queue and taking from one leave behind.
LEMMA QueuePut ==
  ASSUME NEW P, NEW S, NEW f \in [P -> Seq(S)], NEW p \in P, NEW x \in S
  PROVE  [f EXCEPT ![p] = Append(@, x)] \in [P -> Seq(S)]
  <1>1. Append(f[p], x) \in Seq(S)
    OBVIOUS
  <1> QED
    BY <1>1

\* And taking the head leaves a sequence of run ids.
LEMMA QueueTake ==
  ASSUME NEW P, NEW S, NEW f \in [P -> Seq(S)], NEW p \in P, f[p] # <<>>
  PROVE  /\ Head(f[p]) \in S
         /\ [f EXCEPT ![p] = Tail(@)] \in [P -> Seq(S)]
  <1>1. Head(f[p]) \in S /\ Tail(f[p]) \in Seq(S)
    OBVIOUS
  <1> QED
    BY <1>1

\* The outcome of a run goes to a row that is there, and the worker moves on.
LEMMA OutcomeTyped ==
  ASSUME Typed, NEW w \in Workers, run[w] \in RunIds,
         NEW s \in Status \ {"absent"}, NEW next \in PCs, WriteOutcome(w, s, next)
  PROVE  /\ status' \in [RunIds -> Status]
         /\ \A id \in RunIds : status'[id] = "absent" <=> status[id] = "absent"
         /\ pc' \in [Workers -> PCs]
         /\ pc'[w] \in {next, "closing"}
         /\ \A v \in Workers \ {w} : pc'[v] = pc[v]
  <1> USE DEF Typed, TypeOK, WriteOutcome, At, Present
  <1>1. CASE Present(run[w])
    <2>1. pc' = [pc EXCEPT ![w] = next] /\ status' = [status EXCEPT ![run[w]] = s]
      BY <1>1
    <2>2. pc' \in [Workers -> PCs] /\ pc'[w] = next /\ \A v \in Workers \ {w} : pc'[v] = pc[v]
      BY <2>1
    <2>3. status' \in [RunIds -> Status]
      BY <2>1
    <2>4. \A id \in RunIds : status'[id] = "absent" <=> status[id] = "absent"
      BY <1>1, <2>1
    <2> QED
      BY <2>2, <2>3, <2>4
  <1>2. CASE ~Present(run[w])
    BY <1>2 DEF Status, PCs
  <1> QED
    BY <1>1, <1>2

\* Every step keeps the types, and what a worker and a request hold.
LEMMA TypedStep == Typed /\ [Next]_vars => Typed'
<1> SUFFICES ASSUME Typed, [Next]_vars PROVE Typed'
  OBVIOUS
<1> USE ConstantsAssumption DEF Typed, TypeOK, WorkerOK, RequestOK, Workers, RunIds, NoRun,
        Pools, PoolOf, Active, Finished, Status, Steps, PCs, ProcStates, Present,
        ActiveRow, HasActiveRow, Alive, rowVars, requestVars, workerVars
<1>1. ASSUME NEW r \in Requests, NEW j \in jobs, NEW m \in Modes, CreateRun(r, j, m)
      PROVE  Typed'
  BY <1>1 DEF CreateRun, Insert, NextId, Goto
<1>2. ASSUME NEW r \in Requests, NEW j \in jobs, RecordSkip(r, j)
      PROVE  Typed'
  BY <1>2 DEF RecordSkip, Insert, NextId
<1>3. ASSUME NEW r \in Requests, NEW j \in jobs, ApiDelete(r, j)
      PROVE  Typed'
  BY <1>3 DEF ApiDelete, DropJob
<1>4. ASSUME NEW r \in Requests, NEW j \in jobs, FormDeleteCheck(r, j)
      PROVE  Typed'
  BY <1>4 DEF FormDeleteCheck, Goto
<1>5. ASSUME NEW r \in Requests, NEW id \in RunIds, CancelRead(r, id)
      PROVE  Typed'
  BY <1>5 DEF CancelRead, Goto
<1>6. ASSUME NEW r \in Requests, Submit(r)
      PROVE  Typed'
  <2>1. step[r] \notin {"idle", "deleteCommit"} /\ held[r] \in RunIds
    BY <1>6 DEF Submit
  <2>2. queue' \in [Pools -> Seq(RunIds)]
    <3>1. CASE UNCHANGED queue
      BY <3>1
    <3>2. ASSUME NEW p \in Pools, queue' = [queue EXCEPT ![p] = Append(@, held[r])]
          PROVE  queue' \in [Pools -> Seq(RunIds)]
      BY <2>1, <3>2, QueuePut
    <3> QED
      BY <1>6, <3>1, <3>2 DEF Submit
  <2>3. step' \in [Requests -> Steps] /\ held' \in [Requests -> RunIds \cup {NoRun}]
        /\ doomed' \in [Requests -> Jobs \cup {NoJob}]
    BY <1>6 DEF Submit, Goto
  <2>4. RequestOK'
    BY <1>6 DEF Submit, Goto
  <2>5. TypeOK'
    BY <1>6, <2>2, <2>3 DEF Submit
  <2>6. WorkerOK'
    BY <1>6 DEF Submit
  <2> QED
    BY <2>4, <2>5, <2>6
<1>7. ASSUME NEW r \in Requests, CancelCommit(r)
      PROVE  Typed'
  <2>1. held[r] \in RunIds
    BY <1>7 DEF CancelCommit
  <2>2. CASE Present(held[r]) /\ status' = [status EXCEPT ![held[r]] = "cancelled"]
             /\ Goto(r, "cancelStop", held[r], NoJob)
    <3>1. TypeOK'
      BY <1>7, <2>1, <2>2 DEF CancelCommit, Goto
    <3>2. WorkerOK' /\ RequestOK'
      BY <1>7, <2>1, <2>2 DEF CancelCommit, Goto
    <3> QED
      BY <3>1, <3>2
  <2>3. CASE Goto(r, "idle", NoRun, NoJob) /\ UNCHANGED status
    BY <1>7, <2>3 DEF CancelCommit, Goto
  <2> QED
    BY <1>7, <2>2, <2>3 DEF CancelCommit
<1>8. ASSUME NEW r \in Requests, CancelStop(r)
      PROVE  Typed'
  BY <1>8 DEF CancelStop, Goto, Signal
<1>9. ASSUME NEW r \in Requests, FormDeleteCommit(r)
      PROVE  Typed'
  BY <1>9 DEF FormDeleteCommit, Goto, DropJob
<1>10. ASSUME NEW w \in Workers, Take(w)
      PROVE  Typed'
  <2> DEFINE id == Head(queue[PoolOf(w)])
  <2>1. PoolOf(w) \in Pools /\ queue[PoolOf(w)] # <<>>
    BY <1>10 DEF Take
  <2>2. id \in RunIds /\ [queue EXCEPT ![PoolOf(w)] = Tail(@)] \in [Pools -> Seq(RunIds)]
    <3>1. queue \in [Pools -> Seq(RunIds)]
      OBVIOUS
    <3> HIDE DEF Pools, RunIds, PoolOf
    <3> QED
      BY <2>1, <3>1, QueueTake
  <2>3. queue' \in [Pools -> Seq(RunIds)]
    BY <1>10, <2>2 DEF Take
  <2>4. /\ run' = [run EXCEPT ![w] = id]
        /\ work' = [work EXCEPT ![w] = jobOf[id]]
        /\ \E s \in {"closing", "reloaded", "loaded"} :
              pc' = [pc EXCEPT ![w] = s] /\ (s # "closing" => Present(id))
        /\ UNCHANGED <<phase, jobs, status, jobOf, step, held, doomed, proc, active, orphans>>
        /\ pc[w] = "idle"
    BY <1>10 DEF Take, At
  <2> HIDE DEF id
  <2>5. TypeOK'
    BY <2>2, <2>3, <2>4
  <2>6. WorkerOK'
    BY <2>2, <2>4
  <2>7. RequestOK'
    BY <2>4
  <2> QED
    BY <2>5, <2>6, <2>7
<1>11. ASSUME NEW w \in Workers, MarkRunning(w)
      PROVE  Typed'
  <2>1. run[w] \in RunIds /\ work[w] \in Jobs /\ pc[w] \in {"loaded", "reloaded"}
    BY <1>11 DEF MarkRunning
  <2>2. \E s \in {"closing", "planning"} : pc' = [pc EXCEPT ![w] = s]
    BY <1>11 DEF MarkRunning, At
  <2>3. \/ UNCHANGED status
        \/ Present(run[w]) /\ status' = [status EXCEPT ![run[w]] = "running"]
    BY <1>11 DEF MarkRunning
  <2>4. TypeOK'
    <3>1. status' \in [RunIds -> Status] /\ \A id \in RunIds : Present(id)' <=> Present(id)
      <4>1. CASE UNCHANGED status
        BY <4>1
      <4>2. CASE Present(run[w]) /\ status' = [status EXCEPT ![run[w]] = "running"]
        <5>1. "running" \in Status \ {"absent"}
          OBVIOUS
        <5> QED
          BY <2>1, <4>2, <5>1
      <4> QED
        BY <2>3, <4>1, <4>2
    <3>2. pc' \in [Workers -> PCs]
      BY <2>2
    <3> QED
      BY <1>11, <3>1, <3>2 DEF MarkRunning
  <2>5. WorkerOK'
    BY <1>11, <2>1, <2>2 DEF MarkRunning
  <2>6. RequestOK'
    BY <1>11 DEF MarkRunning
  <2> QED
    BY <2>4, <2>5, <2>6
<1>12. ASSUME NEW w \in Workers, PlanFails(w)
      PROVE  Typed'
  <2>1. pc[w] = "planning" /\ run[w] \in RunIds
    BY <1>12 DEF PlanFails
  <2>2. /\ status' \in [RunIds -> Status]
        /\ \A id \in RunIds : status'[id] = "absent" <=> status[id] = "absent"
        /\ pc' \in [Workers -> PCs]
        /\ pc'[w] = "closing"
        /\ \A v \in Workers \ {w} : pc'[v] = pc[v]
    BY <1>12, <2>1, OutcomeTyped DEF PlanFails
  <2>3. TypeOK'
    BY <1>12, <2>2 DEF PlanFails
  <2>4. WorkerOK'
    BY <1>12, <2>1, <2>2 DEF PlanFails
  <2>5. RequestOK'
    BY <1>12 DEF PlanFails
  <2> QED
    BY <2>3, <2>4, <2>5
<1>13. ASSUME NEW w \in Workers, DryRunEnds(w)
      PROVE  Typed'
  <2>1. pc[w] = "planning" /\ run[w] \in RunIds
    BY <1>13 DEF DryRunEnds
  <2>2. /\ status' \in [RunIds -> Status]
        /\ \A id \in RunIds : status'[id] = "absent" <=> status[id] = "absent"
        /\ pc' \in [Workers -> PCs]
        /\ pc'[w] = "closing"
        /\ \A v \in Workers \ {w} : pc'[v] = pc[v]
    BY <1>13, <2>1, OutcomeTyped DEF DryRunEnds
  <2>3. TypeOK'
    BY <1>13, <2>2 DEF DryRunEnds
  <2>4. WorkerOK'
    BY <1>13, <2>1, <2>2 DEF DryRunEnds
  <2>5. RequestOK'
    BY <1>13 DEF DryRunEnds
  <2> QED
    BY <2>3, <2>4, <2>5
<1>14. ASSUME NEW w \in Workers, PlanCleared(w)
      PROVE  Typed'
  BY <1>14 DEF PlanCleared, At
<1>15. ASSUME NEW w \in Workers, Spawn(w)
      PROVE  Typed'
  BY <1>15 DEF Spawn, At
<1>16. ASSUME NEW w \in Workers, Register(w)
      PROVE  Typed'
  BY <1>16 DEF Register, At
<1>17. ASSUME NEW w \in Workers, CommitCommand(w)
      PROVE  Typed'
  <2>1. run[w] \in RunIds /\ work[w] \in Jobs /\ w \in LiveWorkers
    BY <1>17 DEF CommitCommand
  <2>2. CASE At(w, "consuming") /\ UNCHANGED <<proc, orphans>>
    BY <1>17, <2>1, <2>2 DEF CommitCommand, At
  <2>3. CASE Abandon(w)
    <3>1. TypeOK'
      BY <1>17, <2>1, <2>3 DEF CommitCommand, Abandon, At
    <3>2. WorkerOK'
      BY <1>17, <2>1, <2>3 DEF CommitCommand, Abandon, At
    <3>3. RequestOK'
      BY <1>17 DEF CommitCommand
    <3> QED
      BY <3>1, <3>2, <3>3
  <2> QED
    BY <1>17, <2>2, <2>3 DEF CommitCommand
<1>18. ASSUME NEW w \in Workers, Record(w)
      PROVE  Typed'
  <2> DEFINE s == CASE proc[w] = "ok" -> "success" [] proc[w] = "error" -> "failed"
                    [] OTHER -> "cancelled"
             next == IF proc[w] = "ok" THEN "recorded" ELSE "closing"
  <2>1. pc[w] = "consuming" /\ run[w] \in RunIds /\ work[w] \in Jobs /\ w \in LiveWorkers
    BY <1>18 DEF Record
  <2>2. s \in Status \ {"absent"} /\ next \in PCs /\ WriteOutcome(w, s, next)
    BY <1>18 DEF Record
  <2>3. /\ status' \in [RunIds -> Status]
        /\ \A id \in RunIds : status'[id] = "absent" <=> status[id] = "absent"
        /\ pc' \in [Workers -> PCs]
        /\ pc'[w] \in {"recorded", "closing"}
        /\ \A v \in Workers \ {w} : pc'[v] = pc[v]
    <3> HIDE DEF s
    <3> QED BY <2>1, <2>2, OutcomeTyped 
  <2>4. TypeOK'
    BY <1>18, <2>3 DEF Record
  <2>5. WorkerOK'
    BY <1>18, <2>1, <2>3 DEF Record
  <2>6. RequestOK'
    BY <1>18 DEF Record
  <2> QED
    BY <2>4, <2>5, <2>6
<1>19. ASSUME NEW w \in Workers, PruneQuietCycle(w)
      PROVE  Typed'
  <2>1. pc[w] = "recorded" /\ run[w] \in RunIds
    BY <1>19 DEF PruneQuietCycle
  <2>2. pc' = [pc EXCEPT ![w] = "closing"]
    BY <1>19 DEF PruneQuietCycle, At
  <2>3. \/ UNCHANGED <<status, jobOf>>
        \/ /\ status' = [status EXCEPT ![run[w]] = "absent"]
           /\ jobOf' = [jobOf EXCEPT ![run[w]] = NoJob]
    BY <1>19 DEF PruneQuietCycle
  <2>4. TypeOK'
    <3>1. /\ status' \in [RunIds -> Status]
          /\ jobOf' \in [RunIds -> Jobs \cup {NoJob}]
          /\ \A id \in RunIds : Present(id)' <=> jobOf'[id] # NoJob
      <4>1. CASE UNCHANGED <<status, jobOf>>
        BY <4>1
      <4>2. CASE /\ status' = [status EXCEPT ![run[w]] = "absent"]
                 /\ jobOf' = [jobOf EXCEPT ![run[w]] = NoJob]
        BY <2>1, <4>2
      <4> QED
        BY <2>3, <4>1, <4>2
    <3>2. pc' \in [Workers -> PCs]
      BY <2>2
    <3> QED
      BY <1>19, <3>1, <3>2 DEF PruneQuietCycle
  <2>5. WorkerOK'
    BY <1>19, <2>1, <2>2 DEF PruneQuietCycle
  <2>6. RequestOK'
    BY <1>19 DEF PruneQuietCycle
  <2> QED
    BY <2>4, <2>5, <2>6
<1>20. ASSUME NEW w \in Workers, Close(w)
      PROVE  Typed'
  BY <1>20 DEF Close, At
<1>21. ASSUME NEW w \in Workers, UnexpectedError(w)
      PROVE  Typed'
  <2>1. /\ pc' = [pc EXCEPT ![w] = "closing"]
        /\ proc' = [proc EXCEPT ![w] = "none"]
        /\ orphans' = IF Alive(w) THEN orphans \cup {work[w]} ELSE orphans
        /\ UNCHANGED <<phase, jobs, rowVars, requestVars, queue, run, work, active>>
    BY <1>21 DEF UnexpectedError, At, Abandon
  <2>2. Alive(w) => work[w] \in Jobs
    OBVIOUS
  <2>3. TypeOK'
    BY <2>1, <2>2
  <2>4. WorkerOK'
    BY <2>1
  <2>5. RequestOK'
    BY <2>1
  <2> QED
    BY <2>3, <2>4, <2>5
<1>22. ASSUME NEW w \in Workers, ChildExits(w)
      PROVE  Typed'
  BY <1>22 DEF ChildExits
<1>23. ASSUME NEW j \in Jobs, OrphanExits(j)
      PROVE  Typed'
  BY <1>23 DEF OrphanExits
<1>24. CASE PruneRuns
  BY <1>24 DEF PruneRuns, Prunable
<1>25. CASE Shutdown
  BY <1>25 DEF Shutdown, Signal
<1>29. CASE ClosePools
  BY <1>29 DEF ClosePools
<1>26. CASE Crash
  BY <1>26 DEF Crash
<1>27. CASE Startup
  BY <1>27 DEF Startup
<1>28. CASE UNCHANGED vars
  BY <1>28 DEF vars
<1> QED
  BY <1>1, <1>2, <1>3, <1>4, <1>5, <1>6, <1>7, <1>8, <1>9, <1>10, <1>11, <1>12, <1>13, <1>14,
     <1>15, <1>16, <1>17, <1>18, <1>19, <1>20, <1>21, <1>22, <1>23, <1>24, <1>25, <1>26, <1>27, <1>28, <1>29
     DEF Next, RequestBegins, RequestStep, WorkerStep

\* The initial state is typed.
LEMMA TypedInit == Init => Typed
  BY ConstantsAssumption DEF Init, Typed, TypeOK, WorkerOK, RequestOK, Workers, RunIds, NoRun,
     Pools, Status, Active, Finished, Steps, PCs, ProcStates, Present, Alive

\* No commit gives a job a second active row.
LEMMA OneActiveStep == Typed /\ OneActivePerJob /\ [Next]_vars => OneActivePerJob'
<1> SUFFICES ASSUME Typed /\ OneActivePerJob, [Next]_vars PROVE OneActivePerJob'
  OBVIOUS
<1> USE ConstantsAssumption DEF Typed, TypeOK, OneActivePerJob, Workers, RunIds, NoRun,
        Pools, PoolOf, Active, Finished, Status, Steps, PCs, ProcStates, Present,
        ActiveRow, HasActiveRow, Alive, rowVars, requestVars, workerVars
<1>1. ASSUME NEW r \in Requests, NEW j \in jobs, NEW m \in Modes, CreateRun(r, j, m)
      PROVE  OneActivePerJob'
  BY <1>1 DEF CreateRun, Insert, NextId, Goto
<1>2. ASSUME NEW r \in Requests, NEW j \in jobs, RecordSkip(r, j)
      PROVE  OneActivePerJob'
  BY <1>2 DEF RecordSkip, Insert, NextId
<1>3. ASSUME NEW r \in Requests, NEW j \in jobs, ApiDelete(r, j)
      PROVE  OneActivePerJob'
  BY <1>3 DEF ApiDelete, DropJob
<1>4. ASSUME NEW r \in Requests, NEW j \in jobs, FormDeleteCheck(r, j)
      PROVE  OneActivePerJob'
  BY <1>4 DEF FormDeleteCheck, Goto
<1>5. ASSUME NEW r \in Requests, NEW id \in RunIds, CancelRead(r, id)
      PROVE  OneActivePerJob'
  BY <1>5 DEF CancelRead, Goto
<1>6. ASSUME NEW r \in Requests, Submit(r)
      PROVE  OneActivePerJob'
  BY <1>6 DEF Submit, Goto
<1>7. ASSUME NEW r \in Requests, CancelCommit(r)
      PROVE  OneActivePerJob'
  BY <1>7 DEF CancelCommit, Goto
<1>8. ASSUME NEW r \in Requests, CancelStop(r)
      PROVE  OneActivePerJob'
  BY <1>8 DEF CancelStop, Goto, Signal
<1>9. ASSUME NEW r \in Requests, FormDeleteCommit(r)
      PROVE  OneActivePerJob'
  BY <1>9 DEF FormDeleteCommit, Goto, DropJob
<1>10. ASSUME NEW w \in Workers, Take(w)
      PROVE  OneActivePerJob'
  BY <1>10 DEF Take, At
<1>11. ASSUME NEW w \in Workers, MarkRunning(w)
      PROVE  OneActivePerJob'
  <2>1. CASE UNCHANGED status
    BY <1>11, <2>1 DEF MarkRunning
  <2>2. CASE /\ status' = [status EXCEPT ![run[w]] = "running"]
             /\ \A other \in RunIds \ {run[w]} : ~ActiveRow(other, jobOf[run[w]])
    BY <1>11, <2>2 DEF MarkRunning
  <2> QED
    BY <1>11, <2>1, <2>2 DEF MarkRunning
<1>12. ASSUME NEW w \in Workers, PlanFails(w)
      PROVE  OneActivePerJob'
  BY <1>12 DEF PlanFails, WriteOutcome, At
<1>13. ASSUME NEW w \in Workers, DryRunEnds(w)
      PROVE  OneActivePerJob'
  BY <1>13 DEF DryRunEnds, WriteOutcome, At
<1>14. ASSUME NEW w \in Workers, PlanCleared(w)
      PROVE  OneActivePerJob'
  BY <1>14 DEF PlanCleared, At
<1>15. ASSUME NEW w \in Workers, Spawn(w)
      PROVE  OneActivePerJob'
  BY <1>15 DEF Spawn, At
<1>16. ASSUME NEW w \in Workers, Register(w)
      PROVE  OneActivePerJob'
  BY <1>16 DEF Register, At
<1>17. ASSUME NEW w \in Workers, CommitCommand(w)
      PROVE  OneActivePerJob'
  BY <1>17 DEF CommitCommand, At, Abandon
<1>18. ASSUME NEW w \in Workers, Record(w)
      PROVE  OneActivePerJob'
  BY <1>18 DEF Record, At, WriteOutcome
<1>19. ASSUME NEW w \in Workers, PruneQuietCycle(w)
      PROVE  OneActivePerJob'
  BY <1>19 DEF PruneQuietCycle, At
<1>20. ASSUME NEW w \in Workers, Close(w)
      PROVE  OneActivePerJob'
  BY <1>20 DEF Close, At
<1>21. ASSUME NEW w \in Workers, UnexpectedError(w)
      PROVE  OneActivePerJob'
  BY <1>21 DEF UnexpectedError, At, Abandon
<1>22. ASSUME NEW w \in Workers, ChildExits(w)
      PROVE  OneActivePerJob'
  BY <1>22 DEF ChildExits
<1>23. ASSUME NEW j \in Jobs, OrphanExits(j)
      PROVE  OneActivePerJob'
  BY <1>23 DEF OrphanExits
<1>24. CASE PruneRuns
  BY <1>24 DEF PruneRuns, Prunable
<1>25. CASE Shutdown
  BY <1>25 DEF Shutdown, Signal
<1>29. CASE ClosePools
  BY <1>29 DEF ClosePools
<1>26. CASE Crash
  BY <1>26 DEF Crash
<1>27. CASE Startup
  BY <1>27 DEF Startup
<1>28. CASE UNCHANGED vars
  BY <1>28 DEF vars
<1> QED
  BY <1>1, <1>2, <1>3, <1>4, <1>5, <1>6, <1>7, <1>8, <1>9, <1>10, <1>11, <1>12, <1>13, <1>14,
     <1>15, <1>16, <1>17, <1>18, <1>19, <1>20, <1>21, <1>22, <1>23, <1>24, <1>25, <1>26, <1>27, <1>28, <1>29
     DEF Next, RequestBegins, RequestStep, WorkerStep

\* Where a worker is while the registry holds its child.
Supervising == {"registered", "consuming", "recorded", "closing"}

\* No step leaves in the registry a child whose worker went on.
LEMMA RegistryStep == Typed /\ RegistrySupervised /\ [Next]_vars => RegistrySupervised'
<1> SUFFICES ASSUME Typed, RegistrySupervised, [Next]_vars PROVE RegistrySupervised'
  OBVIOUS
<1>1. /\ active \in [RunIds -> LiveWorkers \cup {NoWorker}]
      /\ pc \in [Workers -> PCs] /\ run \in [Workers -> RunIds \cup {NoRun}]
      /\ LiveWorkers \subseteq Workers /\ NoWorker \notin Workers
  BY ConstantsAssumption DEF Typed, TypeOK, Workers
<1>2. CASE UNCHANGED <<active, run, pc>>
  BY <1>1, <1>2 DEF RegistrySupervised
\* A worker that moves on and stays within Supervising, or was not in it.
<1>3. ASSUME NEW w \in Workers, UNCHANGED <<active, run>>, NEW s \in PCs, At(w, s),
             pc[w] \in Supervising => s \in Supervising
      PROVE  RegistrySupervised'
  BY <1>1, <1>3 DEF RegistrySupervised, Supervising, At
<1>4. ASSUME NEW r \in Requests, RequestBegins(r) \/ RequestStep(r)
      PROVE  RegistrySupervised'
  BY <1>2, <1>4 DEF RequestBegins, RequestStep, CreateRun, RecordSkip, ApiDelete, FormDeleteCheck,
     CancelRead, Submit, CancelCommit, CancelStop, FormDeleteCommit, workerVars
<1>5. ASSUME NEW w \in Workers, Take(w)
      PROVE  RegistrySupervised'
  <2>1. pc[w] = "idle" /\ UNCHANGED active
    BY <1>5 DEF Take
  <2>2. \A id \in RunIds : active[id] # w
    BY <1>1, <2>1 DEF RegistrySupervised
  <2>3. \A v \in Workers \ {w} : run'[v] = run[v] /\ pc'[v] = pc[v]
    BY <1>1, <1>5 DEF Take, At
  <2> QED
    BY <1>1, <2>1, <2>2, <2>3 DEF RegistrySupervised
<1>6. ASSUME NEW w \in Workers, MarkRunning(w)
      PROVE  RegistrySupervised'
  <2>1. \E s \in {"closing", "planning"} : At(w, s)
    BY <1>6 DEF MarkRunning
  <2> QED
    BY <1>3, <1>6, <2>1 DEF MarkRunning, Supervising, PCs
<1>7. ASSUME NEW w \in Workers, PlanFails(w) \/ DryRunEnds(w)
      PROVE  RegistrySupervised'
  <2>1. At(w, "closing")
    BY <1>7 DEF PlanFails, DryRunEnds, WriteOutcome
  <2> QED
    BY <1>3, <1>7, <2>1 DEF PlanFails, DryRunEnds, Supervising, PCs
<1>8. ASSUME NEW w \in Workers, PlanCleared(w)
      PROVE  RegistrySupervised'
  <2>1. \E s \in {"closing", "cleared"} : At(w, s)
    BY <1>8 DEF PlanCleared
  <2> QED
    BY <1>3, <1>8, <2>1 DEF PlanCleared, Supervising, PCs
<1>9. ASSUME NEW w \in Workers, Spawn(w)
      PROVE  RegistrySupervised'
  BY <1>3, <1>9 DEF Spawn, Supervising, PCs
<1>10. ASSUME NEW w \in Workers, Register(w)
       PROVE  RegistrySupervised'
  <2>1. run[w] \in RunIds
    BY <1>10 DEF Typed, WorkerOK, Register
  <2> QED
    BY <1>1, <1>10, <2>1 DEF Register, At, RegistrySupervised
<1>11. ASSUME NEW w \in Workers, CommitCommand(w) \/ UnexpectedError(w)
       PROVE  RegistrySupervised'
  <2>1. \E s \in {"closing", "consuming"} : At(w, s)
    BY <1>11 DEF CommitCommand, UnexpectedError, Abandon
  <2> QED
    BY <1>3, <1>11, <2>1 DEF CommitCommand, UnexpectedError, Supervising, PCs
<1>12. ASSUME NEW w \in Workers, Record(w)
       PROVE  RegistrySupervised'
  <2>1. \E s \in {"closing", "recorded"} : At(w, s)
    BY <1>12 DEF Record, WriteOutcome
  <2> QED
    BY <1>3, <1>12, <2>1 DEF Record, Supervising, PCs
<1>13. ASSUME NEW w \in Workers, PruneQuietCycle(w)
       PROVE  RegistrySupervised'
  BY <1>3, <1>13 DEF PruneQuietCycle, Supervising, PCs
<1>14. ASSUME NEW w \in Workers, Close(w)
       PROVE  RegistrySupervised'
  <2>1. \A id \in RunIds : active[id] = w => run[w] = id /\ w \in LiveWorkers
    BY <1>1 DEF RegistrySupervised
  <2>2. \A id \in RunIds : active'[id] \in {NoWorker, active[id]} \ {w}
    BY <1>1, <1>14, <2>1 DEF Close
  <2>3. \A v \in Workers \ {w} : run'[v] = run[v] /\ pc'[v] = pc[v]
    BY <1>1, <1>14 DEF Close, At
  <2> QED
    BY <1>1, <2>2, <2>3 DEF RegistrySupervised
<1>15. CASE Crash
  BY <1>15 DEF Crash, RegistrySupervised
<1> QED
  <2>1. CASE UNCHANGED vars
    BY <1>2, <2>1 DEF vars, workerVars
  <2>2. CASE PruneRuns \/ Shutdown \/ ClosePools \/ Startup \/ (\E w \in Workers : ChildExits(w))
             \/ (\E j \in Jobs : OrphanExits(j))
    BY <1>2, <2>2 DEF PruneRuns, Shutdown, ClosePools, Startup, ChildExits, OrphanExits, workerVars
  <2> QED
    BY <1>4, <1>5, <1>6, <1>7, <1>8, <1>9, <1>10, <1>11, <1>12, <1>13, <1>14, <1>15, <2>1, <2>2
       DEF Next, WorkerStep

\* The inductive invariant: with the types, each of the two is inductive.
IInv == Typed /\ OneActivePerJob /\ RegistrySupervised

\* Every reachable state satisfies the inductive invariant.
THEOREM Inductive == Spec => []IInv
<1>1. Init => IInv
  <2>1. Init => OneActivePerJob /\ RegistrySupervised
    BY DEF Init, OneActivePerJob, RegistrySupervised, Active, RunIds
  <2> QED
    BY <2>1, TypedInit DEF IInv
<1>2. IInv /\ [Next]_vars => IInv'
  BY TypedStep, OneActiveStep, RegistryStep DEF IInv
<1> QED
  BY <1>1, <1>2, PTL DEF Spec

\* Type correctness of the rows, the threads and the registry.
THEOREM TypeCorrect == Spec => []TypeOK
<1>1. IInv => TypeOK
  BY DEF IInv, Typed
<1> QED
  BY <1>1, Inductive, PTL

\* create_run, the worker's own commit and everything else that writes a status
\* keep to one queued or running row per job.
THEOREM OneActive == Spec => []OneActivePerJob
<1>1. IInv => OneActivePerJob
  BY DEF IInv
<1> QED
  BY <1>1, Inductive, PTL

\* LiveRunner.cancel only ever finds the child of a worker still on that run.
THEOREM Supervised == Spec => []RegistrySupervised
<1>1. IInv => RegistrySupervised
  BY DEF IInv
<1> QED
  BY <1>1, Inductive, PTL

-----------------------------------------------------------------------------
(* Every row that keeps a slot has a thread that will free it.             *)

Submits(r) == step[r] \in {"submitLive", "submitPlan"}
Engages(w) == pc[w] \notin {"idle", "recorded", "closing"}

\* Threads keep what they have, or have brought it to an end; a row that becomes
\* active has a thread.
LEMMA OwnersKeep ==
  ASSUME ActiveRowOwned, phase' = "up" => phase = "up", queue' = queue,
         \A r \in Requests : Submits(r) => step'[r] = step[r] /\ held'[r] = held[r],
         \A w \in Workers : Engages(w) =>
             /\ run'[w] = run[w]
             /\ Engages(w)' \/ status'[run[w]] \notin Active,
         \A id \in RunIds : status'[id] \in Active => status[id] \in Active \/ Owned(id)'
  PROVE  ActiveRowOwned'
<1> SUFFICES ASSUME phase = "up", NEW id \in RunIds, status'[id] \in Active, status[id] \in Active
             PROVE  Owned(id)'
  BY DEF ActiveRowOwned
<1>1. Owned(id)
  BY DEF ActiveRowOwned
<1>2. CASE \E r \in Requests : held[r] = id /\ Submits(r)
  BY <1>2 DEF Owned, Submits
<1>3. CASE \E p \in Pools : \E i \in 1..Len(queue[p]) : queue[p][i] = id
  BY <1>3 DEF Owned
<1>4. CASE \E w \in Workers : run[w] = id /\ Engages(w)
  BY <1>4 DEF Owned, Engages
<1> QED
  BY <1>1, <1>2, <1>3, <1>4 DEF Owned, Submits, Engages

LEMMA OwnedByRequest ==
  ASSUME IInv, ActiveRowOwned, NEW r \in Requests, RequestBegins(r) \/ RequestStep(r)
  PROVE  ActiveRowOwned'
<1> USE DEF IInv, Typed
<1>1. CASE RequestBegins(r) \/ CancelCommit(r) \/ CancelStop(r) \/ FormDeleteCommit(r)
  <2>1. /\ UNCHANGED <<phase, queue, run, pc>> /\ ~Submits(r)
        /\ \A q \in Requests \ {r} : step'[q] = step[q] /\ held'[q] = held[q]
    BY <1>1 DEF RequestBegins, CreateRun, RecordSkip, ApiDelete, FormDeleteCheck, CancelRead,
       CancelCommit, CancelStop, FormDeleteCommit, Goto, Submits, TypeOK, workerVars, requestVars
  <2>2. ASSUME NEW id \in RunIds, status'[id] \in Active
        PROVE  status[id] \in Active \/ Owned(id)'
    <3>1. CASE \E j \in jobs, m \in Modes : CreateRun(r, j, m)
      <4>1. PICK n \in RunIds : /\ status' = [status EXCEPT ![n] = "queued"]
                                /\ step'[r] \in {"submitLive", "submitPlan"} /\ held'[r] = n
        BY <3>1 DEF CreateRun, Insert, Goto, TypeOK
      <4> QED
        BY <2>2, <4>1 DEF TypeOK, Owned
    <3>2. CASE ~(\E j \in jobs, m \in Modes : CreateRun(r, j, m))
      <4>1. \/ status' = status
            \/ \E n \in RunIds : status' = [status EXCEPT ![n] = "skipped"]
            \/ \E n \in RunIds : status' = [status EXCEPT ![n] = "cancelled"]
            \/ \E j \in Jobs \cup {NoJob} :
                  status' = [k \in RunIds |-> IF jobOf[k] = j THEN "absent" ELSE status[k]]
        BY <1>1, <3>2 DEF RequestBegins, RecordSkip, Insert, ApiDelete, FormDeleteCheck, CancelRead,
           CancelCommit, CancelStop, FormDeleteCommit, DropJob, TypeOK, RequestOK, rowVars
      <4> QED
        BY <2>2, <4>1 DEF TypeOK, Active
    <3> QED
      BY <3>1, <3>2
  <2> QED
    BY <2>1, <2>2, OwnersKeep DEF Engages
<1>2. CASE Submit(r)
  <2>1. /\ UNCHANGED <<phase, status, run, pc>> /\ held[r] \in RunIds
        /\ \A q \in Requests \ {r} : step'[q] = step[q] /\ held'[q] = held[q]
        /\ queue \in [Pools -> Seq(RunIds)]
    BY <1>2 DEF Submit, Goto, TypeOK, RequestOK, rowVars, workerVars
  <2> SUFFICES ASSUME phase = "up", NEW id \in RunIds, status[id] \in Active PROVE Owned(id)'
    BY <2>1 DEF ActiveRowOwned
  <2>2. Owned(id)
    BY DEF ActiveRowOwned
  <2>3. CASE queue' = queue /\ ~Present(held[r])
    <3>1. held[r] # id
      BY <2>3 DEF Present, Active
    <3> QED
      BY <2>1, <2>2, <2>3, <3>1 DEF Owned
  <2>4. CASE \E p \in Pools : queue' = [queue EXCEPT ![p] = Append(@, held[r])]
    <3>1. PICK p \in Pools : queue' = [queue EXCEPT ![p] = Append(@, held[r])]
      BY <2>4
    <3>2. queue[p] \in Seq(RunIds) /\ queue'[p] = Append(queue[p], held[r])
      BY <2>1, <3>1
    <3>3. /\ Len(queue'[p]) = Len(queue[p]) + 1 /\ Len(queue[p]) \in Nat
          /\ queue'[p][Len(queue[p]) + 1] = held[r]
          /\ \A i \in 1..Len(queue[p]) : queue'[p][i] = queue[p][i]
      BY <3>2
    <3>4. \A q \in Pools : \A i \in 1..Len(queue[q]) : i \in 1..Len(queue'[q]) /\ queue'[q][i] = queue[q][i]
      <4> TAKE q \in Pools
      <4>1. CASE q = p
        BY <3>3, <4>1
      <4>2. CASE q # p
        BY <2>1, <3>1, <4>2
      <4> QED
        BY <4>1, <4>2
    <3>5. CASE held[r] = id
      <4>1. Len(queue[p]) + 1 \in 1..Len(queue'[p])
        BY <3>3
      <4> QED
        BY <3>3, <3>5, <4>1 DEF Owned
    <3>6. CASE held[r] # id
      BY <2>1, <2>2, <3>4, <3>6 DEF Owned
    <3> QED
      BY <3>5, <3>6
  <2> QED
    BY <1>2, <2>3, <2>4 DEF Submit, Pools
<1> QED
  BY <1>1, <1>2 DEF RequestStep

LEMMA OwnedByOutcome ==
  ASSUME IInv, ActiveRowOwned, NEW w \in Workers, run[w] \in RunIds, UNCHANGED <<phase, queue, step, held, run>>,
         NEW s \in Finished, NEW next \in {"recorded", "closing"}, WriteOutcome(w, s, next)
  PROVE  ActiveRowOwned'
<1> USE DEF IInv, Typed, TypeOK
<1>1. \A v \in Workers \ {w} : pc'[v] = pc[v]
  BY DEF WriteOutcome, At
<1>2. status'[run[w]] \notin Active
  BY DEF WriteOutcome, Present, Active, Finished
<1>3. \A id \in RunIds : status'[id] \in Active => status[id] \in Active
  BY DEF WriteOutcome, Active, Finished
<1> QED
  BY <1>1, <1>2, <1>3, OwnersKeep DEF Engages

LEMMA OwnedByWorker ==
  ASSUME IInv, ActiveRowOwned, NEW w \in Workers, WorkerStep(w)
  PROVE  ActiveRowOwned'
<1> USE DEF IInv, Typed
<1>1. CASE PlanFails(w) \/ DryRunEnds(w) \/ Record(w)
  <2>1. UNCHANGED <<phase, queue, step, held, run>> /\ run[w] \in RunIds
    BY <1>1 DEF PlanFails, DryRunEnds, Record, WorkerOK, requestVars
  <2>2. \E s \in Finished, next \in {"recorded", "closing"} : WriteOutcome(w, s, next)
    BY <1>1 DEF PlanFails, DryRunEnds, Record, Finished
  <2> QED
    BY <2>1, <2>2, OwnedByOutcome
<1>2. CASE PlanCleared(w) \/ Spawn(w) \/ Register(w) \/ CommitCommand(w) \/ Close(w)
  <2>1. /\ UNCHANGED <<phase, queue, step, held, status>>
        /\ \A v \in Workers \ {w} : pc'[v] = pc[v] /\ run'[v] = run[v]
        /\ Engages(w) => run'[w] = run[w] /\ (Engages(w)' \/ ~Present(run[w]))
    BY <1>2 DEF PlanCleared, Spawn, Register, CommitCommand, Close, Abandon, At, Engages, TypeOK,
       rowVars, requestVars
  <2> QED
    BY <2>1, OwnersKeep DEF Engages, Present, Active
<1>3. CASE PruneQuietCycle(w)
  <2>1. /\ UNCHANGED <<phase, queue, step, held, run>> /\ ~Engages(w)
        /\ \A v \in Workers \ {w} : pc'[v] = pc[v]
        /\ \A id \in RunIds : status'[id] \in Active => status[id] \in Active
    BY <1>3 DEF PruneQuietCycle, At, Engages, TypeOK, Active, rowVars, requestVars
  <2> QED
    BY <2>1, OwnersKeep DEF Engages
<1>4. CASE MarkRunning(w)
  <2>1. /\ UNCHANGED <<phase, queue, step, held, run>> /\ run[w] \in RunIds
        /\ \A v \in Workers \ {w} : pc'[v] = pc[v]
    BY <1>4 DEF MarkRunning, At, WorkerOK, TypeOK, requestVars
  <2>2. CASE pc'[w] = "closing" /\ UNCHANGED status /\ ~Present(run[w])
    BY <2>1, <2>2, OwnersKeep DEF Engages, Present, Active
  <2>3. CASE /\ pc'[w] = "closing" /\ UNCHANGED status
             /\ \E other \in RunIds \ {run[w]} : ActiveRow(other, jobOf[run[w]])
    <3>1. status[run[w]] \notin Active
      BY <2>1, <2>3 DEF ActiveRow, OneActivePerJob
    <3> QED
      BY <2>1, <2>3, <3>1, OwnersKeep DEF Engages
  <2>4. CASE pc'[w] = "planning" /\ status' \in {status, [status EXCEPT ![run[w]] = "running"]}
    <3>1. ASSUME NEW id \in RunIds, status'[id] \in Active PROVE status[id] \in Active \/ Owned(id)'
      BY <2>1, <2>4, <3>1 DEF Owned, TypeOK
    <3> QED
      BY <2>1, <2>4, <3>1, OwnersKeep DEF Engages
  <2> QED
    BY <1>4, <2>2, <2>3, <2>4 DEF MarkRunning, At, TypeOK
<1>5. CASE Take(w)
  <2> DEFINE p == PoolOf(w)
             id == Head(queue[p])
  <2>1. /\ UNCHANGED <<phase, status, step, held>> /\ pc[w] = "idle"
        /\ \A v \in Workers \ {w} : pc'[v] = pc[v] /\ run'[v] = run[v]
        /\ p \in Pools /\ queue[p] # <<>> /\ queue' = [queue EXCEPT ![p] = Tail(@)]
        /\ run'[w] = id /\ (status[id] # "absent" => pc'[w] \in {"loaded", "reloaded"})
    BY <1>5 DEF Take, At, TypeOK, Pools, PoolOf, rowVars, requestVars
  <2>2. queue[p] \in Seq(RunIds) /\ queue'[p] = Tail(queue[p])
    BY <2>1 DEF TypeOK
  <2> HIDE DEF p
  <2> SUFFICES ASSUME phase = "up", NEW x \in RunIds, status[x] \in Active PROVE Owned(x)'
    BY <2>1 DEF ActiveRowOwned
  <2>3. Owned(x)
    BY DEF ActiveRowOwned
  <2>4. CASE x = id
    BY <2>1, <2>4 DEF Active, Owned
  <2>5. CASE x # id /\ \E q \in Pools : \E i \in 1..Len(queue[q]) : queue[q][i] = x
    <3>1. PICK q \in Pools : \E i \in 1..Len(queue[q]) : queue[q][i] = x
      BY <2>5
    <3>2. PICK i \in 1..Len(queue[q]) : queue[q][i] = x
      BY <3>1
    <3>3. CASE q # p
      BY <2>1, <3>2, <3>3 DEF Owned, TypeOK
    <3>4. CASE q = p
      <4>1. /\ i # 1 /\ Len(Tail(queue[p])) = Len(queue[p]) - 1 /\ Len(queue[p]) \in Nat
            /\ \A k \in 1..(Len(queue[p]) - 1) : Tail(queue[p])[k] = queue[p][k + 1]
        BY <2>1, <2>2, <2>5, <3>2, <3>4
      <4>2. i - 1 \in 1..(Len(queue[p]) - 1) /\ (i - 1) + 1 = i
        BY <3>2, <3>4, <4>1
      <4>3. i - 1 \in 1..Len(queue'[p]) /\ queue'[p][i - 1] = x
        BY <2>2, <3>2, <3>4, <4>1, <4>2
      <4> QED
        BY <2>1, <4>3 DEF Owned
    <3> QED
      BY <3>3, <3>4
  <2>6. CASE \E r \in Requests : held[r] = x /\ step[r] \in {"submitLive", "submitPlan"}
    BY <2>1, <2>6 DEF Owned
  <2>7. CASE \E v \in Workers : run[v] = x /\ pc[v] \notin {"idle", "recorded", "closing"}
    BY <2>1, <2>7 DEF Owned
  <2> QED
    BY <2>3, <2>4, <2>5, <2>6, <2>7 DEF Owned
<1> QED
  BY <1>1, <1>2, <1>3, <1>4, <1>5 DEF WorkerStep

\* While the application is up, whatever keeps a job's slot has a thread that will
\* give it back: requests that create a run submit it, workers leave run_now with
\* an outcome written, also for rows that were cancelled, deleted, or given to
\* another run; and a restart releases what was left.  (Where nothing unexpected is
\* raised: such a run keeps its slot until the restart.)
THEOREM RowsOwned == ASSUME ~MayFault PROVE Spec => []ActiveRowOwned
<1>1. Init => ActiveRowOwned
  BY DEF Init, ActiveRowOwned, Active
<1>2. IInv /\ ActiveRowOwned /\ [Next]_vars => ActiveRowOwned'
  <2> SUFFICES ASSUME IInv, ActiveRowOwned, [Next]_vars PROVE ActiveRowOwned'
    OBVIOUS
  <2>1. CASE Shutdown \/ ClosePools \/ Crash
    BY <2>1 DEF Shutdown, ClosePools, Crash, ActiveRowOwned
  <2>2. CASE Startup
    BY <2>2 DEF Startup, ActiveRowOwned, Active, IInv, Typed, TypeOK
  <2>3. CASE PruneRuns
    <3>1. /\ UNCHANGED <<phase, queue, step, held, run, pc>>
          /\ \A id \in RunIds : status'[id] \in Active => status[id] \in Active
      BY <2>3 DEF PruneRuns, requestVars, workerVars, Active
    <3> QED
      BY <3>1, OwnersKeep DEF Engages
  <2>4. CASE UNCHANGED vars \/ (\E w \in Workers : ChildExits(w)) \/ (\E j \in Jobs : OrphanExits(j))
    <3>1. UNCHANGED <<phase, queue, step, held, run, pc, status>>
      BY <2>4 DEF vars, ChildExits, OrphanExits, rowVars, requestVars, workerVars
    <3> QED
      BY <3>1, OwnersKeep DEF Engages
  <2>5. \A w \in Workers : ~UnexpectedError(w)
    BY DEF UnexpectedError
  <2> QED
    BY <2>1, <2>2, <2>3, <2>4, <2>5, OwnedByRequest, OwnedByWorker DEF Next
<1> QED
  BY <1>1, <1>2, Inductive, PTL DEF Spec

-----------------------------------------------------------------------------
(***************************************************************************)
(* No two rclone processes sync one job, for any number of jobs, workers,  *)
(* requests and runs, through faults, shutdowns, restarts and pruning: as  *)
(* long as nobody cancels a run or deletes a job, and no job is continuous *)
(* or every job keeps at least as many rows as there are live workers.     *)
(* Each of the three gives a slot away early: a row is cancelled under its *)
(* worker, or goes with its job, or a late drop of a quiet cycle's row     *)
(* hits a run that got the id after the row was pruned.                    *)
(***************************************************************************)

\* run_history_keep (200 as installed, 10 or more) against the live pool's size
\* (3 as installed; the settings allow up to 32).
FewWorkers == IsFiniteSet(LiveWorkers) /\ Cardinality(LiveWorkers) <= HistoryKeep

Undisturbed == ~MayCancel /\ DeletePaths = {} /\ (ContinuousJobs = {} \/ FewWorkers)

Submitting(r) == step[r] \in {"submitLive", "submitPlan"}
Places(p)     == 1..Len(queue[p])
Working(w)    == pc[w] \in {"planning", "cleared", "spawned", "registered", "consuming"}
Engaged(w)    == pc[w] = "loaded" \/ Working(w)

\* Nobody cancels or deletes, a worker never meets a row already running, and
\* nothing but the database survives the process.
Shape ==
    /\ \A r \in Requests : step[r] = "idle" \/ Submitting(r)
    /\ \A w \in Workers : pc[w] # "reloaded"
    /\ phase = "down" => /\ \A r \in Requests : step[r] = "idle"
                         /\ \A p \in Pools : queue[p] = <<>>
                         /\ \A w \in Workers : pc[w] = "idle"
                         /\ orphans = {}

\* A run someone has yet to see to keeps its row, and its worker knows whose.
Claims ==
    /\ \A r \in Requests : Submitting(r) => status[held[r]] = "queued"
    /\ \A p \in Pools : \A i \in Places(p) : status[queue[p][i]] = "queued"
    /\ \A w \in Workers : pc[w] = "loaded" => status[run[w]] = "queued"
    /\ \A w \in Workers : Working(w) => status[run[w]] = "running"
    /\ \A w \in Workers : Engaged(w) => jobOf[run[w]] = work[w]

\* A run is with one request, in one place of one queue, or with one worker.
Unique ==
    /\ \A r, s \in Requests : Submitting(r) /\ Submitting(s) /\ held[r] = held[s] => r = s
    /\ \A r \in Requests : Submitting(r) =>
          /\ \A p \in Pools : \A i \in Places(p) : queue[p][i] # held[r]
          /\ \A w \in Workers : pc[w] = "loaded" => run[w] # held[r]
    /\ \A p, q \in Pools : \A i \in Places(p), k \in Places(q) :
          queue[p][i] = queue[q][k] => p = q /\ i = k
    /\ \A w \in Workers : pc[w] = "loaded" =>
          \A p \in Pools : \A i \in Places(p) : queue[p][i] # run[w]
    /\ \A v, w \in Workers : Engaged(v) /\ Engaged(w) /\ run[v] = run[w] => v = w

\* An abandoned rclone left a running row behind that no worker has.
OrphanRows ==
    \A j \in orphans : \E id \in RunIds :
        /\ status[id] = "running"
        /\ jobOf[id] = j
        /\ \A w \in Workers : Engaged(w) => run[w] # id

Exclusion == Shape /\ Claims /\ Unique /\ OrphanRows

\* While a thread has something to do, the process is there.
LEMMA NotDown ==
  ASSUME Shape, NEW w \in Workers, pc[w] # "idle"
  PROVE  phase # "down"
  BY DEF Shape

\* The places of a queue something was added to, or taken from.
LEMMA QueueItem ==
  ASSUME NEW P, NEW S, NEW f \in [P -> Seq(S)], NEW p \in P, NEW i \in 1..Len(f[p])
  PROVE  f[p][i] \in S
  OBVIOUS

\* After a put an item is an old one in its old place, or the new one at the end.
LEMMA QueueGrown ==
  ASSUME NEW P, NEW S, NEW f \in [P -> Seq(S)], NEW g, NEW p \in P, NEW x \in S,
         g = [f EXCEPT ![p] = Append(@, x)],
         NEW q \in P, NEW i \in 1..Len(g[q])
  PROVE  \/ i \in 1..Len(f[q]) /\ g[q][i] = f[q][i]
         \/ q = p /\ i = Len(f[p]) + 1 /\ g[q][i] = x
<1>1. f[p] \in Seq(S) /\ f[q] \in Seq(S)
  OBVIOUS
<1>2. CASE q = p
  BY <1>1, <1>2
<1>3. CASE q # p
  BY <1>1, <1>3
<1> QED
  BY <1>2, <1>3

\* After a take every item was in the queue before, one place further back.
LEMMA QueueShrunk ==
  ASSUME NEW P, NEW S, NEW f \in [P -> Seq(S)], NEW g, NEW p \in P, f[p] # <<>>,
         g = [f EXCEPT ![p] = Tail(@)],
         NEW q \in P, NEW i \in 1..Len(g[q])
  PROVE  \/ q # p /\ i \in 1..Len(f[q]) /\ g[q][i] = f[q][i]
         \/ q = p /\ i + 1 \in 2..Len(f[q]) /\ g[q][i] = f[q][i + 1]
<1>1. f[p] \in Seq(S) /\ f[q] \in Seq(S)
  OBVIOUS
<1>2. CASE q = p
  BY <1>1, <1>2
<1>3. CASE q # p
  BY <1>1, <1>3
<1> QED
  BY <1>2, <1>3

\* Whatever a request, a queue or a worker has is a run id.
LEMMA RunsHeld ==
  ASSUME Typed
  PROVE  /\ \A r \in Requests : Submitting(r) => held[r] \in RunIds
         /\ \A p \in Pools : \A i \in Places(p) : queue[p][i] \in RunIds
         /\ \A w \in Workers : Engaged(w) => run[w] \in RunIds /\ work[w] \in Jobs
<1>1. queue \in [Pools -> Seq(RunIds)]
  BY DEF Typed, TypeOK
<1>2. \A p \in Pools : \A i \in Places(p) : queue[p][i] \in RunIds
  BY <1>1, QueueItem DEF Places
<1> QED
  BY <1>2 DEF Typed, WorkerOK, RequestOK, Submitting, Engaged, Working

\* A worker lets go of its run: it wrote the outcome, or left a running row and
\* perhaps an rclone behind.
LEMMA LetGo ==
  ASSUME IInv, Exclusion, NEW w \in Workers, Engaged(w), phase' = phase,
         NEW s \in {"closing", "recorded"}, At(w, s),
         UNCHANGED <<jobOf, step, held, queue, run, work>>,
         \/ status' = status /\ orphans' \subseteq orphans \cup {work[w]}
                             /\ (orphans' = orphans \/ Working(w))
         \/ /\ Working(w) /\ orphans' = orphans
            /\ \E t \in Status : status' = [status EXCEPT ![run[w]] = t]
  PROVE  Exclusion'
<1>1. /\ pc' \in [Workers -> PCs] /\ pc'[w] = s
      /\ \A v \in Workers \ {w} : pc'[v] = pc[v]
      /\ status \in [RunIds -> Status] /\ run[w] \in RunIds /\ work[w] \in Jobs
  BY DEF At, IInv, Typed, TypeOK, WorkerOK, Engaged, Working, PCs
<1>2. \A id \in RunIds \ {run[w]} : status'[id] = status[id]
  BY <1>1
<1>3. \A v \in Workers : Engaged(v)' => v # w /\ Engaged(v) /\ run[v] # run[w]
  BY <1>1 DEF Engaged, Working, Exclusion, Unique
<1>4. Shape'
  BY <1>1, NotDown DEF Exclusion, Shape, Submitting, Engaged, Working
<1>5. Claims'
  <2>1. ASSUME NEW id \in RunIds, status[id] = "queued" PROVE status'[id] = "queued"
    BY <1>1, <1>2, <2>1 DEF Exclusion, Claims
  <2> QED
    BY <1>1, <1>2, <1>3, <2>1, RunsHeld DEF IInv, Exclusion, Claims, Submitting, Places, Engaged, Working
<1>6. Unique'
  BY <1>1, <1>3 DEF Exclusion, Unique, Submitting, Places, Engaged, Working
<1>7. OrphanRows'
  <2> SUFFICES ASSUME NEW j \in orphans'
               PROVE  \E id \in RunIds : /\ status'[id] = "running" /\ jobOf[id] = j
                                         /\ \A v \in Workers : Engaged(v)' => run[v] # id
    BY DEF OrphanRows, Engaged, Working
  <2>1. CASE j \in orphans
    <3>1. PICK id \in RunIds : /\ status[id] = "running" /\ jobOf[id] = j
                               /\ \A v \in Workers : Engaged(v) => run[v] # id
      BY <2>1 DEF Exclusion, OrphanRows
    <3> QED
      BY <1>2, <1>3, <3>1
  <2>2. CASE j = work[w] /\ Working(w) /\ status' = status
    BY <1>1, <1>3, <2>2 DEF Exclusion, Claims, Engaged
  <2> QED
    BY <2>1, <2>2
<1> QED
  BY <1>4, <1>5, <1>6, <1>7 DEF Exclusion

\* A request hands its run to a queue, or drops it.
LEMMA SubmitKeeps ==
  ASSUME IInv, Exclusion, NEW r \in Requests, Submit(r)
  PROVE  Exclusion'
<1>1. /\ Submitting(r) /\ held[r] \in RunIds
      /\ queue \in [Pools -> Seq(RunIds)]
      /\ UNCHANGED <<phase, status, jobOf, pc, run, work, orphans>>
  BY RunsHeld DEF Submit, Submitting, IInv, Typed, TypeOK, rowVars, workerVars
<1>2. \A s \in Requests : Submitting(s)' => s # r /\ Submitting(s) /\ held'[s] = held[s]
  BY DEF Submit, Goto, Submitting, IInv, Typed, TypeOK
<1>3. step'[r] = "idle" /\ \A s \in Requests \ {r} : step'[s] = step[s]
  BY DEF Submit, Goto, IInv, Typed, TypeOK
\* A place of the new queue is an old one or the one the run was put in.
<1>4. ASSUME NEW p \in Pools, NEW i \in Places(p)'
      PROVE  \/ i \in Places(p) /\ queue'[p][i] = queue[p][i]
             \/ /\ queue'[p][i] = held[r] /\ i = Len(queue[p]) + 1
                /\ queue' = [queue EXCEPT ![p] = Append(@, held[r])]
  <2>1. CASE queue' = queue
    BY <1>4, <2>1 DEF Places
  <2>2. ASSUME NEW q \in Pools, queue' = [queue EXCEPT ![q] = Append(@, held[r])]
        PROVE  \/ i \in Places(p) /\ queue'[p][i] = queue[p][i]
               \/ /\ queue'[p][i] = held[r] /\ i = Len(queue[p]) + 1
                  /\ queue' = [queue EXCEPT ![p] = Append(@, held[r])]
    <3>1. i \in 1..Len(queue'[p])
      BY <1>4 DEF Places
    <3>2. \/ i \in 1..Len(queue[p]) /\ queue'[p][i] = queue[p][i]
          \/ p = q /\ i = Len(queue[q]) + 1 /\ queue'[p][i] = held[r]
      BY <1>1, <2>2, <3>1, QueueGrown
    <3> QED
      BY <2>2, <3>2 DEF Places
  <2> QED
    BY <2>1, <2>2 DEF Submit, Pools
<1>5. Shape'
  BY <1>1, <1>3 DEF Exclusion, Shape, Submitting, Submit
<1>6. Claims'
  BY <1>1, <1>2, <1>4 DEF Exclusion, Claims, Engaged, Working
<1>7. Unique'
  BY <1>1, <1>2, <1>4 DEF Exclusion, Unique, Engaged, Working, Claims
<1>8. OrphanRows'
  BY <1>1 DEF Exclusion, OrphanRows, Engaged, Working
<1> QED
  BY <1>5, <1>6, <1>7, <1>8 DEF Exclusion

\* The first in the queue becomes the worker's run.
LEMMA TakeKeeps ==
  ASSUME IInv, Exclusion, NEW w \in Workers, Take(w)
  PROVE  Exclusion'
<1>1. PICK p \in Pools : /\ queue[p] # <<>> /\ p = PoolOf(w)
                         /\ queue' = [queue EXCEPT ![p] = Tail(@)]
  BY DEF Take, Pools, PoolOf
<1>2. PICK id \in RunIds : id = Head(queue[p]) /\ id = queue[p][1] /\ 1 \in Places(p)
  <2>1. queue[p] \in Seq(RunIds) /\ queue[p] # <<>>
    BY <1>1 DEF IInv, Typed, TypeOK
  <2> QED
    BY <2>1 DEF Places
<1>3. /\ status[id] = "queued" /\ pc[w] = "idle"
      /\ queue \in [Pools -> Seq(RunIds)]
      /\ UNCHANGED <<phase, status, jobOf, step, held, orphans>>
  BY <1>1, <1>2 DEF Exclusion, Claims, Take, rowVars, requestVars, IInv, Typed, TypeOK
<1>4. /\ pc' = [pc EXCEPT ![w] = "loaded"]
      /\ run' = [run EXCEPT ![w] = id]
      /\ work' = [work EXCEPT ![w] = jobOf[id]]
  BY <1>1, <1>2, <1>3 DEF Take, At
<1>5. /\ pc'[w] = "loaded" /\ run'[w] = id /\ work'[w] = jobOf[id]
      /\ \A v \in Workers \ {w} : pc'[v] = pc[v] /\ run'[v] = run[v] /\ work'[v] = work[v]
  BY <1>4 DEF IInv, Typed, TypeOK
\* What is left in the queues is not the run that was taken.
<1>6. ASSUME NEW q \in Pools, NEW i \in Places(q)'
      PROVE  \E k \in Places(q) : /\ queue'[q][i] = queue[q][k]
                                  /\ k = IF q = p THEN i + 1 ELSE i
                                  /\ queue[q][k] # id
  <2>1. \/ q # p /\ i \in Places(q) /\ queue'[q][i] = queue[q][i]
        \/ q = p /\ i + 1 \in 2..Len(queue[q]) /\ queue'[q][i] = queue[q][i + 1]
    BY <1>1, <1>3, <1>6, QueueShrunk DEF Places
  <2>2. CASE q # p /\ i \in Places(q) /\ queue'[q][i] = queue[q][i]
    BY <1>1, <1>2, <2>2 DEF Exclusion, Unique
  <2>3. CASE q = p /\ i + 1 \in 2..Len(queue[q]) /\ queue'[q][i] = queue[q][i + 1]
    <3>1. i + 1 \in Places(q) /\ i + 1 # 1
      BY <2>3, <1>1 DEF Places
    <3>2. queue[q][i + 1] # id
      BY <1>1, <1>2, <2>3, <3>1 DEF Exclusion, Unique
    <3> QED
      BY <2>3, <3>1, <3>2
  <2> QED
    BY <2>1, <2>2, <2>3
<1>7. \A v \in Workers : Engaged(v) => run[v] # id
  BY <1>1, <1>2, <1>3 DEF Exclusion, Claims, Unique, Engaged, Working
<1>8. Shape'
  <2>1. phase # "down"
    BY <1>1, <1>3 DEF Exclusion, Shape
  <2> QED
    BY <1>3, <1>5, <2>1 DEF Exclusion, Shape, Submitting
<1>9. Claims'
  <2>1. /\ \A v \in Workers : pc'[v] = "loaded" => status'[run'[v]] = "queued"
        /\ \A v \in Workers : Working(v)' => status'[run'[v]] = "running"
        /\ \A v \in Workers : Engaged(v)' => jobOf'[run'[v]] = work'[v]
    BY <1>3, <1>5 DEF Exclusion, Claims, Engaged, Working
  <2>2. \A q \in Pools : \A i \in Places(q)' : status'[queue'[q][i]] = "queued"
    BY <1>3, <1>6 DEF Exclusion, Claims
  <2> QED
    BY <1>3, <2>1, <2>2 DEF Exclusion, Claims, Submitting
<1>10. Unique'
  <2>1. \A q, o \in Pools : \A i \in Places(q)', k \in Places(o)' :
           queue'[q][i] = queue'[o][k] => q = o /\ i = k
    <3> SUFFICES ASSUME NEW q \in Pools, NEW o \in Pools, NEW i \in Places(q)',
                        NEW k \in Places(o)', queue'[q][i] = queue'[o][k]
                 PROVE  q = o /\ i = k
      OBVIOUS
    <3>1. PICK a \in Places(q) : /\ queue'[q][i] = queue[q][a]
                                 /\ a = IF q = p THEN i + 1 ELSE i
      BY <1>6
    <3>2. PICK b \in Places(o) : /\ queue'[o][k] = queue[o][b]
                                 /\ b = IF o = p THEN k + 1 ELSE k
      BY <1>6
    <3>3. queue[q][a] = queue[o][b]
      BY <3>1, <3>2
    <3>4. q = o /\ a = b
      BY <3>3 DEF Exclusion, Unique
    <3> QED
      BY <3>1, <3>2, <3>4 DEF Places
  <2>2. \A s \in Requests : Submitting(s) => held[s] # id
    BY <1>1, <1>2 DEF Exclusion, Unique
  <2>3. \A s \in Requests : Submitting(s)' =>
          /\ \A q \in Pools : \A i \in Places(q)' : queue'[q][i] # held'[s]
          /\ \A v \in Workers : pc'[v] = "loaded" => run'[v] # held'[s]
    BY <1>3, <1>5, <1>6, <2>2 DEF Exclusion, Unique, Submitting
  <2>4. \A v \in Workers : pc'[v] = "loaded" =>
          \A q \in Pools : \A i \in Places(q)' : queue'[q][i] # run'[v]
    BY <1>5, <1>6 DEF Exclusion, Unique
  <2>5. \A u, v \in Workers : Engaged(u)' /\ Engaged(v)' /\ run'[u] = run'[v] => u = v
    BY <1>5, <1>7 DEF Exclusion, Unique, Engaged, Working
  <2>6. \A s, r \in Requests : (Submitting(r) /\ Submitting(s) /\ held[r] = held[s])' => r = s
    BY <1>3 DEF Exclusion, Unique, Submitting
  <2> QED
    BY <2>1, <2>3, <2>4, <2>5, <2>6 DEF Unique
<1>11. OrphanRows'
  <2>1. \A v \in Workers : Engaged(v)' => run'[v] = id \/ (Engaged(v) /\ run'[v] = run[v])
    BY <1>5 DEF Engaged, Working
  <2> QED
    BY <1>3, <2>1 DEF Exclusion, OrphanRows
<1> QED
  BY <1>8, <1>9, <1>10, <1>11 DEF Exclusion

\* A new row gets an id nobody has.
LEMMA CreateKeeps ==
  ASSUME IInv, Exclusion, NEW r \in Requests, NEW j \in jobs, NEW m \in Modes, CreateRun(r, j, m)
  PROVE  Exclusion'
<1>1. PICK n \in RunIds : /\ Insert(n, j, "queued")
                          /\ \E s \in {"submitLive", "submitPlan"} : Goto(r, s, n, NoJob)
  BY DEF CreateRun
<1>2. /\ status[n] = "absent" /\ phase = "up" /\ step[r] = "idle"
      /\ UNCHANGED <<phase, queue, pc, run, work, orphans>>
  <2>1. n \in Nat /\ (Present(n) => n < n)
    BY <1>1 DEF Insert, NextId, RunIds
  <2> QED
    BY <2>1 DEF Present, CreateRun, workerVars
<1>3. /\ status'[n] = "queued" /\ jobOf'[n] = j
      /\ \A id \in RunIds \ {n} : status'[id] = status[id] /\ jobOf'[id] = jobOf[id]
  BY <1>1 DEF Insert, IInv, Typed, TypeOK
<1>4. /\ Submitting(r)' /\ held'[r] = n
      /\ \A s \in Requests \ {r} : step'[s] = step[s] /\ held'[s] = held[s]
  BY <1>1 DEF Goto, Submitting, IInv, Typed, TypeOK
\* Nobody has the new run yet: its row was not there.
<1>5. /\ \A s \in Requests : Submitting(s) => held[s] \in RunIds \ {n}
      /\ \A p \in Pools : \A i \in Places(p) : queue[p][i] \in RunIds \ {n}
      /\ \A w \in Workers : Engaged(w) => run[w] \in RunIds \ {n}
  BY <1>2, RunsHeld DEF IInv, Exclusion, Claims, Engaged
<1>6. Shape'
  BY <1>2, <1>4 DEF Exclusion, Shape, Submitting
<1>7. Claims'
  <2>1. \A s \in Requests : Submitting(s)' => status'[held'[s]] = "queued"
    BY <1>3, <1>4, <1>5 DEF Exclusion, Claims, Submitting
  <2>2. \A p \in Pools : \A i \in Places(p)' : status'[queue'[p][i]] = "queued"
    BY <1>2, <1>3, <1>5 DEF Exclusion, Claims, Places
  <2>3. \A w \in Workers : /\ pc'[w] = "loaded" => status'[run'[w]] = "queued"
                           /\ Working(w)' => status'[run'[w]] = "running"
                           /\ Engaged(w)' => jobOf'[run'[w]] = work'[w]
    BY <1>2, <1>3, <1>5 DEF Exclusion, Claims, Engaged, Working
  <2> QED
    BY <2>1, <2>2, <2>3 DEF Claims
<1>8. Unique'
  <2>1. \A s, t \in Requests : (Submitting(s) /\ Submitting(t) /\ held[s] = held[t])' => s = t
    BY <1>4, <1>5 DEF Exclusion, Unique, Submitting
  <2>2. \A s \in Requests : Submitting(s)' =>
          /\ \A p \in Pools : \A i \in Places(p) : queue[p][i] # held'[s]
          /\ \A w \in Workers : pc[w] = "loaded" => run[w] # held'[s]
    BY <1>4, <1>5 DEF Exclusion, Unique, Submitting, Engaged
  <2> QED
    BY <1>2, <2>1, <2>2 DEF Exclusion, Unique, Places, Engaged, Working
<1>9. OrphanRows'
  BY <1>2, <1>3 DEF Exclusion, OrphanRows, Engaged, Working
<1> QED
  BY <1>6, <1>7, <1>8, <1>9 DEF Exclusion

\* A queued row becomes a running one of the same worker.
LEMMA MarkRunningKeeps ==
  ASSUME IInv, Exclusion, NEW w \in Workers, MarkRunning(w)
  PROVE  Exclusion'
<1>1. pc[w] = "loaded" /\ run[w] \in RunIds /\ status[run[w]] = "queued"
  BY RunsHeld DEF MarkRunning, IInv, Exclusion, Shape, Claims, Engaged
\* The row still holds the slot, so the index does not refuse.
<1>2. ~\E other \in RunIds \ {run[w]} : ActiveRow(other, jobOf[run[w]])
  BY <1>1 DEF IInv, OneActivePerJob, ActiveRow, Active
<1>3. /\ pc' = [pc EXCEPT ![w] = "planning"]
      /\ status' = [status EXCEPT ![run[w]] = "running"]
      /\ UNCHANGED <<phase, jobOf, step, held, queue, run, work, orphans>>
  BY <1>1, <1>2 DEF MarkRunning, At, Present, requestVars
<1>4. /\ pc'[w] = "planning" /\ \A v \in Workers \ {w} : pc'[v] = pc[v]
      /\ status'[run[w]] = "running" /\ \A id \in RunIds \ {run[w]} : status'[id] = status[id]
  BY <1>1, <1>3 DEF IInv, Typed, TypeOK
<1>5. \A v \in Workers : Engaged(v)' <=> Engaged(v)
  BY <1>1, <1>4 DEF Engaged, Working
<1>6. /\ \A r \in Requests : Submitting(r) => held[r] \in RunIds \ {run[w]}
      /\ \A p \in Pools : \A i \in Places(p) : queue[p][i] \in RunIds \ {run[w]}
      /\ \A v \in Workers \ {w} : Engaged(v) => run[v] \in RunIds \ {run[w]}
  BY <1>1, RunsHeld DEF IInv, Exclusion, Unique, Engaged
<1>7. Shape'
  BY <1>1, <1>3, <1>4, NotDown DEF Exclusion, Shape, Submitting
<1>8. Claims'
  <2>1. \A r \in Requests : Submitting(r)' => status'[held'[r]] = "queued"
    BY <1>3, <1>4, <1>6 DEF Exclusion, Claims, Submitting
  <2>2. \A p \in Pools : \A i \in Places(p)' : status'[queue'[p][i]] = "queued"
    BY <1>3, <1>4, <1>6 DEF Exclusion, Claims, Places
  <2>3. \A v \in Workers : /\ pc'[v] = "loaded" => status'[run'[v]] = "queued"
                           /\ Working(v)' => status'[run'[v]] = "running"
                           /\ Engaged(v)' => jobOf'[run'[v]] = work'[v]
    BY <1>3, <1>4, <1>5, <1>6 DEF Exclusion, Claims, Engaged, Working
  <2> QED
    BY <2>1, <2>2, <2>3 DEF Claims
<1>9. Unique'
  <2>1. \A v \in Workers : pc'[v] = "loaded" => pc[v] = "loaded"
    BY <1>4
  <2> QED
    BY <1>3, <1>5, <2>1 DEF Exclusion, Unique, Submitting, Places
<1>10. OrphanRows'
  BY <1>1, <1>3, <1>4, <1>5 DEF Exclusion, OrphanRows
<1> QED
  BY <1>7, <1>8, <1>9, <1>10 DEF Exclusion

\* Pruning the history touches finished rows only.
LEMMA PruneKeeps ==
  ASSUME IInv, Exclusion, PruneRuns
  PROVE  Exclusion'
<1>1. \A id \in RunIds : status[id] \in Active => /\ status'[id] = status[id]
                                                  /\ jobOf'[id] = jobOf[id]
  BY DEF PruneRuns, Prunable, Active, Finished
<1>2. UNCHANGED <<phase, step, held, queue, pc, run, work, orphans>>
  BY DEF PruneRuns, requestVars, workerVars
<1>3. Shape' /\ Unique'
  BY <1>2 DEF Exclusion, Shape, Unique, Submitting, Places, Engaged, Working
<1>4. Claims'
  BY <1>1, <1>2, RunsHeld DEF IInv, Exclusion, Claims, Submitting, Places, Engaged, Working, Active
<1>5. OrphanRows'
  BY <1>1, <1>2 DEF Exclusion, OrphanRows, Engaged, Working, Active
<1> QED
  BY <1>3, <1>4, <1>5 DEF Exclusion

\* A worker takes the next step with the same run.
LEMMA MovesOn ==
  ASSUME IInv, Exclusion, NEW w \in Workers, Working(w),
         NEW s \in {"cleared", "spawned", "registered", "consuming"}, At(w, s),
         UNCHANGED <<phase, status, jobOf, step, held, queue, run, work, orphans>>
  PROVE  Exclusion'
<1>1. /\ pc'[w] = s /\ \A v \in Workers \ {w} : pc'[v] = pc[v]
      /\ phase # "down"
  BY NotDown DEF At, IInv, Typed, TypeOK, Working, Exclusion
<1>2. \A v \in Workers : /\ Engaged(v)' <=> Engaged(v)
                         /\ Working(v)' <=> Working(v)
                         /\ pc'[v] = "loaded" <=> pc[v] = "loaded"
  BY <1>1 DEF Engaged, Working
<1>3. Shape'
  BY <1>1 DEF Exclusion, Shape, Submitting
<1>4. Claims' /\ Unique' /\ OrphanRows'
  BY <1>2 DEF Exclusion, Claims, Unique, OrphanRows, Submitting, Places
<1> QED
  BY <1>3, <1>4 DEF Exclusion

\* A worker that is done with its run gets to the end of run_now.
LEMMA Leaves ==
  ASSUME IInv, Exclusion, NEW w \in Workers, pc[w] \in {"recorded", "closing"},
         NEW s \in {"idle", "closing"}, At(w, s),
         \A v \in Workers \ {w} : run'[v] = run[v] /\ work'[v] = work[v],
         UNCHANGED <<phase, status, jobOf, step, held, queue, orphans>>
  PROVE  Exclusion'
<1>1. /\ pc'[w] = s /\ \A v \in Workers \ {w} : pc'[v] = pc[v]
      /\ phase # "down"
  BY NotDown DEF At, IInv, Typed, TypeOK, Exclusion
<1>2. \A v \in Workers : Engaged(v)' => v # w
  BY <1>1 DEF Engaged, Working
<1>3. Shape'
  BY <1>1 DEF Exclusion, Shape, Submitting
<1>4. Claims'
  BY <1>1, <1>2 DEF Exclusion, Claims, Submitting, Places, Engaged, Working
<1>5. Unique'
  BY <1>1, <1>2 DEF Exclusion, Unique, Submitting, Places, Engaged, Working
<1>6. OrphanRows'
  BY <1>1, <1>2 DEF Exclusion, OrphanRows, Engaged, Working
<1> QED
  BY <1>3, <1>4, <1>5, <1>6 DEF Exclusion

\* A worker with a run finds its row, so what it writes is written.
LEMMA OutcomeKeeps ==
  ASSUME IInv, Exclusion, NEW w \in Workers, Working(w),
         NEW s \in Status, NEW next \in {"closing", "recorded"}, WriteOutcome(w, s, next),
         UNCHANGED <<phase, jobOf, step, held, queue, run, work, orphans>>
  PROVE  Exclusion'
<1>1. Present(run[w])
  BY DEF Exclusion, Claims, Present
<1>2. At(w, next) /\ status' = [status EXCEPT ![run[w]] = s]
  BY <1>1 DEF WriteOutcome
<1> QED
  BY <1>2, LetGo DEF Engaged

-----------------------------------------------------------------------------
(* Continuous jobs.  A worker that dropped the row of a quiet cycle late    *)
(* could hit a run that got the id meanwhile: its own row pruned, and all   *)
(* newer ones gone too.  While no more workers than rows are kept, one of   *)
(* the newer rows is no worker's to drop.                                   *)

\* A worker may still drop the row.
Held(n) == \E w \in Workers : pc[w] = "recorded" /\ run[w] = n

\* A row that was recorded is there and one worker's, or gone while its id cannot
\* be given out again: a newer row stays that only pruning may remove.
Settled ==
    \A w \in Workers : pc[w] = "recorded" =>
        \/ /\ status[run[w]] \in Finished
           /\ \A v \in Workers : pc[v] = "recorded" /\ run[v] = run[w] => v = w
        \/ /\ status[run[w]] = "absent"
           /\ \E n \in RunIds : n > run[w] /\ status[n] \in Finished /\ ~Held(n)

\* Where no job is continuous no row is dropped this way at all.
DropsSettled == ContinuousJobs # {} => Settled

LEMMA Largest == ASSUME NEW T \in SUBSET RunIds, T # {} PROVE \E m \in T : \A n \in T : n <= m
<1> DEFINE D == {MaxRuns - n : n \in T}
<1>1. D \subseteq Nat /\ D # {}
  <2>1. \A n \in T : MaxRuns - n \in Nat
    BY ConstantsAssumption DEF RunIds
  <2>2. D # {}
    <3>1. PICK n \in T : TRUE
      OBVIOUS
    <3> QED
      BY <3>1
  <2> QED
    BY <2>1, <2>2
<1>2. IsWellFoundedOn(OpToRel(<, Nat), Nat)
  BY NatLessThanWellFounded
<1> HIDE DEF D
<1>3. PICK x \in D : \A y \in D : ~(<<y, x>> \in OpToRel(<, Nat))
  BY <1>1, <1>2, WFMin
<1>4. \A y \in D : ~(y < x)
  BY <1>1, <1>3 DEF OpToRel
<1>5. PICK m \in T : x = MaxRuns - m
  BY DEF D
<1>6. ASSUME NEW n \in T PROVE n <= m
  <2>1. MaxRuns - n \in D /\ m \in Nat /\ n \in Nat /\ MaxRuns \in Nat
    BY ConstantsAssumption DEF D, RunIds
  <2>2. ~(MaxRuns - n < MaxRuns - m)
    BY <1>4, <1>5, <2>1
  <2> QED
    BY <2>1, <2>2
<1> QED
  BY <1>6

\* Of the newer rows that made a row prunable, one stays and is no worker's.
LEMMA Survivor ==
  ASSUME IInv, FewWorkers, NEW w \in Workers, pc[w] = "recorded",
         NEW id \in RunIds, run[w] <= id, Prunable(id)
  PROVE  \E n \in RunIds : n > id /\ status[n] \in Finished /\ ~Prunable(n) /\ ~Held(n)
<1> DEFINE Newer(n) == {m \in RunIds : /\ m > n
                                       /\ status[m] \in Finished
                                       /\ jobOf[m] = jobOf[n]}
           U == {m \in Newer(id) : ~Prunable(m)}
           others == LiveWorkers \ {w}
           f == [v \in others |-> run[v]]
           H == {run[v] : v \in others}
<1>1. \A n \in RunIds : Prunable(n) <=> status[n] \in Finished /\ HistoryKeep <= Cardinality(Newer(n))
  BY DEF Prunable
<1>2. IsFiniteSet(RunIds) /\ RunIds \subseteq Nat /\ HistoryKeep \in Nat
  BY FS_Interval, ConstantsAssumption DEF RunIds
<1>3. \A n \in RunIds : Newer(n) \subseteq RunIds
  OBVIOUS
<1> HIDE DEF Newer
<1>4. \A n \in RunIds : IsFiniteSet(Newer(n)) /\ Cardinality(Newer(n)) \in Nat
  BY <1>2, <1>3, FS_Subset, FS_CardinalityType
<1>5. IsFiniteSet(U) /\ Cardinality(U) \in Nat /\ HistoryKeep <= Cardinality(U)
  <2>1. CASE U = Newer(id)
    BY <1>1, <1>4, <2>1
  <2>2. CASE U # Newer(id)
    <3>1. Newer(id) \ U \subseteq RunIds /\ Newer(id) \ U # {}
      BY <1>3, <2>2
    <3>2. PICK m \in Newer(id) \ U : \A n \in Newer(id) \ U : n <= m
      BY <3>1, Largest
    <3>3. m \in RunIds /\ Prunable(m) /\ m > id /\ jobOf[m] = jobOf[id]
      BY <1>3, <3>2 DEF Newer
    <3>4. Newer(m) \subseteq U
      <4> SUFFICES ASSUME NEW n \in Newer(m) PROVE n \in U
        OBVIOUS
      <4>1. n \in RunIds /\ n > m /\ n > id /\ n \in Newer(id)
        BY <1>2, <3>3 DEF Newer
      <4>2. n \in Nat /\ m \in Nat /\ ~(n <= m)
        BY <1>2, <3>3, <4>1
      <4> QED
        BY <3>2, <4>1, <4>2
    <3>5. IsFiniteSet(U) /\ Cardinality(U) \in Nat
      BY <1>4, FS_Subset, FS_CardinalityType
    <3>6. Cardinality(Newer(m)) <= Cardinality(U)
      BY <3>4, <3>5, FS_Subset
    <3> QED
      BY <1>1, <1>2, <1>4, <3>3, <3>5, <3>6
  <2> QED
    BY <2>1, <2>2
<1>6. w \in LiveWorkers /\ \A v \in Workers : pc[v] = "recorded" => v \in LiveWorkers
  BY DEF IInv, Typed, WorkerOK
<1>7. IsFiniteSet(H) /\ Cardinality(H) \in Nat /\ Cardinality(H) < HistoryKeep
  <2>1. /\ IsFiniteSet(others) /\ Cardinality(others) = Cardinality(LiveWorkers) - 1
        /\ Cardinality(LiveWorkers) \in Nat
    BY <1>6, FS_RemoveElement, FS_CardinalityType DEF FewWorkers
  <2>2. f \in Surjection(others, H)
    BY DEF Surjection
  <2> HIDE DEF f, H
  <2>3. IsFiniteSet(H) /\ Cardinality(H) <= Cardinality(others)
    BY <2>1, <2>2, FS_Surjection
  <2>4. Cardinality(H) \in Nat
    BY <2>3, FS_CardinalityType
  <2> QED
    BY <1>2, <2>1, <2>3, <2>4 DEF FewWorkers
<1> HIDE DEF f, H, U
<1>8. ~(U \subseteq H)
  <2>1. SUFFICES ASSUME U \subseteq H PROVE FALSE
    OBVIOUS
  <2>2. Cardinality(U) <= Cardinality(H)
    BY <1>7, <2>1, FS_Subset
  <2> QED
    BY <1>2, <1>5, <1>7, <2>2
<1>9. PICK n \in U : n \notin H
  BY <1>8
<1>10. n \in RunIds /\ n > id /\ status[n] \in Finished /\ ~Prunable(n)
  BY <1>9 DEF U, Newer
<1>11. ~Held(n)
  <2>1. SUFFICES ASSUME NEW v \in Workers, pc[v] = "recorded", run[v] = n PROVE FALSE
    BY DEF Held
  <2>2. v # w
    <3>1. run[w] \in RunIds
      BY DEF IInv, Typed, WorkerOK
    <3> QED
      BY <1>2, <1>10, <2>1, <3>1
  <2> QED
    BY <1>6, <1>9, <2>1, <2>2 DEF H
<1> QED
  BY <1>10, <1>11

\* What a step does to the rows of finished runs.
LEMMA FinishedRows ==
  ASSUME Undisturbed, IInv, Exclusion, [Next]_vars, NEW id \in RunIds, status[id] \in Finished
  PROVE  \/ status'[id] = status[id]
         \/ status'[id] = "absent" /\ (PruneRuns \/ \E w \in Workers : PruneQuietCycle(w))
<1> USE DEF IInv, Typed, TypeOK
<1>1. CASE Next /\ ~(\E r \in Requests : RequestBegins(r) \/ RequestStep(r))
                /\ ~(\E w \in Workers : WorkerStep(w))
  BY <1>1 DEF Next, UnexpectedError, ChildExits, OrphanExits, PruneRuns, Shutdown, ClosePools,
     Crash, Startup, rowVars, Active, Finished
<1>2. ASSUME NEW r \in Requests, RequestBegins(r) \/ RequestStep(r) PROVE status'[id] = status[id]
  <2>1. step[r] \notin {"cancelCommit", "cancelStop", "deleteCommit"}
    BY DEF Exclusion, Shape, Submitting
  <2>2. CASE RequestStep(r)
    BY <2>1, <2>2 DEF RequestStep, Submit, CancelCommit, CancelStop, FormDeleteCommit, rowVars
  <2>3. CASE RequestBegins(r)
    <3>1. \/ status' = status
          \/ \E n \in RunIds, s \in {"queued", "skipped"} :
                NextId(n) /\ status' = [status EXCEPT ![n] = s]
      BY <2>3 DEF RequestBegins, CreateRun, RecordSkip, Insert, ApiDelete, FormDeleteCheck,
         CancelRead, Undisturbed, rowVars
    <3>2. ASSUME NEW n \in RunIds, NextId(n) PROVE n # id
      BY <3>2 DEF NextId, Present, Finished, RunIds
    <3> QED
      BY <3>1, <3>2
  <2> QED
    BY <1>2, <2>2, <2>3
<1>3. ASSUME NEW w \in Workers, WorkerStep(w)
      PROVE  status'[id] = status[id] \/ (status'[id] = "absent" /\ PruneQuietCycle(w))
  <2>1. CASE PlanFails(w) \/ DryRunEnds(w) \/ Record(w)
    <3>1. status[run[w]] = "running"
      BY <2>1 DEF PlanFails, DryRunEnds, Record, Exclusion, Claims, Working
    <3> QED
      BY <2>1, <3>1 DEF PlanFails, DryRunEnds, Record, WriteOutcome, Finished
  <2>2. CASE MarkRunning(w)
    <3>1. status[run[w]] = "queued"
      BY <2>2 DEF MarkRunning, Exclusion, Shape, Claims
    <3> QED
      BY <2>2, <3>1 DEF MarkRunning, Finished
  <2>3. CASE PruneQuietCycle(w)
    BY <2>3 DEF PruneQuietCycle, rowVars
  <2> QED
    BY <1>3, <2>1, <2>2, <2>3
    DEF WorkerStep, Take, PlanCleared, Spawn, Register, CommitCommand, Close, rowVars
<1> QED
  BY <1>1, <1>2, <1>3 DEF vars, rowVars

\* A row that is gone is only replaced by one that is the newest.
LEMMA AbsentRows ==
  ASSUME Undisturbed, IInv, Exclusion, [Next]_vars, NEW id \in RunIds, status[id] = "absent"
  PROVE  status'[id] = "absent" \/ \A n \in RunIds : Present(n) => n < id
<1> USE DEF IInv, Typed, TypeOK
<1>1. CASE Next /\ ~(\E r \in Requests : RequestBegins(r) \/ RequestStep(r))
                /\ ~(\E w \in Workers : WorkerStep(w))
  BY <1>1 DEF Next, UnexpectedError, ChildExits, OrphanExits, PruneRuns, Shutdown, ClosePools,
     Crash, Startup, rowVars, Active, Finished
<1>2. ASSUME NEW r \in Requests, RequestBegins(r) \/ RequestStep(r)
      PROVE  status'[id] = "absent" \/ \A n \in RunIds : Present(n) => n < id
  <2>1. step[r] \notin {"cancelCommit", "cancelStop", "deleteCommit"}
    BY DEF Exclusion, Shape, Submitting
  <2>2. CASE RequestStep(r)
    BY <2>1, <2>2 DEF RequestStep, Submit, CancelCommit, CancelStop, FormDeleteCommit, rowVars
  <2>3. CASE RequestBegins(r)
    <3>1. \/ status' = status
          \/ \E n \in RunIds, s \in {"queued", "skipped"} :
                NextId(n) /\ status' = [status EXCEPT ![n] = s]
      BY <2>3 DEF RequestBegins, CreateRun, RecordSkip, Insert, ApiDelete, FormDeleteCheck,
         CancelRead, Undisturbed, rowVars
    <3> QED
      BY <3>1 DEF NextId
  <2> QED
    BY <1>2, <2>2, <2>3
<1>3. ASSUME NEW w \in Workers, WorkerStep(w) PROVE status'[id] = "absent"
  <2>1. CASE PlanFails(w) \/ DryRunEnds(w) \/ Record(w)
    BY <2>1 DEF PlanFails, DryRunEnds, Record, WriteOutcome, Present
  <2>2. CASE MarkRunning(w) \/ PruneQuietCycle(w)
    BY <2>2 DEF MarkRunning, PruneQuietCycle, Present, rowVars
  <2> QED
    BY <1>3, <2>1, <2>2
    DEF WorkerStep, Take, PlanCleared, Spawn, Register, CommitCommand, Close, rowVars
<1> QED
  BY <1>1, <1>2, <1>3 DEF vars, rowVars

\* Who comes to have a row it may drop.
LEMMA RecordedWorkers ==
  ASSUME IInv, [Next]_vars, NEW w \in Workers, pc'[w] = "recorded"
  PROVE  run'[w] = run[w] /\ (pc[w] = "recorded" \/ Record(w))
<1> USE DEF IInv, Typed, TypeOK
<1>1. ASSUME NEW v \in Workers, WorkerStep(v) \/ UnexpectedError(v)
      PROVE  run'[w] = run[w] /\ (pc[w] = "recorded" \/ Record(w))
  BY <1>1 DEF WorkerStep, Take, MarkRunning, PlanFails, DryRunEnds, PlanCleared, Spawn, Register,
     CommitCommand, Record, PruneQuietCycle, Close, UnexpectedError, Abandon, WriteOutcome, At
<1>2. CASE ~(\E v \in Workers : WorkerStep(v) \/ UnexpectedError(v))
  BY <1>2 DEF Next, vars, workerVars, RequestBegins, RequestStep, CreateRun, RecordSkip, ApiDelete,
     FormDeleteCheck, CancelRead, Submit, CancelCommit, CancelStop, FormDeleteCommit, PruneRuns,
     ChildExits, OrphanExits, Shutdown, ClosePools, Crash, Startup
<1> QED
  BY <1>1, <1>2

LEMMA SettledStep ==
  ASSUME Undisturbed, FewWorkers, IInv, Exclusion, Settled, [Next]_vars
  PROVE  Settled'
<1> SUFFICES ASSUME NEW w \in Workers, pc'[w] = "recorded"
             PROVE  \/ /\ status'[run'[w]] \in Finished
                       /\ \A v \in Workers : pc'[v] = "recorded" /\ run'[v] = run'[w] => v = w
                    \/ /\ status'[run'[w]] = "absent"
                       /\ \E n \in RunIds : n > run'[w] /\ status'[n] \in Finished /\ ~Held(n)'
  BY DEF Settled
<1>1. run'[w] = run[w] /\ run[w] \in RunIds /\ RunIds \subseteq Nat
  <2>1. run'[w] = run[w] /\ (pc[w] = "recorded" \/ Record(w))
    BY RecordedWorkers
  <2>2. pc[w] \in {"consuming", "recorded"}
    BY <2>1 DEF Record
  <2>3. run[w] \in RunIds
    BY <2>2 DEF IInv, Typed, WorkerOK
  <2> QED
    BY <2>1, <2>3 DEF RunIds
<1>2. \A v \in Workers : pc'[v] = "recorded" => run'[v] = run[v] /\ (pc[v] = "recorded" \/ Record(v))
  BY RecordedWorkers
\* Nobody comes to hold a row that is finished already.
<1>3. ASSUME NEW v \in Workers, pc'[v] = "recorded", status[run[v]] # "running" PROVE pc[v] = "recorded"
  BY <1>2, <1>3 DEF Record, Exclusion, Claims, Working
<1>4. ASSUME NEW n \in RunIds, status[n] \in Finished, ~Held(n) PROVE ~Held(n)'
  BY <1>2, <1>3, <1>4 DEF Held, Finished
<1>5. CASE Record(w)
  <2>1. status[run[w]] = "running" /\ pc[w] = "consuming"
    BY <1>5 DEF Record, Exclusion, Claims, Working
  <2>2. status'[run[w]] \in Finished
    BY <1>1, <1>5, <2>1 DEF Record, WriteOutcome, Present, Finished, IInv, Typed, TypeOK
  <2>3. ASSUME NEW v \in Workers, pc'[v] = "recorded", run'[v] = run[w] PROVE v = w
    <3>1. SUFFICES ASSUME v # w PROVE FALSE
      OBVIOUS
    <3>2. pc[v] = "recorded"
      BY <1>5, <2>3, <3>1 DEF Record, WriteOutcome, At, IInv, Typed, TypeOK
    <3>3. run[v] = run[w]
      BY <1>2, <2>3
    <3> QED
      BY <2>1, <3>2, <3>3 DEF Settled, Finished
  <2> QED
    BY <1>1, <2>2, <2>3
<1>6. CASE ~Record(w)
  <2>1. pc[w] = "recorded"
    BY <1>2, <1>6
  \* An unheld row that is not pruned is still there, and unheld.
  <2>2. ASSUME NEW n \in RunIds, status[n] \in Finished, ~Held(n), ~(PruneRuns /\ Prunable(n))
        PROVE  status'[n] \in Finished /\ ~Held(n)'
    <3>1. status'[n] = status[n]
      <4>1. CASE PruneRuns
        BY <2>2, <4>1 DEF PruneRuns
      <4>2. ASSUME NEW v \in Workers, PruneQuietCycle(v) PROVE status'[n] = status[n]
        <5>1. run[v] # n
          BY <2>2, <4>2 DEF PruneQuietCycle, Held
        <5> QED
          BY <4>2, <5>1 DEF PruneQuietCycle, rowVars, IInv, Typed, TypeOK
      <4> QED
        BY <2>2, <4>1, <4>2, FinishedRows
    <3> QED
      BY <1>4, <2>2, <3>1
  <2>3. CASE status[run[w]] \in Finished
    <3>1. \A v \in Workers : pc[v] = "recorded" /\ run[v] = run[w] => v = w
      BY <2>1, <2>3 DEF Settled, Finished
    <3>2. \A v \in Workers : pc'[v] = "recorded" /\ run'[v] = run[w] => v = w
      BY <1>2, <1>3, <2>3, <3>1 DEF Finished
    <3>3. CASE status'[run[w]] = status[run[w]]
      BY <1>1, <2>3, <3>2, <3>3
    <3>4. CASE status'[run[w]] = "absent" /\ PruneRuns /\ Prunable(run[w])
      <4>1. PICK n \in RunIds : n > run[w] /\ status[n] \in Finished /\ ~Prunable(n) /\ ~Held(n)
        <5>1. run[w] <= run[w]
          <6>1. run[w] \in Nat
            BY <1>1
          <6> QED
            BY <6>1
        <5> QED
          BY <1>1, <2>1, <3>4, <5>1, Survivor
      <4>2. status'[n] \in Finished /\ ~Held(n)'
        BY <2>2, <4>1
      <4> QED
        BY <1>1, <3>4, <4>1, <4>2
    <3>5. ASSUME NEW v \in Workers, PruneQuietCycle(v) PROVE status'[run[w]] = status[run[w]]
      <4>1. v # w /\ pc[v] = "recorded"
        BY <3>5 DEF PruneQuietCycle, At, IInv, Typed, TypeOK
      <4>2. run[v] # run[w]
        BY <3>1, <4>1
      <4> QED
        BY <1>1, <3>5, <4>2 DEF PruneQuietCycle, rowVars, IInv, Typed, TypeOK
    <3>6. PruneRuns => status'[run[w]] = status[run[w]] \/ Prunable(run[w])
      BY <1>1 DEF PruneRuns
    <3> QED
      BY <1>1, <2>3, <3>3, <3>4, <3>5, <3>6, FinishedRows
  <2>4. CASE status[run[w]] = "absent"
    <3>1. PICK n \in RunIds : n > run[w] /\ status[n] \in Finished /\ ~Held(n)
      BY <2>1, <2>4 DEF Settled, Finished
    <3>2. status'[run[w]] = "absent"
      <4>1. ~(n < run[w])
        <5>1. n \in Nat /\ run[w] \in Nat
          BY <1>1
        <5> QED
          BY <3>1, <5>1
      <4>2. Present(n)
        BY <3>1 DEF Present, Finished
      <4> QED
        BY <1>1, <2>4, <4>1, <4>2, AbsentRows
    <3>3. PICK m \in RunIds : m > run[w] /\ status[m] \in Finished /\ ~Held(m) /\ ~(PruneRuns /\ Prunable(m))
      <4>1. CASE ~Prunable(n)
        BY <3>1, <4>1
      <4>2. CASE Prunable(n)
        <5>1. PICK m \in RunIds : m > n /\ status[m] \in Finished /\ ~Prunable(m) /\ ~Held(m)
          <6>1. run[w] <= n
            <7>1. n \in Nat /\ run[w] \in Nat
              BY <1>1
            <7> QED
              BY <3>1, <7>1
          <6> QED
            BY <2>1, <3>1, <4>2, <6>1, Survivor
        <5>2. m > run[w]
          <6>1. m \in Nat /\ n \in Nat /\ run[w] \in Nat
            BY <1>1
          <6> QED
            BY <3>1, <5>1, <6>1
        <5> QED
          BY <5>1, <5>2
      <4> QED
        BY <4>1, <4>2
    <3> QED
      BY <1>1, <2>2, <3>2, <3>3
  <2> QED
    BY <2>1, <2>3, <2>4 DEF Settled
<1> QED
  BY <1>5, <1>6

\* A quiet cycle drops its own row, or one that is gone already: no claim is hit.
LEMMA DropKeeps ==
  ASSUME Undisturbed, IInv, Exclusion, DropsSettled, NEW w \in Workers, PruneQuietCycle(w)
  PROVE  Exclusion'
<1>1. CASE UNCHANGED rowVars
  BY <1>1, Leaves DEF PruneQuietCycle, rowVars, requestVars
<1>2. CASE ~UNCHANGED rowVars
  <2>1. /\ pc[w] = "recorded" /\ Settled
        /\ status' = [status EXCEPT ![run[w]] = "absent"]
        /\ jobOf' = [jobOf EXCEPT ![run[w]] = NoJob]
    BY <1>2 DEF PruneQuietCycle, DropsSettled
  <2>2. /\ UNCHANGED <<phase, step, held, queue, run, work, orphans>>
        /\ pc'[w] = "closing" /\ \A v \in Workers \ {w} : pc'[v] = pc[v]
    BY <1>2 DEF PruneQuietCycle, At, requestVars, IInv, Typed, TypeOK
  <2>3. status[run[w]] \notin Active
    BY <2>1 DEF Settled, Active, Finished
  <2>4. \A id \in RunIds : status[id] \in Active => status'[id] = status[id] /\ jobOf'[id] = jobOf[id]
    BY <2>1, <2>3 DEF IInv, Typed, TypeOK
  <2>5. \A v \in Workers : Engaged(v)' => v # w /\ Engaged(v)
    BY <2>2 DEF Engaged, Working
  <2>6. Shape'
    BY <2>1, <2>2, NotDown DEF Exclusion, Shape, Submitting
  <2>7. Claims'
    <3>1. \A v \in Workers : Engaged(v) => run[v] \in RunIds /\ status[run[v]] \in Active
      BY RunsHeld DEF IInv, Exclusion, Claims, Engaged, Active
    <3> QED
      BY <2>2, <2>4, <2>5, <3>1, RunsHeld
      DEF IInv, Exclusion, Claims, Submitting, Places, Engaged, Working, Active
  <2>8. Unique'
    BY <2>2, <2>5 DEF Exclusion, Unique, Submitting, Places, Engaged, Working
  <2>9. OrphanRows'
    BY <2>2, <2>4, <2>5 DEF Exclusion, OrphanRows, Engaged, Working, Active
  <2> QED
    BY <2>6, <2>7, <2>8, <2>9 DEF Exclusion
<1> QED
  BY <1>1, <1>2

\* Every step of a worker.
LEMMA WorkerKeeps ==
  ASSUME Undisturbed, IInv, Exclusion, DropsSettled,
         NEW w \in Workers, WorkerStep(w) \/ UnexpectedError(w)
  PROVE  Exclusion'
<1>1. CASE PlanFails(w) \/ DryRunEnds(w)
  BY <1>1, OutcomeKeeps DEF PlanFails, DryRunEnds, Working, Status, Finished, requestVars
<1>2. CASE PlanCleared(w)
  <2>1. Working(w) /\ Present(run[w])
    BY <1>2 DEF PlanCleared, Working, Exclusion, Claims, Present
  <2> QED
    BY <1>2, <2>1, MovesOn DEF PlanCleared, rowVars, requestVars
<1>3. CASE Spawn(w) \/ Register(w)
  BY <1>3, MovesOn DEF Spawn, Register, Working, rowVars, requestVars
<1>4. CASE CommitCommand(w)
  <2>1. Working(w) /\ Present(run[w])
    BY <1>4 DEF CommitCommand, Working, Exclusion, Claims, Present
  <2> QED
    BY <1>4, <2>1, MovesOn DEF CommitCommand, rowVars, requestVars
<1>5. CASE Record(w)
  <2>1. \E s \in Finished, next \in {"closing", "recorded"} : WriteOutcome(w, s, next)
    BY <1>5 DEF Record, Finished
  <2> QED
    BY <1>5, <2>1, OutcomeKeeps DEF Record, Working, Status, requestVars
<1>6. CASE PruneQuietCycle(w)
  BY <1>6, DropKeeps
<1>7. CASE Close(w)
  <2>1. \A v \in Workers \ {w} : run'[v] = run[v] /\ work'[v] = work[v]
    BY <1>7 DEF Close, IInv, Typed, TypeOK
  <2> QED
    BY <1>7, <2>1, Leaves DEF Close, rowVars, requestVars
<1>8. CASE UnexpectedError(w)
  <2>1. Engaged(w) /\ (Alive(w) => Working(w))
    BY <1>8 DEF UnexpectedError, IInv, Typed, WorkerOK, Engaged, Working
  <2>2. orphans' \subseteq orphans \cup {work[w]} /\ (orphans' = orphans \/ Working(w))
    BY <1>8, <2>1 DEF UnexpectedError, Abandon
  <2> QED
    BY <1>8, <2>1, <2>2, LetGo DEF UnexpectedError, Abandon, rowVars, requestVars
<1> QED
  BY <1>1, <1>2, <1>3, <1>4, <1>5, <1>6, <1>7, <1>8, TakeKeeps, MarkRunningKeeps DEF WorkerStep

\* Every step of a request.
LEMMA RequestKeeps ==
  ASSUME Undisturbed, IInv, Exclusion,
         NEW r \in Requests, RequestBegins(r) \/ RequestStep(r)
  PROVE  Exclusion'
<1>1. ASSUME NEW j \in jobs, RecordSkip(r, j)
      PROVE  Exclusion'
  <2>1. /\ \A id \in RunIds : status[id] \in Active => status'[id] = status[id] /\ jobOf'[id] = jobOf[id]
        /\ UNCHANGED <<phase, step, held, queue, pc, run, work, orphans>>
    BY <1>1 DEF RecordSkip, Insert, NextId, Present, Active, RunIds, IInv, Typed, TypeOK,
       requestVars, workerVars
  <2>2. Shape' /\ Unique'
    BY <2>1 DEF Exclusion, Shape, Unique, Submitting, Places, Engaged, Working
  <2>3. Claims'
    BY <2>1, RunsHeld DEF IInv, Exclusion, Claims, Submitting, Places, Engaged, Working, Active
  <2>4. OrphanRows'
    BY <2>1 DEF Exclusion, OrphanRows, Engaged, Working, Active
  <2> QED
    BY <2>2, <2>3, <2>4 DEF Exclusion
<1>2. step[r] = "idle" \/ Submitting(r)
  BY DEF Exclusion, Shape
<1>3. ASSUME NEW j \in jobs
      PROVE  ~ApiDelete(r, j) /\ ~FormDeleteCheck(r, j)
  BY DEF Undisturbed, ApiDelete, FormDeleteCheck
<1>4. ASSUME NEW id \in RunIds
      PROVE  ~CancelRead(r, id)
  BY DEF Undisturbed, CancelRead
<1>5. ~CancelCommit(r) /\ ~CancelStop(r) /\ ~FormDeleteCommit(r)
  BY <1>2 DEF Submitting, CancelCommit, CancelStop, FormDeleteCommit
<1> QED
  BY <1>1, <1>3, <1>4, <1>5, CreateKeeps, SubmitKeeps DEF RequestBegins, RequestStep

\* Every step there is.
LEMMA ExclusionStep ==
  ASSUME Undisturbed, IInv, Exclusion, DropsSettled, [Next]_vars
  PROVE  Exclusion'
<1>1. CASE Shutdown \/ UNCHANGED vars \/ (\E w \in Workers : ChildExits(w))
  <2>1. /\ UNCHANGED <<status, jobOf, step, held, queue, pc, run, work, orphans>>
        /\ phase' = "down" => phase = "down"
    BY <1>1 DEF Shutdown, vars, ChildExits, rowVars, requestVars, workerVars
  <2> QED
    BY <2>1 DEF Exclusion, Shape, Claims, Unique, OrphanRows, Submitting, Places, Engaged, Working
<1>2. ASSUME NEW j \in Jobs, OrphanExits(j)
      PROVE  Exclusion'
  BY <1>2 DEF OrphanExits, Exclusion, Shape, Claims, Unique, OrphanRows, Submitting, Places,
     Engaged, Working, rowVars, requestVars, workerVars
<1>3. CASE ClosePools
  <2>1. /\ UNCHANGED <<status, jobOf, step, held, pc, run, work, orphans>>
        /\ phase' # "down" /\ \A p \in Pools : queue'[p] = <<>>
    BY <1>3 DEF ClosePools, rowVars, requestVars, workerVars
  <2> QED
    BY <2>1 DEF Exclusion, Shape, Claims, Unique, OrphanRows, Submitting, Places, Engaged, Working
<1>4. CASE Crash
  BY <1>4 DEF Crash, Exclusion, Shape, Claims, Unique, OrphanRows, Submitting, Places, Engaged,
     Working
<1>5. CASE Startup
  <2>1. /\ UNCHANGED <<step, held, queue, pc, run, work, orphans>> /\ phase' # "down"
        /\ \A r \in Requests : step[r] = "idle"
        /\ \A p \in Pools : queue[p] = <<>>
        /\ \A w \in Workers : pc[w] = "idle"
        /\ orphans = {}
    BY <1>5 DEF Startup, Exclusion, Shape, requestVars, workerVars
  <2> QED
    BY <2>1 DEF Exclusion, Shape, Claims, Unique, OrphanRows, Submitting, Places, Engaged, Working
<1> QED
  BY <1>1, <1>2, <1>3, <1>4, <1>5, PruneKeeps, RequestKeeps, WorkerKeeps DEF Next

\* What the exclusion is for.
LEMMA ExclusionImplies ==
  ASSUME IInv, Exclusion
  PROVE  SlotHeldWhileSyncing /\ NeverDoubleRuns
<1>1. ASSUME NEW w \in Workers, Alive(w)
      PROVE  /\ Working(w) /\ run[w] \in RunIds
             /\ status[run[w]] = "running" /\ jobOf[run[w]] = work[w]
  <2>1. pc[w] \in {"spawned", "registered", "consuming"} /\ run[w] \in RunIds
    BY <1>1 DEF IInv, Typed, WorkerOK
  <2> QED
    BY <2>1 DEF Exclusion, Claims, Working, Engaged
<1>2. SlotHeldWhileSyncing
  BY <1>1 DEF SlotHeldWhileSyncing, Syncing, HasActiveRow, ActiveRow, Active, Exclusion, OrphanRows
<1>3. ASSUME NEW w \in Workers, Alive(w)
      PROVE  work[w] \notin orphans
  <2> SUFFICES ASSUME work[w] \in orphans PROVE FALSE
    OBVIOUS
  <2>1. PICK id \in RunIds : /\ status[id] = "running" /\ jobOf[id] = work[w]
                             /\ \A v \in Workers : Engaged(v) => run[v] # id
    BY DEF Exclusion, OrphanRows
  <2>2. id = run[w]
    BY <1>1, <1>3, <2>1 DEF IInv, OneActivePerJob, Active
  <2> QED
    BY <1>1, <1>3, <2>1, <2>2 DEF Engaged
<1>4. ASSUME NEW v \in Workers, NEW w \in Workers, Alive(v), Alive(w), work[v] = work[w]
      PROVE  v = w
  <2>1. run[v] = run[w]
    BY <1>1, <1>4 DEF IInv, OneActivePerJob, Active
  <2> QED
    BY <1>1, <1>4, <2>1 DEF Exclusion, Unique, Engaged
<1> QED
  BY <1>2, <1>3, <1>4 DEF NeverDoubleRuns

\* It holds when the process starts with an empty database.
LEMMA ExclusionInit == Init => Exclusion
  BY DEF Init, Exclusion, Shape, Claims, Unique, OrphanRows, Submitting, Places, Engaged, Working,
     Workers, Pools

\* The inductive invariant of an undisturbed system.
THEOREM Excluded == Undisturbed => (Spec => [](IInv /\ Exclusion /\ DropsSettled))
<1> SUFFICES ASSUME Undisturbed PROVE Spec => [](IInv /\ Exclusion /\ DropsSettled)
  OBVIOUS
<1>1. Init => Exclusion /\ DropsSettled
  BY ExclusionInit DEF Init, DropsSettled, Settled, Workers
<1>2. IInv /\ Exclusion /\ DropsSettled /\ [Next]_vars => Exclusion' /\ DropsSettled'
  <2>1. SUFFICES ASSUME IInv, Exclusion, DropsSettled, [Next]_vars, ContinuousJobs # {}
                 PROVE  Settled'
    BY ExclusionStep DEF DropsSettled
  <2> QED
    BY <2>1, SettledStep DEF DropsSettled, Undisturbed
<1>3. Spec => []IInv
  BY Inductive
<1> QED
  BY <1>1, <1>2, <1>3, PTL DEF Spec

\* The slot of a job is held for as long as an rclone works on it, also by one
\* its worker abandoned to an exception it did not expect.
THEOREM SlotHeld == Undisturbed => (Spec => []SlotHeldWhileSyncing)
<1> SUFFICES ASSUME Undisturbed PROVE Spec => []SlotHeldWhileSyncing
  OBVIOUS
<1>1. IInv /\ Exclusion => SlotHeldWhileSyncing
  BY ExclusionImplies
<1> QED
  BY <1>1, Excluded, PTL

\* scheduler.py's "never double-runs": no two rclone processes sync one job.
THEOREM NoDoubleRun == Undisturbed => (Spec => []NeverDoubleRuns)
<1> SUFFICES ASSUME Undisturbed PROVE Spec => []NeverDoubleRuns
  OBVIOUS
<1>1. IInv /\ Exclusion => NeverDoubleRuns
  BY ExclusionImplies
<1> QED
  BY <1>1, Excluded, PTL

\* A finished run keeps its outcome: nothing writes status to the row of a run
\* that ended, pruning and a quiet cycle delete it, and an id is given out again
\* only when its row is gone.
THEOREM FinishedFinal == Undisturbed => (Spec => FinishedIsFinal)
<1> SUFFICES ASSUME Undisturbed PROVE Spec => FinishedIsFinal
  OBVIOUS
<1>1. IInv /\ Exclusion /\ [Next]_vars
         => [\A id \in RunIds : status[id] \in Finished => status'[id] \in {status[id], "absent"}]_vars
  BY FinishedRows
<1> QED
  BY <1>1, Excluded, PTL DEF Spec, FinishedIsFinal
=============================================================================
