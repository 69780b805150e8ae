--------------------------------- MODULE Pools ---------------------------------
(***************************************************************************)
(* The worker pool of LiveRunner (PlanRunner's is the same code) while the *)
(* number of runs that may go at once is changed.  A ThreadPoolExecutor    *)
(* cannot be resized, so resize() puts a new one in its place and the old  *)
(* one drains; submit() reads which pool is in place and hands it the run  *)
(* in a second step.  The number comes from the environment at startup and *)
(* from the stored preference when the settings form is saved; the other   *)
(* writers of the preference leave the pools alone.                        *)
(*                                                                         *)
(* What a run does, and what cancelling it does, is RunLifecycle's.        *)
(***************************************************************************)
EXTENDS Naturals, Sequences, FiniteSets

CONSTANTS
    Runs,       \* bound: the runs that are active at a time
    Pools,      \* bound: the pools alive at a time, the current one and those that drain or refused a run
    EnvCap,     \* MAX_CONCURRENT_RUNS of the environment
    MaxCap,     \* bound: the largest preference (32 in the code)
    NoPool,     \* "none"
    MayStop     \* whether the process is stopped, killed and started again

ASSUME ConstantsAssumption ==
    /\ MaxCap \in Nat \ {0} /\ EnvCap \in 1..MaxCap
    /\ Cardinality(Pools) > 1
    /\ NoPool \notin Pools
    /\ MayStop \in BOOLEAN

VARIABLES
    life,       \* "up", "stopping" (lifespan has shut the runners down), or "down"
    stored,     \* the preference as load() gives it; 0 follows the environment
    form,       \* the settings form: "idle", "saved", or "swapped" (inside resize)
    want,       \* the number the form is to apply
    pool,       \* LiveRunner._pool
    size,       \* LiveRunner._max_workers
    cap,        \* the number of threads each pool may have
    open,       \* the pools that accept work
    queue,      \* the work each pool has not begun
    state,      \* of each run: "none", "made" (its row is queued), "picked" (submit has
                \* read _pool), "queued", "running"; in no pool, though the row is
                \* queued: "refused" by submit, or "lost"
    where,      \* the pool of a run, from "picked" on, and the one that refused it
    unapplied   \* history: the preference was changed or read at startup by code that
                \* does not resize, since the form was saved last

poolVars == <<pool, size, cap, open, queue>>
runVars  == <<state, where>>
setting  == <<stored, form, want, unapplied>>
vars == <<life, setting, poolVars, runVars>>

Caps == 0..MaxCap

\* _apply_concurrency: zero means follow the environment.
Effective(preference) == IF preference = 0 THEN EnvCap ELSE preference

Working(g) == {r \in Runs : state[r] = "running" /\ where[r] = g}

\* A pool nothing refers to any more; its place is given to the next one.
Spare == {g \in Pools \ ({pool} \cup open) :
             queue[g] = <<>> /\ \A r \in Runs : where[r] # g}

Fresh(g) ==
    /\ pool' = g
    /\ size' = EnvCap
    /\ cap' = [p \in Pools |-> IF p = g THEN EnvCap ELSE 0]
    /\ open' = {g}
    /\ queue' = [p \in Pools |-> <<>>]

Init ==
    /\ life = "up"
    /\ stored = 0
    /\ form = "idle"
    /\ want = 0
    /\ pool = CHOOSE g \in Pools : TRUE
    /\ size = EnvCap
    /\ cap = [p \in Pools |-> IF p = pool THEN EnvCap ELSE 0]
    /\ open = {pool}
    /\ queue = [p \in Pools |-> <<>>]
    /\ state = [r \in Runs |-> "none"]
    /\ where = [r \in Runs |-> NoPool]
    /\ unapplied = FALSE

-----------------------------------------------------------------------------
(* The preference. *)

\* Every preference is written, whatever the table says by now.
Save(c) == stored' = c

\* Mutant: zero is handed to resize(), which ignores it.
SaveFormUnresolved ==
    /\ life = "up" /\ form = "idle"
    /\ \E c \in Caps :
          /\ stored' = c
          /\ want' = c
          /\ form' = IF c \in {0, size} THEN "idle" ELSE "saved"
    /\ unapplied' = FALSE
    /\ UNCHANGED <<life, poolVars, runVars>>

\* The settings form writes every field, a blank number as 0, and then resizes.
\* It holds the event loop, so there is one at a time.
SaveForm ==
    /\ life = "up" /\ form = "idle"
    /\ \E c \in Caps :
          /\ Save(c)
          /\ want' = Effective(c)
          /\ form' = IF Effective(c) = size THEN "idle" ELSE "saved"
    /\ unapplied' = FALSE
    /\ UNCHANGED <<life, poolVars, runVars>>

\* The number changes, perhaps back to what was read a while ago, and no pool
\* hears of it.
SaveOnly ==
    /\ life = "up"
    /\ \E c \in Caps \ {stored} : Save(c)
    /\ unapplied' = TRUE
    /\ UNCHANGED <<life, form, want, poolVars, runVars>>

\* PATCH /api/settings: load, update, save.
PatchSettings == SaveOnly

\* Both imports do the same with what the document says.
ImportPreferences == SaveOnly

-----------------------------------------------------------------------------
(* resize: under the lock a new pool is put in place, then the old one is shut. *)

\* Mutant: only the number is replaced.
SwapNumber ==
    /\ form = "saved"
    /\ size' = want
    /\ form' = "swapped"
    /\ UNCHANGED <<life, stored, want, unapplied, pool, cap, open, queue, runVars>>

Swap ==
    /\ form = "saved"
    /\ \E g \in Spare :
          /\ pool' = g
          /\ size' = want
          /\ cap' = [cap EXCEPT ![g] = want]
          /\ open' = open \cup {g}
    /\ form' = "swapped"
    /\ UNCHANGED <<life, stored, want, unapplied, queue, runVars>>

\* Mutant: the old pool's futures are cancelled.
ShutOldCancelling ==
    /\ form = "swapped"
    /\ open' = {pool}
    /\ queue' = [g \in Pools |-> IF g = pool THEN queue[g] ELSE <<>>]
    /\ state' = [r \in Runs |-> IF state[r] = "queued" /\ where[r] # pool
                                THEN "lost" ELSE state[r]]
    /\ form' = "idle"
    /\ want' = 0
    /\ UNCHANGED <<life, stored, unapplied, pool, size, cap, where>>

\* old.shutdown(wait=False): it takes no more work and finishes what it has.
ShutOld ==
    /\ form = "swapped"
    /\ open' = {pool}
    /\ form' = "idle"
    /\ want' = 0
    /\ UNCHANGED <<life, stored, unapplied, pool, size, cap, queue, runVars>>

-----------------------------------------------------------------------------
(* Runs. *)

CreateRun(r) ==
    /\ life = "up" /\ state[r] = "none"
    /\ state' = [state EXCEPT ![r] = "made"]
    /\ UNCHANGED <<life, setting, poolVars, where>>

\* submit, first half: the attribute is read, without the lock.
ReadPool(r) ==
    /\ life # "down" /\ state[r] = "made"
    /\ state' = [state EXCEPT ![r] = "picked"]
    /\ where' = [where EXCEPT ![r] = pool]
    /\ UNCHANGED <<life, setting, poolVars>>

\* Second half: a pool that is shut raises RuntimeError, and the row stays queued.
Submit(r) ==
    /\ life # "down" /\ state[r] = "picked"
    /\ IF where[r] \in open
       THEN /\ queue' = [queue EXCEPT ![where[r]] = Append(@, r)]
            /\ state' = [state EXCEPT ![r] = "queued"]
       ELSE /\ state' = [state EXCEPT ![r] = "refused"]
            /\ UNCHANGED queue
    /\ UNCHANGED <<life, setting, pool, size, cap, open, where>>

\* Mutant: a thread too many.
BeginOneMore(g) ==
    /\ life # "down" /\ queue[g] # <<>>
    /\ Cardinality(Working(g)) <= cap[g]
    /\ state' = [state EXCEPT ![Head(queue[g])] = "running"]
    /\ queue' = [queue EXCEPT ![g] = Tail(@)]
    /\ UNCHANGED <<life, setting, pool, size, cap, open, where>>

\* Work is begun in the order it came, draining pools included.
Begin(g) ==
    /\ life # "down" /\ queue[g] # <<>>
    /\ Cardinality(Working(g)) < cap[g]
    /\ state' = [state EXCEPT ![Head(queue[g])] = "running"]
    /\ queue' = [queue EXCEPT ![g] = Tail(@)]
    /\ UNCHANGED <<life, setting, pool, size, cap, open, where>>

End(r) ==
    /\ life # "down" /\ state[r] = "running"
    /\ state' = [state EXCEPT ![r] = "none"]
    /\ where' = [where EXCEPT ![r] = NoPool]
    /\ UNCHANGED <<life, setting, poolVars>>

\* An operator cancels a run no pool has: its row is over, nothing else happens.
CancelStranded(r) ==
    /\ life = "up" /\ state[r] \in {"refused", "lost"}
    /\ state' = [state EXCEPT ![r] = "none"]
    /\ where' = [where EXCEPT ![r] = NoPool]
    /\ UNCHANGED <<life, setting, poolVars>>

-----------------------------------------------------------------------------
(* The process. *)

\* lifespan, once the requests are answered: shutdown() cancels what the current
\* pool has not begun.  It knows nothing of the pools that are draining.
Shutdown ==
    /\ MayStop /\ life = "up" /\ form = "idle"
    /\ life' = "stopping"
    /\ open' = {}
    /\ queue' = [queue EXCEPT ![pool] = <<>>]
    /\ state' = [r \in Runs |-> IF state[r] = "queued" /\ where[r] = pool
                                THEN "lost" ELSE state[r]]
    /\ UNCHANGED <<setting, pool, size, cap, where>>

\* Mutant: the interpreter waits for runs whose futures were cancelled.
ExitWhenIdle ==
    /\ life = "stopping"
    /\ \A g \in Pools : queue[g] = <<>> /\ Working(g) = {}
    /\ \A r \in Runs : state[r] \notin {"refused", "lost"}
    /\ life' = "down"
    /\ UNCHANGED <<setting, poolVars, runVars>>

\* The interpreter waits for every pool's threads, and those for their queues.
Exit ==
    /\ life = "stopping"
    /\ \A g \in Pools : queue[g] = <<>> /\ Working(g) = {}
    /\ life' = "down"
    /\ UNCHANGED <<setting, poolVars, runVars>>

Crash ==
    /\ MayStop /\ life # "down"
    /\ life' = "down"
    /\ form' = "idle"
    /\ want' = 0
    /\ open' = {}
    /\ queue' = [g \in Pools |-> <<>>]
    /\ state' = [r \in Runs |-> IF state[r] = "none" THEN "none" ELSE "lost"]
    /\ where' = [r \in Runs |-> NoPool]
    /\ UNCHANGED <<stored, unapplied, pool, size, cap>>

\* create_app: every row is released, and the pools take the environment's number.
Startup ==
    /\ life = "down"
    /\ life' = "up"
    /\ state' = [r \in Runs |-> "none"]
    /\ where' = [r \in Runs |-> NoPool]
    /\ Fresh(pool)
    /\ unapplied' = (Effective(stored) # EnvCap)
    /\ UNCHANGED <<stored, form, want>>

Resize == Swap \/ ShutOld
Steps(r) == ReadPool(r) \/ Submit(r) \/ End(r)

Next ==
    \/ SaveForm \/ PatchSettings \/ ImportPreferences \/ Resize
    \/ \E r \in Runs : CreateRun(r) \/ Steps(r) \/ CancelStranded(r)
    \/ \E g \in Pools : Begin(g)
    \/ Shutdown \/ Exit \/ Crash \/ Startup

Spec == Init /\ [][Next]_vars

\* Threads that have something to do go on; the operator need not.
FairSpec ==
    /\ Spec
    /\ WF_vars(Resize) /\ WF_vars(Exit)
    /\ \A r \in Runs : WF_vars(Steps(r))
    /\ \A g \in Pools : WF_vars(Begin(g))

-----------------------------------------------------------------------------
TypeOK ==
    /\ life \in {"up", "stopping", "down"}
    /\ stored \in Caps
    /\ form \in {"idle", "saved", "swapped"}
    /\ want \in Caps
    /\ pool \in Pools
    /\ size \in 1..MaxCap
    /\ cap \in [Pools -> Caps]
    /\ open \subseteq Pools
    /\ \A g \in Pools : \A i \in 1..Len(queue[g]) : queue[g][i] \in Runs
    /\ state \in [Runs -> {"none", "made", "picked", "queued", "running", "refused", "lost"}]
    /\ where \in [Runs -> Pools \cup {NoPool}]
    /\ \A g \in Pools : Cardinality(Working(g)) <= cap[g]
    /\ unapplied \in BOOLEAN

\* Once the settings form has answered, runs go as many at once as the
\* preference says, whatever pools drain, until the preference is written by the
\* API or an import, or the process is started again with one of its own.
PoolFollowsSetting ==
    life = "up" /\ form = "idle" /\ ~unapplied =>
        size = Effective(stored) /\ cap[pool] = Effective(stored)

\* A run that was created is begun while the process is up, however often the
\* pools are replaced meanwhile and however many runs are before it.  The one
\* exception is a run handed to a pool that was replaced in between.
CreatedRunsBegin ==
    \A r \in Runs : state[r] = "made" ~>
        \/ state[r] = "running"
        \/ life # "up"
        \/ state[r] = "refused" /\ where[r] # pool

\* The limit is exceeded while old pools drain and not for ever: once the number
\* is left alone, no more runs go at once than it allows.
Going == {r \in Runs : state[r] = "running"}
WithinCapInTheEnd ==
    <>[][~Swap]_vars => <>[](Cardinality(Going) <= size)

\* A shutdown comes to its end although draining pools go on with their queues.
StopsInTheEnd == life = "stopping" ~> life = "down"
=============================================================================
