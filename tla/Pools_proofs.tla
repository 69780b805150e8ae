---------------------------- MODULE Pools_proofs ----------------------------
(***************************************************************************)
(* Types of the worker pools, the limit each of them keeps to, and that    *)
(* the pool in place has the number the settings say, for any number of    *)
(* pools, of runs and of threads.                                          *)
(***************************************************************************)
EXTENDS Pools, SequenceTheorems, FiniteSetTheorems, TLAPS

\* The work in a queue.
Waiting(q) == {q[i] : i \in 1..Len(q)}
Once(q)    == \A i, j \in 1..Len(q) : q[i] = q[j] => i = j

LEMMA QueueAppend ==
  ASSUME NEW S, NEW q \in Seq(S), NEW r \in S, Once(q), r \notin Waiting(q)
  PROVE  /\ Append(q, r) \in Seq(S) /\ Once(Append(q, r))
         /\ Waiting(Append(q, r)) = Waiting(q) \cup {r}
<1>1. /\ Len(q) \in Nat /\ Len(Append(q, r)) = Len(q) + 1
      /\ \A i \in 1..Len(q) : Append(q, r)[i] = q[i]
      /\ Append(q, r)[Len(q) + 1] = r
      /\ Append(q, r) \in Seq(S)
  BY AppendProperties, LenProperties
<1> QED
  BY <1>1 DEF Once, Waiting

LEMMA QueueTail ==
  ASSUME NEW S, NEW q \in Seq(S), q # <<>>, Once(q)
  PROVE  /\ Head(q) \in S /\ Head(q) \in Waiting(q)
         /\ Tail(q) \in Seq(S) /\ Once(Tail(q))
         /\ Waiting(Tail(q)) \subseteq Waiting(q) \ {Head(q)}
<1>1. /\ Len(q) \in Nat \ {0} /\ Len(Tail(q)) = Len(q) - 1 /\ Head(q) = q[1]
      /\ \A i \in 1..Len(Tail(q)) : Tail(q)[i] = q[i + 1]
      /\ Head(q) \in S /\ Tail(q) \in Seq(S)
  BY HeadTailProperties, EmptySeq
<1>2. \A i \in 1..Len(Tail(q)) : i + 1 \in 1..Len(q) /\ i + 1 # 1 /\ Tail(q)[i] = q[i + 1]
  BY <1>1
<1>3. Once(Tail(q))
  BY <1>1, <1>2 DEF Once
<1>4. ASSUME NEW i \in 1..Len(Tail(q)) PROVE Tail(q)[i] \in Waiting(q) \ {Head(q)}
  BY <1>1, <1>2 DEF Once, Waiting
<1> QED
  BY <1>1, <1>3, <1>4 DEF Waiting

LEMMA QueueEmpty == ASSUME NEW S PROVE <<>> \in Seq(S) /\ Once(<<>>) /\ Waiting(<<>>) = {}
<1>1. <<>> \in Seq(S) /\ Len(<<>>) = 0
  BY EmptySeq
<1> QED
  BY <1>1 DEF Once, Waiting

-----------------------------------------------------------------------------
(* The inductive invariant.                                                *)

States == {"none", "made", "picked", "queued", "running", "refused", "lost"}

Typed ==
    /\ life \in {"up", "stopping", "down"}
    /\ stored \in Caps
    /\ form \in {"idle", "saved", "swapped"}
    /\ want \in Caps
    /\ pool \in Pools
    /\ size \in 1..MaxCap
    /\ cap \in [Pools -> Caps]
    /\ open \subseteq Pools
    /\ queue \in [Pools -> Seq(Runs)]
    /\ state \in [Runs -> States]
    /\ where \in [Runs -> Pools \cup {NoPool}]
    /\ unapplied \in BOOLEAN

\* Work is in the queue of its pool, and there once.
Queued ==
    \A g \in Pools :
        /\ Once(queue[g])
        /\ \A r \in Waiting(queue[g]) : state[r] = "queued" /\ where[r] = g

\* No pool has more threads than its limit.
WithinCap ==
    \A g \in Pools : IsFiniteSet(Working(g)) /\ Cardinality(Working(g)) <= cap[g]

\* What the form is about to do is what was saved, unless that was overwritten.
Applied ==
    /\ life # "up" => form = "idle"
    /\ cap[pool] = size
    /\ form = "saved" => want \in 1..MaxCap
    /\ life = "up" /\ ~unapplied =>
          (IF form = "saved" THEN want ELSE size) = Effective(stored)

PoolsInv == Typed /\ Queued /\ WithinCap /\ Applied

LEMMA EffectiveRange == ASSUME NEW c \in Caps PROVE Effective(c) \in 1..MaxCap
  BY ConstantsAssumption DEF Effective, Caps

LEMMA PoolsInit == Init => PoolsInv
<1> SUFFICES ASSUME Init PROVE PoolsInv
  OBVIOUS
<1>1. pool \in Pools
  <2>1. Pools # {}
    <3>1. SUFFICES ASSUME Pools = {} PROVE FALSE
      OBVIOUS
    <3>2. Cardinality(Pools) = 0
      BY <3>1, FS_EmptySet
    <3> QED
      BY <3>2, ConstantsAssumption
  <2> QED
    BY <2>1 DEF Init
<1>2. EnvCap \in 1..MaxCap /\ 1..MaxCap \subseteq Caps /\ 0 \in Caps
  BY ConstantsAssumption DEF Caps
<1>3. Typed
  BY <1>1, <1>2, QueueEmpty DEF Init, Typed, States
<1>4. Queued
  BY QueueEmpty DEF Init, Queued
<1>5. ASSUME NEW g \in Pools PROVE IsFiniteSet(Working(g)) /\ Cardinality(Working(g)) <= cap[g]
  <2>1. Working(g) = {} /\ cap[g] \in Caps
    BY <1>3 DEF Init, Working, Typed
  <2> QED
    BY <2>1, FS_EmptySet, ConstantsAssumption DEF Caps
<1>6. Applied
  BY <1>1 DEF Init, Applied, Effective
<1> QED
  BY <1>3, <1>4, <1>5, <1>6 DEF PoolsInv, WithinCap

\* A pool of which no run ends up working, or only runs that were.
LEMMA WorkingShrinks ==
  ASSUME NEW g \in Pools, IsFiniteSet(Working(g)), Cardinality(Working(g)) <= cap[g],
         cap[g] \in Caps, cap'[g] = cap[g],
         \A r \in Runs : state'[r] = "running" /\ where'[r] = g => state[r] = "running" /\ where[r] = g
  PROVE  IsFiniteSet(Working(g)') /\ Cardinality(Working(g)') <= cap'[g]
<1>1. Working(g)' \subseteq Working(g)
  BY DEF Working
<1>2. IsFiniteSet(Working(g)') /\ Cardinality(Working(g)') <= Cardinality(Working(g))
  BY <1>1, FS_Subset
<1>3. Cardinality(Working(g)) \in Nat /\ Cardinality(Working(g)') \in Nat /\ cap[g] \in Nat
  BY <1>2, FS_CardinalityType, ConstantsAssumption DEF Caps
<1> QED
  BY <1>2, <1>3

LEMMA NobodyWorks ==
  ASSUME NEW g \in Pools, cap'[g] \in Caps, \A r \in Runs : where'[r] # g
  PROVE  IsFiniteSet(Working(g)') /\ Cardinality(Working(g)') <= cap'[g]
<1>1. Working(g)' = {}
  BY DEF Working
<1> QED
  BY <1>1, FS_EmptySet, ConstantsAssumption DEF Caps

LEMMA CapKept ==
  ASSUME Typed, WithinCap, cap' = cap,
         \A r \in Runs : state'[r] = "running" => state[r] = "running" /\ where'[r] = where[r]
  PROVE  WithinCap'
<1>1. ASSUME NEW g \in Pools
      PROVE  IsFiniteSet(Working(g)') /\ Cardinality(Working(g)') <= cap'[g]
  <2>1. cap[g] \in Caps /\ IsFiniteSet(Working(g)) /\ Cardinality(Working(g)) <= cap[g]
    BY DEF Typed, WithinCap
  <2> QED
    BY <2>1, WorkingShrinks
<1> QED
  BY <1>1 DEF WithinCap

\* The form, the other writers of the preference, and resize.
LEMMA SettingStep ==
  ASSUME PoolsInv, SaveForm \/ SaveOnly \/ Swap \/ ShutOld PROVE PoolsInv'
<1> USE DEF PoolsInv
<1>1. 1..MaxCap \subseteq Caps
  BY ConstantsAssumption DEF Caps
<1>2. CASE SaveForm \/ SaveOnly \/ ShutOld
  <2>1. UNCHANGED <<pool, size, cap, queue, state, where>>
    BY <1>2 DEF SaveForm, SaveOnly, ShutOld, poolVars, runVars
  <2>2. Typed'
    <3>1. CASE SaveForm
      <4>1. PICK c \in Caps : stored' = c /\ want' = Effective(c)
        BY <3>1 DEF SaveForm, Save
      <4>2. want' \in Caps /\ form' \in {"idle", "saved"} /\ unapplied' = FALSE
        BY <1>1, <3>1, <4>1, EffectiveRange DEF SaveForm
      <4> QED
        BY <2>1, <3>1, <4>1, <4>2 DEF SaveForm, poolVars, Typed
    <3>2. CASE SaveOnly
      BY <3>2 DEF SaveOnly, Save, poolVars, runVars, Typed
    <3>3. CASE ShutOld
      BY <3>3, ConstantsAssumption DEF ShutOld, runVars, Typed, Caps
    <3> QED
      BY <1>2, <3>1, <3>2, <3>3
  <2>3. Queued'
    BY <2>1 DEF Queued
  <2>4. WithinCap'
    BY <2>1, CapKept
  <2>5. Applied'
    BY <1>2, <2>1, EffectiveRange DEF SaveForm, SaveOnly, ShutOld, Save, Typed, Applied, Effective, Caps
  <2> QED
    BY <2>2, <2>3, <2>4, <2>5
<1>3. CASE Swap
  <2>1. PICK g \in Spare : /\ pool' = g /\ size' = want
                           /\ cap' = [cap EXCEPT ![g] = want] /\ open' = open \cup {g}
    BY <1>3 DEF Swap
  <2>2. /\ g \in Pools /\ \A r \in Runs : where[r] # g
        /\ form = "saved" /\ form' = "swapped" /\ want \in 1..MaxCap
        /\ UNCHANGED <<life, stored, want, unapplied, queue, state, where>>
    BY <1>3, <2>1 DEF Spare, Swap, Applied, runVars
  <2>3. Typed'
    BY <1>1, <2>1, <2>2 DEF Typed
  <2>4. Queued'
    BY <2>2 DEF Queued
  <2>5. ASSUME NEW h \in Pools
        PROVE  IsFiniteSet(Working(h)') /\ Cardinality(Working(h)') <= cap'[h]
    <3>1. CASE h = g
      BY <1>1, <2>1, <2>2, <3>1, NobodyWorks DEF Typed
    <3>2. CASE h # g
      <4>1. cap'[h] = cap[h] /\ cap[h] \in Caps
        BY <2>1, <3>2 DEF Typed
      <4> QED
        BY <2>2, <4>1, WorkingShrinks DEF WithinCap
    <3> QED
      BY <3>1, <3>2
  <2>6. Applied'
    BY <2>1, <2>2 DEF Applied, Typed, Effective
  <2> QED
    BY <2>3, <2>4, <2>5, <2>6 DEF WithinCap
<1> QED
  BY <1>2, <1>3

LEMMA RunStep ==
  ASSUME PoolsInv, NEW r \in Runs,
         CreateRun(r) \/ ReadPool(r) \/ Submit(r) \/ End(r) \/ CancelStranded(r)
  PROVE  PoolsInv'
<1> USE DEF PoolsInv
<1>1. UNCHANGED <<life, stored, form, want, unapplied, pool, size, cap, open>>
  BY DEF CreateRun, ReadPool, Submit, End, CancelStranded, setting, poolVars
<1>2. /\ state[r] # "queued" /\ \A g \in Pools : r \notin Waiting(queue[g])
      /\ state'[r] # "running"
      /\ \A q \in Runs \ {r} : state'[q] = state[q] /\ where'[q] = where[q]
      /\ state' \in [Runs -> States] /\ where' \in [Runs -> Pools \cup {NoPool}]
  <2>1. state[r] # "queued"
    BY DEF CreateRun, ReadPool, Submit, End, CancelStranded
  <2>2. PICK x \in States \ {"running"} : state' = [state EXCEPT ![r] = x]
    BY DEF CreateRun, ReadPool, Submit, End, CancelStranded, States
  <2>3. PICK p \in Pools \cup {NoPool} : where' = [where EXCEPT ![r] = p]
    <3>1. where = [where EXCEPT ![r] = where[r]] /\ where[r] \in Pools \cup {NoPool}
      BY DEF Typed
    <3> QED
      BY <3>1 DEF CreateRun, ReadPool, Submit, End, CancelStranded, Typed
  <2> QED
    BY <2>1, <2>2, <2>3 DEF Typed, Queued
<1>3. Applied'
  BY <1>1 DEF Applied, Effective
<1>4. WithinCap'
  BY <1>1, <1>2, CapKept
<1>5. CASE queue' = queue
  <2>1. Typed'
    BY <1>1, <1>2, <1>5 DEF Typed
  <2>2. ASSUME NEW g \in Pools, NEW q \in Waiting(queue[g])
        PROVE  state'[q] = "queued" /\ where'[q] = g
    <3>1. q \in Runs
      BY ElementOfSeq DEF Typed, Waiting
    <3> QED
      BY <1>2, <2>2, <3>1 DEF Queued
  <2>3. Queued'
    BY <1>5, <2>2 DEF Queued
  <2> QED
    BY <1>3, <1>4, <2>1, <2>3
<1>6. CASE Submit(r) /\ where[r] \in open
  <2> DEFINE p == where[r]
  <2>1. /\ p \in Pools /\ queue' = [queue EXCEPT ![p] = Append(queue[p], r)]
        /\ state'[r] = "queued" /\ where'[r] = p
    BY <1>6 DEF Submit, Typed
  <2>2. /\ Append(queue[p], r) \in Seq(Runs) /\ Once(Append(queue[p], r))
        /\ Waiting(Append(queue[p], r)) = Waiting(queue[p]) \cup {r}
    BY <1>2, <2>1, QueueAppend DEF Typed, Queued
  <2>3. Typed'
    BY <1>1, <1>2, <2>1, <2>2 DEF Typed
  <2>4. ASSUME NEW g \in Pools
        PROVE  Once(queue'[g]) /\ Waiting(queue'[g]) \subseteq Waiting(queue[g]) \cup (IF g = p THEN {r} ELSE {})
    BY <2>1, <2>2 DEF Typed, Queued
  <2>5. ASSUME NEW g \in Pools, NEW q \in Waiting(queue'[g])
        PROVE  state'[q] = "queued" /\ where'[q] = g
    <3>1. CASE q = r /\ g = p
      BY <2>1, <3>1
    <3>2. CASE q \in Waiting(queue[g])
      <4>1. q \in Runs
        BY <3>2, ElementOfSeq DEF Typed, Waiting
      <4> QED
        BY <1>2, <3>2, <4>1 DEF Queued
    <3> QED
      BY <2>4, <2>5, <3>1, <3>2
  <2>6. Queued'
    BY <2>4, <2>5 DEF Queued
  <2> QED
    BY <1>3, <1>4, <2>3, <2>6
<1> QED
  BY <1>5, <1>6 DEF CreateRun, ReadPool, Submit, End, CancelStranded, poolVars

\* A free thread takes the first of the queue.
LEMMA BeginStep == ASSUME PoolsInv, NEW g \in Pools, Begin(g) PROVE PoolsInv'
<1> USE DEF PoolsInv
<1> DEFINE r == Head(queue[g])
           rest == Tail(queue[g])
<1>1. /\ UNCHANGED <<life, stored, form, want, unapplied, pool, size, cap, open, where>>
      /\ state' = [state EXCEPT ![r] = "running"] /\ queue' = [queue EXCEPT ![g] = rest]
      /\ queue[g] \in Seq(Runs) /\ queue[g] # <<>> /\ Cardinality(Working(g)) < cap[g]
  BY DEF Begin, setting, Typed
<1>2. /\ r \in Runs /\ r \in Waiting(queue[g]) /\ rest \in Seq(Runs) /\ Once(rest)
      /\ Waiting(rest) \subseteq Waiting(queue[g]) \ {r}
  BY <1>1, QueueTail DEF Queued
<1>3. state[r] = "queued" /\ where[r] = g
  BY <1>2 DEF Queued
<1> HIDE DEF r, rest
<1>4. Typed'
  BY <1>1, <1>2 DEF Typed, States
<1>5. ASSUME NEW h \in Pools PROVE Once(queue'[h]) /\ Waiting(queue'[h]) \subseteq Waiting(queue[h]) \ {r}
  <2>1. CASE h = g
    BY <1>1, <1>2, <2>1 DEF Typed
  <2>2. CASE h # g
    BY <1>1, <1>3, <2>2 DEF Typed, Queued
  <2> QED
    BY <2>1, <2>2
<1>6. Queued'
  <2>1. ASSUME NEW h \in Pools, NEW q \in Waiting(queue'[h])
        PROVE  state'[q] = "queued" /\ where'[q] = h
    BY <1>1, <1>5, <2>1 DEF Queued, Typed
  <2> QED
    BY <1>5, <2>1 DEF Queued
<1>7. ASSUME NEW h \in Pools
      PROVE  IsFiniteSet(Working(h)') /\ Cardinality(Working(h)') <= cap'[h]
  <2>1. IsFiniteSet(Working(h)) /\ Cardinality(Working(h)) <= cap[h] /\ cap[h] \in Caps
    BY DEF WithinCap, Typed
  <2>2. CASE h # g
    <3>1. \A q \in Runs : state'[q] = "running" /\ where'[q] = h => state[q] = "running" /\ where[q] = h
      BY <1>1, <1>2, <1>3, <2>2 DEF Typed
    <3> QED
      BY <1>1, <2>1, <3>1, WorkingShrinks
  <2>3. CASE h = g
    <3>1. Working(g)' = Working(g) \cup {r} /\ r \notin Working(g)
      BY <1>1, <1>2, <1>3 DEF Working, Typed
    <3>2. IsFiniteSet(Working(g)') /\ Cardinality(Working(g)') = Cardinality(Working(g)) + 1
      BY <2>1, <2>3, <3>1, FS_AddElement
    <3>3. Cardinality(Working(g)) \in Nat /\ cap[g] \in Nat
      BY <2>1, <2>3, FS_CardinalityType, ConstantsAssumption DEF Caps
    <3> QED
      BY <1>1, <2>3, <3>2, <3>3
  <2> QED
    BY <2>2, <2>3
<1>8. Applied'
  BY <1>1 DEF Applied, Effective
<1> QED
  BY <1>4, <1>6, <1>7, <1>8 DEF WithinCap

\* The process is stopped, killed, and started again.
LEMMA ProcessStep ==
  ASSUME PoolsInv, Shutdown \/ Exit \/ Crash \/ Startup PROVE PoolsInv'
<1> USE DEF PoolsInv
<1>1. CASE Shutdown
  <2>1. /\ UNCHANGED <<stored, form, want, unapplied, pool, size, cap, where>> /\ life' = "stopping"
        /\ form = "idle" /\ open' = {} /\ queue' = [queue EXCEPT ![pool] = <<>>]
        /\ \A r \in Runs : state'[r] = IF state[r] = "queued" /\ where[r] = pool THEN "lost" ELSE state[r]
    BY <1>1 DEF Shutdown, setting
  <2>2. Typed'
    <3>1. state' \in [Runs -> States]
      BY <1>1 DEF Shutdown, Typed, States
    <3> QED
      BY <2>1, <3>1, QueueEmpty DEF Typed
  <2>3. ASSUME NEW g \in Pools PROVE /\ Once(queue'[g])
                                     /\ \A r \in Waiting(queue'[g]) : state'[r] = "queued" /\ where'[r] = g
    <3>1. CASE g = pool
      BY <2>1, <3>1, QueueEmpty DEF Typed
    <3>2. CASE g # pool
      <4>1. queue'[g] = queue[g] /\ \A r \in Waiting(queue[g]) : r \in Runs
        BY <2>1, <3>2, ElementOfSeq DEF Typed, Waiting
      <4> QED
        BY <2>1, <3>2, <4>1 DEF Queued
    <3> QED
      BY <3>1, <3>2
  <2>4. WithinCap'
    BY <2>1, CapKept
  <2>5. Applied'
    BY <2>1 DEF Applied
  <2> QED
    BY <2>2, <2>3, <2>4, <2>5 DEF Queued
<1>2. CASE Exit
  <2>1. life = "stopping" /\ life' = "down" /\ UNCHANGED <<setting, poolVars, runVars>>
    BY <1>2 DEF Exit
  <2>2. WithinCap'
    BY <2>1, CapKept DEF poolVars, runVars
  <2> QED
    BY <2>1, <2>2 DEF setting, poolVars, runVars, Typed, Queued, Applied
<1>3. CASE Crash
  <2>1. /\ UNCHANGED <<stored, unapplied, pool, size, cap>> /\ life' = "down" /\ form' = "idle"
        /\ want' = 0 /\ open' = {} /\ queue' = [g \in Pools |-> <<>>]
        /\ state' \in [Runs -> {"none", "lost"}] /\ where' = [r \in Runs |-> NoPool]
    BY <1>3 DEF Crash
  <2>2. Typed'
    BY <2>1, QueueEmpty, ConstantsAssumption DEF Typed, States, Caps
  <2>3. Queued'
    BY <2>1, QueueEmpty DEF Queued
  <2>4. WithinCap'
    BY <2>1, CapKept
  <2>5. Applied'
    BY <2>1 DEF Applied
  <2> QED
    BY <2>2, <2>3, <2>4, <2>5
<1>4. CASE Startup
  <2>1. /\ UNCHANGED <<stored, form, want>> /\ life = "down" /\ life' = "up"
        /\ state' = [r \in Runs |-> "none"] /\ where' = [r \in Runs |-> NoPool]
        /\ pool' = pool /\ size' = EnvCap /\ cap' = [p \in Pools |-> IF p = pool THEN EnvCap ELSE 0]
        /\ open' = {pool} /\ queue' = [p \in Pools |-> <<>>]
        /\ unapplied' = (Effective(stored) # EnvCap)
    BY <1>4 DEF Startup, Fresh
  <2>2. EnvCap \in 1..MaxCap /\ EnvCap \in Caps /\ 0 \in Caps
    BY ConstantsAssumption DEF Caps
  <2>3. Typed'
    BY <2>1, <2>2, QueueEmpty DEF Typed, States
  <2>4. Queued'
    BY <2>1, QueueEmpty DEF Queued
  <2>5. ASSUME NEW g \in Pools
        PROVE  IsFiniteSet(Working(g)') /\ Cardinality(Working(g)') <= cap'[g]
    BY <2>1, <2>2, NobodyWorks, ConstantsAssumption
  <2>6. Applied'
    <3>1. form = "idle"
      BY <2>1 DEF Applied
    <3> QED
      BY <2>1, <3>1 DEF Applied, Effective, Typed
  <2> QED
    BY <2>3, <2>4, <2>5, <2>6 DEF WithinCap
<1> QED
  BY <1>1, <1>2, <1>3, <1>4

LEMMA PoolsStep == PoolsInv /\ [Next]_vars => PoolsInv'
<1> SUFFICES ASSUME PoolsInv, [Next]_vars PROVE PoolsInv'
  OBVIOUS
<1>1. CASE UNCHANGED vars
  BY <1>1 DEF vars, setting, poolVars, runVars, PoolsInv, Typed, Queued, WithinCap, Working,
              Applied, Effective
<1>2. CASE Next
  BY <1>2, SettingStep, RunStep, BeginStep, ProcessStep
  DEF Next, PatchSettings, ImportPreferences, Resize, Steps
<1> QED
  BY <1>1, <1>2

LEMMA PoolsInvariant == Spec => []PoolsInv
  BY PoolsInit, PoolsStep, PTL DEF Spec

\* The types, and that no pool, in place or draining, has more threads at work
\* than it was made for: a run is begun once, by the pool that took it.
THEOREM TypeCorrect == Spec => []TypeOK
<1>1. PoolsInv => TypeOK
  <2> SUFFICES ASSUME PoolsInv PROVE TypeOK
    OBVIOUS
  <2>1. ASSUME NEW g \in Pools, NEW i \in 1..Len(queue[g]) PROVE queue[g][i] \in Runs
    BY ElementOfSeq DEF PoolsInv, Typed
  <2> QED
    BY <2>1 DEF PoolsInv, Typed, States, WithinCap, TypeOK
<1> QED
  BY <1>1, PoolsInvariant, PTL

\* Once the settings form has answered, the pool in place goes by the number that
\* is stored, however the swaps, the runs that are submitted between them, other
\* writers of the preference and restarts interleave.
THEOREM SettingFollowed == Spec => []PoolFollowsSetting
<1>1. PoolsInv => PoolFollowsSetting
  BY DEF PoolsInv, Applied, PoolFollowsSetting
<1> QED
  BY <1>1, PoolsInvariant, PTL
=============================================================================
