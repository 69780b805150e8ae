---------------------------- MODULE Upkeep_proofs ----------------------------
(***************************************************************************)
(* Theorems about Upkeep, for any jobs, settings, trees, files and times:  *)
(* the types, that nothing is lost before its retention ran out, and that  *)
(* what is restored comes home.                                            *)
(***************************************************************************)
EXTENDS Upkeep, FiniteSetTheorems, TLAPS

Settings == UNION {Configs[j] : j \in Jobs}

Runs   == [stamp : Times, conf : Settings, left : SUBSET Files]
Rows   == [job : Runners, stamp : Times, conf : Settings]
Places == {Place(c, r) : c \in Settings, r \in Roots}
Restores == [stamp : Times, row : Rows, conf : Settings, side : {"source", "dest"}, file : Files]

\* A job archives under the places its settings name.
PlacesOf(j) == {Place(c, r) : c \in Configs[j], r \in Roots}

\* The rows that are there, and the one a restore goes by.
Records == rows \cup (IF restore = Idle THEN {} ELSE {restore.row})

Typed ==
    /\ now \in Times
    /\ job \in [Jobs -> Settings \cup {Deleted}]
    /\ \A j \in Jobs : job[j] \in Configs[j] \cup {Deleted}
    /\ live \in [Roots -> [Files -> 0..MaxVersion]]
    /\ fresh \in 1..(MaxVersion + 1)
    /\ archive \subseteq Items
    /\ \A a \in archive : a.by \in Runners /\ a.place \in PlacesOf(a.by)
    /\ rows \subseteq Rows
    /\ \A w \in rows : Present(w.job)
    /\ run \in [Jobs -> Runs \cup {Idle}]
    /\ \A j \in Jobs : run[j] # Idle => j \in Runners /\ run[j].conf \in Configs[j]
    /\ restore \in Restores \cup {Idle}
    /\ restore # Idle => restore.side \in Sides(restore.row.conf)
    /\ \A w \in Records : w.conf \in Configs[w.job]
    /\ pass \in BOOLEAN
    /\ doomed # {} => pass

\* A run of the present second, its archive and a restore of what it left have
\* a row for as long as the job is there: the guard against a second run.
Rowed(j, s) == Present(j) /\ s = now => \E w \in rows : w.job = j /\ w.stamp = now
Stamped ==
    /\ \A a \in archive : a.stamp <= now /\ Rowed(a.by, a.stamp)
    /\ \A j \in Jobs : run[j] # Idle => run[j].stamp <= now /\ Rowed(j, run[j].stamp)
    /\ \A w \in Records : w.stamp <= now /\ Rowed(w.job, w.stamp)

\* What a run has not got to has nothing in its archive's way.
Unhindered ==
    \A j \in Jobs : run[j] # Idle =>
        \A a \in archive : a.by = j /\ a.stamp = run[j].stamp => a.file \notin run[j].left

\* A row says of its run what the run goes by, and what it left.
Telling ==
    \A w \in Records :
        /\ run[w.job] # Idle /\ run[w.job].stamp = w.stamp => run[w.job].conf = w.conf
        /\ \A a \in archive : a.by = w.job /\ a.stamp = w.stamp => a.trees = Trees(w.conf)

\* Whoever planned a directory had a right to it.
Rightful == \A d \in doomed : d.planners \subseteq d.right

UpkeepInv == Typed /\ Stamped /\ Unhindered /\ Telling /\ Rightful

\* Where the runs of a job archive, and which trees are theirs.
LEMMA Sided ==
  ASSUME NEW j \in Jobs, NEW c \in Configs[j], NEW side \in Sides(c)
  PROVE  /\ c \in Settings /\ side \in {"source", "dest"}
         /\ Tree(c, side) \in Roots /\ Tree(c, side) \in Trees(c) /\ Trees(c) \subseteq Roots
         /\ Place(c, Tree(c, side)) \in PlacesOf(j) /\ Place(c, Tree(c, side)) \in Places
<1>1. c.root \in Roots /\ c.peer \in Roots /\ c \in Settings
  BY ConstantsAssumption DEF Settings
<1>2. \A s \in Sides(c) : Tree(c, s) \in Roots
  BY <1>1 DEF Tree
<1> QED
  BY <1>1, <1>2 DEF Trees, Sides, PlacesOf, Places

-----------------------------------------------------------------------------
(* The types.                                                              *)

LEMMA InitInv == Init => UpkeepInv
<1> SUFFICES ASSUME Init PROVE UpkeepInv
  OBVIOUS
<1>1. now \in Times /\ fresh \in 1..(MaxVersion + 1) /\ 0 \in 0..MaxVersion /\ 1 \in 0..MaxVersion
  BY ConstantsAssumption DEF Init, Times
<1>2. live \in [Roots -> [Files -> 0..MaxVersion]]
  BY <1>1 DEF Init
<1>3. job \in [Jobs -> Settings \cup {Deleted}] /\ \A j \in Jobs : job[j] \in Configs[j] \cup {Deleted}
  BY DEF Init, Settings
<1>4. archive = {} /\ rows = {} /\ restore = Idle /\ doomed = {} /\ pass = FALSE /\ Records = {}
  BY DEF Init, Records
<1>5. run \in [Jobs -> Runs \cup {Idle}] /\ \A j \in Jobs : run[j] = Idle
  BY DEF Init
<1> QED
  BY <1>1, <1>2, <1>3, <1>4, <1>5 DEF UpkeepInv, Typed, Stamped, Unhindered, Telling, Rightful

\* A run that is under way is of a job that runs, by settings of that job.
LEMMA Running ==
  ASSUME Typed, NEW j \in Jobs, run[j] # Idle
  PROVE  /\ run[j] \in Runs /\ j \in Runners /\ run[j].stamp \in Times
         /\ run[j].conf \in Configs[j] /\ run[j].left \subseteq Files
  BY DEF Typed, Runs

\* The state after a run began.
LEMMA BeginTyped ==
  ASSUME Typed, NEW j \in Jobs, Begin(j)
  PROVE  /\ Typed'
         /\ run'[j] = [stamp |-> now, conf |-> job[j], left |-> Files]
         /\ \A i \in Jobs \ {j} : run'[i] = run[i]
         /\ Records' = Records \cup {[job |-> j, stamp |-> now, conf |-> job[j]]}
         /\ Present(j)
<1>1. /\ j \in Runners /\ Present(j)
      /\ run' = [run EXCEPT ![j] = [stamp |-> now, conf |-> job[j], left |-> Files]]
      /\ rows' = rows \cup {[job |-> j, stamp |-> now, conf |-> job[j]]}
      /\ UNCHANGED <<now, job, live, fresh, archive, doomed, pass, restore>>
  BY DEF Begin, files, upkeep
<1>2. job[j] \in Configs[j] /\ job[j] \in Settings
  BY <1>1 DEF Typed, Present, Settings
<1>3. [stamp |-> now, conf |-> job[j], left |-> Files] \in Runs
  BY <1>2 DEF Runs, Typed
<1>4. /\ run' \in [Jobs -> Runs \cup {Idle}]
      /\ run'[j] = [stamp |-> now, conf |-> job[j], left |-> Files]
      /\ \A i \in Jobs \ {j} : run'[i] = run[i]
  BY <1>1, <1>3 DEF Typed
<1>5. \A i \in Jobs : run'[i] # Idle => i \in Runners /\ run'[i].conf \in Configs[i]
  BY <1>1, <1>2, <1>4 DEF Typed
<1>6. rows' \subseteq Rows /\ \A w \in rows' : Present(w.job)'
  BY <1>1, <1>2 DEF Typed, Rows, Present
<1>7. Records' = Records \cup {[job |-> j, stamp |-> now, conf |-> job[j]]}
  BY <1>1 DEF Records
<1>8. \A w \in Records' : w.conf \in Configs[w.job]
  BY <1>2, <1>7 DEF Typed
<1>9. Typed'
  BY <1>1, <1>4, <1>5, <1>6, <1>8 DEF Typed
<1> QED
  BY <1>1, <1>4, <1>7, <1>9

\* The state after a run got to a file: what it found there is archived, if
\* there was anything.
LEMMA CarryTyped ==
  ASSUME Typed, Unhindered, NEW j \in Jobs, NEW f \in Files, Carry(j, f)
  PROVE  /\ Typed'
         /\ run[j] # Idle /\ run'[j].stamp = run[j].stamp /\ run'[j].conf = run[j].conf
         /\ run'[j].left = run[j].left \ {f}
         /\ \A i \in Jobs \ {j} : run'[i] = run[i]
         /\ UNCHANGED <<now, job, rows, doomed, pass, restore>>
         /\ \E r \in Roots :
               /\ \A q \in Roots, g \in Files : q # r \/ g # f => live'[q][g] = live[q][g]
               /\ \/ live[r][f] = 0 /\ archive' = archive
                  \/ \E x \in Items :
                       /\ x \in archive' /\ archive' \subseteq archive \cup {x}
                       /\ \A a \in archive \ archive' : ArchivedOver(a, x)
                       /\ x.by = j /\ x.stamp = run[j].stamp /\ x.file = f
                       /\ x.version = live[r][f] /\ x.trees = Trees(run[j].conf)
<1>1. /\ run[j] # Idle /\ f \in run[j].left
      /\ run' = [run EXCEPT ![j].left = @ \ {f}]
      /\ UNCHANGED <<now, job, rows, doomed, pass, restore>>
  BY DEF Carry, upkeep
<1>2. PICK side \in Sides(run[j].conf), new \in {0, fresh} \cap 0..MaxVersion :
          /\ MoveAside(j, Tree(run[j].conf, side), f)
          /\ live' = [live EXCEPT ![Tree(run[j].conf, side)][f] = new]
          /\ fresh' = IF new = 0 THEN fresh ELSE fresh + 1
  BY DEF Carry
<1> DEFINE r == Tree(run[j].conf, side)
           place == Place(run[j].conf, r)
           x == [place |-> place, stamp |-> run[j].stamp, file |-> f, version |-> live[r][f],
                 by |-> j, trees |-> Trees(run[j].conf)]
<1>3. /\ run[j] \in Runs /\ j \in Runners /\ run[j].stamp \in Times /\ run[j].conf \in Configs[j]
      /\ run[j].left \subseteq Files
  BY <1>1, Running
<1>4. /\ r \in Roots /\ Trees(run[j].conf) \subseteq Roots
      /\ place \in PlacesOf(j) /\ place \in Places
  BY <1>3, Sided
<1>5. /\ run' \in [Jobs -> Runs \cup {Idle}]
      /\ run'[j].stamp = run[j].stamp /\ run'[j].conf = run[j].conf
      /\ run'[j].left = run[j].left \ {f}
      /\ \A i \in Jobs \ {j} : run'[i] = run[i]
  <2>1. /\ run'[j] = [run[j] EXCEPT !.left = run[j].left \ {f}]
        /\ \A i \in Jobs \ {j} : run'[i] = run[i]
        /\ run' = [i \in Jobs |-> run'[i]]
    BY <1>1 DEF Typed
  <2>2. /\ [run[j] EXCEPT !.left = run[j].left \ {f}] \in Runs
        /\ [run[j] EXCEPT !.left = run[j].left \ {f}].stamp = run[j].stamp
        /\ [run[j] EXCEPT !.left = run[j].left \ {f}].conf = run[j].conf
        /\ [run[j] EXCEPT !.left = run[j].left \ {f}].left = run[j].left \ {f}
    BY <1>3 DEF Runs
  <2> QED
    BY <2>1, <2>2 DEF Typed
<1>6. /\ live' \in [Roots -> [Files -> 0..MaxVersion]]
      /\ \A q \in Roots, g \in Files : q # r \/ g # f => live'[q][g] = live[q][g]
  BY <1>2, <1>4 DEF Typed
<1>7. fresh' \in 1..(MaxVersion + 1)
  BY <1>2, ConstantsAssumption DEF Typed
\* Nothing of its own job is in its way.
<1>8. ASSUME NEW a \in archive, a.place = place, a.stamp = run[j].stamp, a.file = f
      PROVE  ArchivedOver(a, x)
  BY <1>1, <1>8 DEF Unhindered, ArchivedOver
<1>9. \/ live[r][f] = 0 /\ archive' = archive
      \/ /\ live[r][f] # 0
         /\ archive' = {a \in archive : ~(a.place = place /\ a.stamp = run[j].stamp /\ a.file = f)}
                       \cup {x}
  BY <1>2 DEF MoveAside
<1>10. live[r][f] # 0 => x \in Items
  <2>1. live[r][f] \in 0..MaxVersion
    BY <1>4 DEF Typed
  <2>2. live[r][f] # 0 => live[r][f] \in 1..MaxVersion
    BY <2>1, ConstantsAssumption
  <2> QED
    BY <1>3, <1>4, <2>2 DEF Items, Places, Settings
<1>11. x.by = j /\ x.place = place /\ x.stamp = run[j].stamp /\ x.file = f /\ x.version = live[r][f]
       /\ x.trees = Trees(run[j].conf)
  OBVIOUS
<1> HIDE DEF x, place, r
<1>15. \/ live[r][f] = 0 /\ archive' = archive
       \/ /\ live[r][f] # 0 /\ x \in archive' /\ archive' \subseteq archive \cup {x}
          /\ \A a \in archive \ archive' : ArchivedOver(a, x)
  BY <1>8, <1>9
<1>12. archive' \subseteq Items /\ \A a \in archive' : a.by \in Runners /\ a.place \in PlacesOf(a.by)
  BY <1>3, <1>4, <1>15, <1>10, <1>11 DEF Typed
<1>13. \A i \in Jobs : run'[i] # Idle => i \in Runners /\ run'[i].conf \in Configs[i]
  BY <1>3, <1>5 DEF Typed
<1>14. Typed'
  BY <1>1, <1>5, <1>6, <1>7, <1>12, <1>13 DEF Typed, Present, Records
<1> QED
  BY <1>1, <1>4, <1>5, <1>6, <1>15, <1>10, <1>11, <1>14

\* The state after a restore was begun.
LEMMA StartTyped ==
  ASSUME Typed, NEW j \in Jobs, StartRestore(j)
  PROVE  Typed' /\ Records' = Records /\ UNCHANGED <<now, job, files, rows, run, upkeep>>
<1>0. PICK w \in rows : \E item \in Listed(w) :
          /\ w.job = j
          /\ restore' = [stamp |-> w.stamp, row |-> w, conf |-> job[j],
                         side |-> item.side, file |-> item.file]
  BY DEF StartRestore
<1>1. PICK item \in Listed(w) :
          /\ w.job = j
          /\ restore' = [stamp |-> w.stamp, row |-> w, conf |-> job[j],
                         side |-> item.side, file |-> item.file]
  BY <1>0
<1>2. Present(j) /\ restore = Idle /\ UNCHANGED <<now, job, files, rows, run, upkeep>>
  BY DEF StartRestore, Restorable
<1>3. w \in Rows /\ w.job \in Jobs /\ w.conf \in Configs[w.job] /\ w.stamp \in Times
  BY <1>1, ConstantsAssumption DEF Typed, Rows, Records
<1>4. item.side \in Sides(w.conf) /\ item.file \in Files
  <2>1. PICK side \in Sides(w.conf) : item \in {[side |-> side, file |-> a.file] : a \in Found(w, side)}
    BY DEF Listed
  <2>2. PICK a \in archive : item = [side |-> side, file |-> a.file]
    BY <2>1 DEF Found
  <2> QED
    BY <2>1, <2>2 DEF Typed, Items
<1>5. item.side \in {"source", "dest"}
  BY <1>4 DEF Sides
<1>6. job[j] \in Settings
  BY <1>2 DEF Typed, Present
<1>7. restore' \in Restores /\ restore'.row = w /\ restore'.side \in Sides(restore'.row.conf)
  BY <1>1, <1>3, <1>4, <1>5, <1>6 DEF Restores
<1>8. Records = rows /\ Records' \subseteq rows
  BY <1>1, <1>2, <1>7 DEF Records
<1>9. Records' = Records
  BY <1>2, <1>8 DEF Records
<1>10. Typed'
  BY <1>2, <1>7, <1>9 DEF Typed, Present, files, upkeep
<1> QED
  BY <1>2, <1>9, <1>10

\* A restore that ends puts back what it found, where there is nothing.
LEMMA RestoreTyped ==
  ASSUME Typed, RestoreFile
  PROVE  /\ Typed' /\ Records' \subseteq Records
         /\ UNCHANGED <<now, job, archive, rows, run, upkeep>>
         /\ \A r \in Roots, f \in Files : live'[r][f] # live[r][f] =>
               /\ live[r][f] = 0
               /\ r = Tree(restore.conf, restore.side)
               /\ \E a \in Found(restore.row, restore.side) : a.file = f /\ live'[r][f] = a.version
<1>1. /\ restore # Idle /\ restore' = Idle
      /\ UNCHANGED <<now, job, fresh, archive, rows, run, doomed, pass>>
  BY DEF RestoreFile, upkeep
<1> DEFINE r == LiveRoot(restore.conf, restore.side)
<1>2. restore \in Restores
  BY <1>1 DEF Typed
<1>3. /\ restore.conf \in Settings /\ restore.side \in {"source", "dest"} /\ restore.file \in Files
  BY <1>2 DEF Restores
<1>4. r \in Roots /\ r = Tree(restore.conf, restore.side)
  BY <1>3, ConstantsAssumption DEF LiveRoot, Tree, Settings
<1>5. \/ live' = live
      \/ \E a \in Found(restore.row, restore.side) :
            /\ a.file = restore.file /\ live[r][restore.file] = 0
            /\ live' = [live EXCEPT ![r][restore.file] = a.version]
  BY DEF RestoreFile, TargetFree
<1> HIDE DEF r
<1>6. Records' \subseteq Records
  BY <1>1 DEF Records
<1>7. live' \in [Roots -> [Files -> 0..MaxVersion]]
  <2>1. \A a \in Found(restore.row, restore.side) : a.version \in 0..MaxVersion
    BY DEF Found, Typed, Items
  <2>2. live \in [Roots -> [Files -> 0..MaxVersion]]
    BY DEF Typed
  <2>3. ASSUME NEW v \in 0..MaxVersion, live' = [live EXCEPT ![r][restore.file] = v]
        PROVE  live' \in [Roots -> [Files -> 0..MaxVersion]]
    BY <1>3, <1>4, <2>2, <2>3
  <2> QED
    BY <1>5, <2>1, <2>2, <2>3
<1>8. Typed'
  BY <1>1, <1>6, <1>7 DEF Typed, Present
<1>9. \A q \in Roots, f \in Files : live'[q][f] # live[q][f] =>
        /\ live[q][f] = 0 /\ q = r
        /\ \E a \in Found(restore.row, restore.side) : a.file = f /\ live'[q][f] = a.version
  <2>1. CASE live' = live
    BY <2>1
  <2>2. ASSUME NEW a \in Found(restore.row, restore.side), a.file = restore.file,
               live[r][restore.file] = 0, live' = [live EXCEPT ![r][restore.file] = a.version],
               NEW q \in Roots, NEW f \in Files, live'[q][f] # live[q][f]
        PROVE  q = r /\ f = restore.file /\ live'[q][f] = a.version
    <3>1. live \in [Roots -> [Files -> 0..MaxVersion]]
      BY DEF Typed
    <3> QED
      BY <1>3, <1>4, <2>2, <3>1
  <2> QED
    BY <1>5, <2>1, <2>2
<1> QED
  BY <1>1, <1>4, <1>6, <1>8, <1>9 DEF upkeep

-----------------------------------------------------------------------------
(* Every step keeps the invariant.                                         *)

\* A job that is run again has nothing of the present second.
LEMMA BeginKeeps ==
  ASSUME UpkeepInv, NEW j \in Jobs, Begin(j)
  PROVE  UpkeepInv'
<1> USE DEF UpkeepInv
<1>1. /\ Typed' /\ Present(j)
      /\ run'[j] = [stamp |-> now, conf |-> job[j], left |-> Files]
      /\ \A i \in Jobs \ {j} : run'[i] = run[i]
      /\ Records' = Records \cup {[job |-> j, stamp |-> now, conf |-> job[j]]}
  BY BeginTyped
<1>2. /\ rows' = rows \cup {[job |-> j, stamp |-> now, conf |-> job[j]]}
      /\ \A w \in rows : w.job = j => w.stamp < now
      /\ UNCHANGED <<now, job, live, fresh, archive, doomed, pass, restore>>
  BY DEF Begin, files, upkeep
<1>3. \A w \in rows : w.job = j => w.stamp # now
  BY <1>2 DEF Typed, Rows, Times
<1>4. \A s : ~(Present(j) /\ s = now /\ Rowed(j, s))
  BY <1>3 DEF Rowed
<1>5. \A i, s : Rowed(i, s) => Rowed(i, s)'
  BY <1>2 DEF Rowed, Present
<1>6. Rowed(j, now)'
  <2> DEFINE w == [job |-> j, stamp |-> now, conf |-> job[j]]
  <2>1. w \in rows' /\ w.job = j /\ w.stamp = now /\ now' = now
    BY <1>2
  <2> HIDE DEF w
  <2> QED
    BY <2>1 DEF Rowed
<1>7. now <= now
  BY DEF Typed, Times
<1>8. Stamped'
  <2>1. \A a \in archive' : a.stamp <= now' /\ Rowed(a.by, a.stamp)'
    BY <1>2, <1>5 DEF Stamped
  <2>2. \A i \in Jobs : (run[i] # Idle => run[i].stamp <= now /\ Rowed(i, run[i].stamp))'
    BY <1>1, <1>2, <1>5, <1>6, <1>7 DEF Stamped
  <2>3. \A w \in Records' : w.stamp <= now' /\ Rowed(w.job, w.stamp)'
    BY <1>1, <1>2, <1>5, <1>6, <1>7 DEF Stamped
  <2> QED
    BY <2>1, <2>2, <2>3 DEF Stamped
<1>9. \A a \in archive : ~(a.by = j /\ a.stamp = now)
  BY <1>1, <1>4 DEF Stamped
<1>10. \A w \in Records : ~(w.job = j /\ w.stamp = now)
  BY <1>1, <1>4 DEF Stamped
<1>11. Unhindered'
  BY <1>1, <1>2, <1>9 DEF Unhindered
<1>12. Telling'
  <2> SUFFICES ASSUME NEW w \in Records'
               PROVE  /\ run'[w.job] # Idle /\ run'[w.job].stamp = w.stamp => run'[w.job].conf = w.conf
                      /\ \A a \in archive' : a.by = w.job /\ a.stamp = w.stamp => a.trees = Trees(w.conf)
    BY DEF Telling
  <2>1. CASE w = [job |-> j, stamp |-> now, conf |-> job[j]]
    BY <1>1, <1>2, <1>9, <2>1
  <2>2. CASE w \in Records
    <3>1. w.job \in Jobs
      BY <2>2, ConstantsAssumption DEF Typed, Records, Rows, Restores
    <3>2. w.job # j => run'[w.job] = run[w.job]
      BY <1>1, <3>1
    <3>3. w.job = j => run'[w.job].stamp # w.stamp
      BY <1>1, <1>10, <2>2
    <3> QED
      BY <1>2, <2>2, <3>2, <3>3 DEF Telling
  <2> QED
    BY <1>1, <2>1, <2>2
<1>13. Rightful'
  BY <1>2 DEF Rightful
<1> QED
  BY <1>1, <1>8, <1>11, <1>12, <1>13

\* What a run archives is under its own stamp, and says which trees were its.
LEMMA CarryKeeps ==
  ASSUME UpkeepInv, NEW j \in Jobs, NEW f \in Files, Carry(j, f)
  PROVE  UpkeepInv'
<1> USE DEF UpkeepInv
<1>1. /\ Typed'
      /\ run[j] # Idle /\ run'[j].stamp = run[j].stamp /\ run'[j].conf = run[j].conf
      /\ run'[j].left = run[j].left \ {f}
      /\ \A i \in Jobs \ {j} : run'[i] = run[i]
      /\ UNCHANGED <<now, job, rows, doomed, pass, restore>>
  BY CarryTyped
<1>2. \A a \in archive' : a \in archive \/ /\ a.by = j /\ a.stamp = run[j].stamp /\ a.file = f
                                           /\ a.trees = Trees(run[j].conf)
  <2>1. \/ archive' = archive
        \/ \E x \in Items : /\ archive' \subseteq archive \cup {x}
                            /\ x.by = j /\ x.stamp = run[j].stamp /\ x.file = f
                            /\ x.trees = Trees(run[j].conf)
    BY CarryTyped
  <2> QED
    BY <2>1
<1>3. Records' = Records
  BY <1>1 DEF Records
<1>4. Stamped'
  <2>1. \A i, s : Rowed(i, s)' <=> Rowed(i, s)
    BY <1>1 DEF Rowed, Present
  <2>2. run[j].stamp <= now /\ Rowed(j, run[j].stamp)
    BY <1>1 DEF Stamped
  <2>3. \A i \in Jobs : run'[i] # Idle => run[i] # Idle /\ run'[i].stamp = run[i].stamp
    BY <1>1
  <2>4. \A a \in archive' : a.stamp <= now' /\ Rowed(a.by, a.stamp)'
    BY <1>1, <1>2, <2>1, <2>2 DEF Stamped
  <2>5. \A i \in Jobs : (run[i] # Idle => run[i].stamp <= now /\ Rowed(i, run[i].stamp))'
    BY <1>1, <2>1, <2>3 DEF Stamped
  <2>6. \A w \in Records' : w.stamp <= now' /\ Rowed(w.job, w.stamp)'
    BY <1>1, <1>3, <2>1 DEF Stamped
  <2> QED
    BY <2>4, <2>5, <2>6 DEF Stamped
<1>5. Unhindered'
  BY <1>1, <1>2 DEF Unhindered
<1>6. Telling'
  <2> SUFFICES ASSUME NEW w \in Records
               PROVE  /\ run'[w.job] # Idle /\ run'[w.job].stamp = w.stamp => run'[w.job].conf = w.conf
                      /\ \A a \in archive' : a.by = w.job /\ a.stamp = w.stamp => a.trees = Trees(w.conf)
    BY <1>3 DEF Telling
  <2>1. w.job \in Jobs
    BY ConstantsAssumption DEF Typed, Records, Rows, Restores
  <2>2. run'[w.job] # Idle => /\ run[w.job] # Idle /\ run'[w.job].stamp = run[w.job].stamp
                              /\ run'[w.job].conf = run[w.job].conf
    BY <1>1, <2>1
  <2> QED
    BY <1>1, <1>2, <2>2 DEF Telling
<1>7. Rightful'
  BY <1>1 DEF Rightful
<1> QED
  BY <1>1, <1>4, <1>5, <1>6, <1>7

\* A step that takes something away keeps the rest as it was, as long as no row
\* of the present second goes before its job.
LEMMA LessKeeps ==
  ASSUME UpkeepInv, Typed', now' = now, archive' \subseteq archive, Records' \subseteq Records,
         \A i \in Jobs : Present(i)' => Present(i),
         \A i \in Jobs : run'[i] = run[i] \/ run'[i] = Idle,
         \A w \in rows : w.stamp = now /\ Present(w.job)' => w \in rows',
         \A d \in doomed' : d \in doomed \/ d.planners \subseteq d.right
  PROVE  UpkeepInv'
<1> USE DEF UpkeepInv
<1>1. ASSUME NEW i \in Jobs, NEW s, Rowed(i, s) PROVE Rowed(i, s)'
  BY <1>1 DEF Rowed
<1>2. \A a \in archive : a.by \in Jobs
  BY ConstantsAssumption DEF Typed
<1>3. \A w \in Records : w.job \in Jobs
  BY ConstantsAssumption DEF Typed, Records, Rows, Restores
<1>4. Stamped'
  BY <1>1, <1>2, <1>3 DEF Stamped
<1>5. Unhindered'
  BY DEF Unhindered
<1>6. Telling'
  BY <1>3 DEF Telling
<1>7. Rightful'
  BY DEF Rightful
<1> QED
  BY <1>4, <1>5, <1>6, <1>7

\* The nightly pass: whoever plans a directory has a right to it, and the newest
\* row of a job is never one too many.
LEMMA PassKeeps ==
  ASSUME UpkeepInv, PlanPass \/ RemoveTree \/ RemoveFails \/ EndPass
  PROVE  UpkeepInv'
<1> USE DEF UpkeepInv
<1>1. UNCHANGED <<now, job, live, fresh, run, restore>>
  BY DEF PlanPass, RemoveTree, RemoveFails, EndPass, files
<1>2. rows' \subseteq rows /\ archive' \subseteq archive
  BY DEF PlanPass, RemoveTree, RemoveFails, EndPass, files
<1>3. pass' \in BOOLEAN /\ (doomed' # {} => pass')
  BY DEF PlanPass, RemoveTree, RemoveFails, EndPass, Typed
<1>4. Records' \subseteq Records
  BY <1>1, <1>2 DEF Records
<1>5. Typed'
  BY <1>1, <1>2, <1>3, <1>4 DEF Typed, Present
<1>6. \A d \in doomed' : d \in doomed \/ d.planners \subseteq d.right
  <2>1. CASE PlanPass
    BY <2>1 DEF PlanPass, Doom, Planners, Expired, Searched, Due
  <2>2. CASE RemoveTree \/ RemoveFails \/ EndPass
    BY <2>2 DEF RemoveTree, RemoveFails, EndPass
  <2> QED
    BY <2>1, <2>2
<1>7. ASSUME NEW w \in rows, w.stamp = now PROVE w \in rows'
  <2>1. CASE EndPass
    <3>1. \A x \in rows : x.stamp \in Nat /\ now \in Nat /\ x.stamp <= now
      BY DEF Stamped, Records, Typed, Rows, Times
    <3>2. \A x \in rows : ~(x.stamp > w.stamp)
      BY <1>7, <3>1
    <3>3. Newer(w) = {}
      BY <3>2 DEF Newer
    <3>4. Cardinality(Newer(w)) < Keep
      BY <3>3, FS_EmptySet, ConstantsAssumption
    <3> QED
      BY <2>1, <3>4 DEF EndPass
  <2>2. CASE PlanPass \/ RemoveTree \/ RemoveFails
    BY <2>2 DEF PlanPass, RemoveTree, RemoveFails
  <2> QED
    BY <2>1, <2>2
<1>8. \A i \in Jobs : Present(i)' => Present(i)
  BY <1>1 DEF Present
<1> QED
  BY <1>1, <1>2, <1>4, <1>5, <1>6, <1>7, <1>8, LessKeeps

\* An operator saves or deletes a job.
LEMMA JobKeeps ==
  ASSUME UpkeepInv, NEW j \in Jobs, EditJob(j) \/ DeleteJob(j)
  PROVE  UpkeepInv'
<1> USE DEF UpkeepInv
<1>1. UNCHANGED <<now, live, fresh, archive, run, doomed, pass, restore>>
  BY DEF EditJob, DeleteJob, files, upkeep
<1>2. CASE EditJob(j)
  <2>1. PICK c \in Configs[j] : job' = [job EXCEPT ![j] = c]
    BY <1>2 DEF EditJob
  <2>2. Present(j) /\ rows' = rows /\ c # Deleted /\ c \in Settings
    BY <1>2, ConstantsAssumption DEF EditJob, Settings
  <2>3. \A i \in Jobs : Present(i)' <=> Present(i)
    BY <2>1, <2>2 DEF Present, Typed
  <2>4. \A w \in rows : w.job \in Jobs
    BY ConstantsAssumption DEF Typed, Rows
  <2>5. Records' = Records
    BY <1>1, <2>2 DEF Records
  <2>6. job' \in [Jobs -> Settings \cup {Deleted}] /\ \A i \in Jobs : job'[i] \in Configs[i] \cup {Deleted}
    BY <2>1, <2>2 DEF Typed
  <2>7. Typed'
    BY <1>1, <2>2, <2>3, <2>4, <2>5, <2>6 DEF Typed
  <2> QED
    BY <1>1, <2>2, <2>3, <2>5, <2>7, LessKeeps
<1>3. CASE DeleteJob(j)
  <2>1. job' = [job EXCEPT ![j] = Deleted] /\ rows' = {w \in rows : w.job # j}
    BY <1>3 DEF DeleteJob
  <2>2. ~Present(j)' /\ \A i \in Jobs \ {j} : Present(i)' <=> Present(i)
    BY <2>1 DEF Present, Typed
  <2>3. \A w \in rows : w.job \in Jobs
    BY ConstantsAssumption DEF Typed, Rows
  <2>4. Records' \subseteq Records
    BY <1>1, <2>1 DEF Records
  <2>5. job' \in [Jobs -> Settings \cup {Deleted}] /\ \A i \in Jobs : job'[i] \in Configs[i] \cup {Deleted}
    BY <2>1 DEF Typed
  <2>6. rows' \subseteq Rows /\ \A w \in rows' : Present(w.job)'
    BY <2>1, <2>2, <2>3 DEF Typed
  <2>7. Typed'
    BY <1>1, <2>4, <2>5, <2>6 DEF Typed
  <2>8. \A w \in rows : Present(w.job)' => w \in rows'
    BY <2>1, <2>2
  <2> QED
    BY <1>1, <2>2, <2>4, <2>7, <2>8, LessKeeps
<1> QED
  BY <1>2, <1>3

\* Time goes on: nothing is of the present second any more.
LEMMA TickKeeps ==
  ASSUME UpkeepInv, Tick
  PROVE  UpkeepInv'
<1> USE DEF UpkeepInv
<1>1. /\ now' = now + 1 /\ now < MaxTime
      /\ UNCHANGED <<job, live, fresh, archive, rows, run, doomed, pass, restore>>
  BY DEF Tick, files, upkeep
<1>2. now \in Nat /\ now' \in Times
  BY <1>1, ConstantsAssumption DEF Typed, Times
<1>3. Records' = Records
  BY <1>1 DEF Records
<1>4. Typed'
  BY <1>1, <1>2, <1>3 DEF Typed, Present
<1>5. ASSUME NEW s \in Times, s <= now PROVE s <= now' /\ s # now'
  BY <1>1, <1>2, <1>5 DEF Times
<1>6. \A i, s : s # now' => Rowed(i, s)'
  BY DEF Rowed
<1>7. /\ \A a \in archive : a.stamp \in Times
      /\ \A i \in Jobs : run[i] # Idle => run[i].stamp \in Times
      /\ \A w \in Records : w.stamp \in Times
  BY DEF Typed, Items, Runs, Records, Rows, Restores
<1>8. Stamped'
  BY <1>1, <1>3, <1>5, <1>6, <1>7 DEF Stamped
<1>9. Unhindered' /\ Telling' /\ Rightful'
  BY <1>1, <1>3 DEF Unhindered, Telling, Rightful
<1> QED
  BY <1>4, <1>8, <1>9

LEMMA StepKeeps == UpkeepInv /\ [Next]_vars => UpkeepInv'
<1> SUFFICES ASSUME UpkeepInv, [Next]_vars PROVE UpkeepInv'
  OBVIOUS
<1> USE DEF UpkeepInv
<1>1. CASE UNCHANGED vars \/ PassRaises
  <2>1. UNCHANGED vars
    BY <1>1 DEF PassRaises
  <2>2. UNCHANGED <<now, job, live, fresh, archive, rows, run, doomed, pass, restore>>
    BY <2>1 DEF vars, files, upkeep
  <2> QED
    BY <2>2 DEF Typed, Stamped, Unhindered, Telling, Rightful, Rowed, Records, Present
<1>2. ASSUME NEW j \in Jobs, End(j) PROVE UpkeepInv'
  <2>1. /\ run' = [run EXCEPT ![j] = Idle]
        /\ UNCHANGED <<now, job, live, fresh, archive, rows, doomed, pass, restore>>
    BY <1>2 DEF End, files, upkeep
  <2>2. /\ run' \in [Jobs -> Runs \cup {Idle}]
        /\ run'[j] = Idle /\ \A i \in Jobs \ {j} : run'[i] = run[i]
    BY <2>1 DEF Typed
  <2>3. Records' = Records /\ \A i : Present(i)' <=> Present(i)
    BY <2>1 DEF Records, Present
  <2>4. Typed'
    BY <2>1, <2>2, <2>3 DEF Typed
  <2> QED
    BY <2>1, <2>2, <2>3, <2>4, LessKeeps
<1>3. ASSUME NEW j \in Jobs, StartRestore(j) PROVE UpkeepInv'
  <2>1. Typed' /\ Records' = Records /\ UNCHANGED <<now, job, archive, rows, run, doomed>>
    BY <1>3, StartTyped DEF files, upkeep
  <2> QED
    BY <2>1, LessKeeps DEF Present
<1>4. CASE RestoreFile
  <2>1. Typed' /\ Records' \subseteq Records /\ UNCHANGED <<now, job, archive, rows, run, doomed>>
    BY <1>4, RestoreTyped DEF upkeep
  <2> QED
    BY <2>1, LessKeeps DEF Present
<1> QED
  BY <1>1, <1>2, <1>3, <1>4, BeginKeeps, CarryKeeps, PassKeeps, JobKeeps, TickKeeps DEF Next

THEOREM Inductive == Spec => []UpkeepInv
  BY InitInv, StepKeeps, PTL DEF Spec

-----------------------------------------------------------------------------
(* The properties.                                                         *)

\* Every variable keeps its type, and a row its job.
THEOREM TypeCorrect == Spec => []TypeOK
<1>1. UpkeepInv => TypeOK
  <2> SUFFICES ASSUME UpkeepInv PROVE TypeOK
    OBVIOUS
  <2>1. \A w \in rows : w.job \in Jobs /\ w.stamp \in Times /\ Present(w.job)
    BY ConstantsAssumption DEF UpkeepInv, Typed, Rows
  <2>2. \A j \in Jobs : run[j] = Idle \/ run[j].left \subseteq Files
    BY Running DEF UpkeepInv
  <2> QED
    BY <2>1, <2>2 DEF UpkeepInv, Typed, TypeOK
<1> QED
  BY <1>1, Inductive, PTL

\* One step of what NothingLost says of every step.
LEMMA StepLosesNothing ==
  ASSUME UpkeepInv, [Next]_vars, NEW v \in Kept \ Kept', v # 0
  PROVE  \/ \E d \in doomed \ doomed' : \E a \in Inside(d) :
               a.version = v /\ (a.by \in d.right \/ a.by \notin d.planners)
         \/ \E a \in archive, b \in archive' : a.version = v /\ ArchivedOver(a, b)
<1> USE DEF UpkeepInv
<1>1. CASE RemoveTree
  <2>1. PICK d \in doomed : doomed' = doomed \ {d} /\ archive' = archive \ Inside(d)
    BY <1>1 DEF RemoveTree
  <2>2. PICK a \in archive : a.version = v /\ a \notin archive'
    BY <1>1 DEF RemoveTree, Kept
  <2>3. a \in Inside(d) /\ d.planners \subseteq d.right
    BY <2>1, <2>2 DEF Rightful
  <2> QED
    BY <2>1, <2>2, <2>3
\* A run loses at most what another run has archived under the name it needs.
<1>2. ASSUME NEW j \in Jobs, NEW f \in Files, Carry(j, f)
      PROVE  \E a \in archive, b \in archive' : a.version = v /\ ArchivedOver(a, b)
  <2>1. PICK r \in Roots :
           /\ \A q \in Roots, g \in Files : q # r \/ g # f => live'[q][g] = live[q][g]
           /\ \/ live[r][f] = 0 /\ archive' = archive
              \/ \E x \in Items : /\ x \in archive' /\ x.version = live[r][f]
                                  /\ \A a \in archive \ archive' : ArchivedOver(a, x)
    BY <1>2, CarryTyped
  <2>2. ASSUME NEW a \in archive, a.version = v
        PROVE  \E b \in archive' : ArchivedOver(a, b)
    <3>1. a \notin archive'
      BY <2>2 DEF Kept
    <3> QED
      BY <2>1, <3>1
  <2>3. ASSUME NEW q \in Roots, NEW g \in Files, v = live[q][g]
        PROVE  FALSE
    <3>1. live'[q][g] # v
      BY <2>3 DEF Kept
    <3>2. q = r /\ g = f
      BY <2>1, <2>3, <3>1
    <3>3. PICK x \in Items : x \in archive' /\ x.version = live[r][f]
      BY <2>1, <2>3, <3>2
    <3> QED
      BY <2>3, <3>2, <3>3 DEF Kept
  <2> QED
    BY <2>2, <2>3 DEF Kept
<1>3. CASE RestoreFile
  <2>1. /\ archive' = archive
        /\ \A r \in Roots, f \in Files : live'[r][f] # live[r][f] => live[r][f] = 0
    BY <1>3, RestoreTyped
  <2> QED
    BY <2>1 DEF Kept
<1>4. CASE UNCHANGED files
  BY <1>4 DEF files, Kept
<1> QED
  BY <1>1, <1>2, <1>3, <1>4 DEF Next, Begin, End, StartRestore, EditJob, DeleteJob, PassRaises,
     PlanPass, RemoveFails, EndPass, Tick, vars

\* What a run has put into a tree stays, there or in an archive, until retention
\* has a right to it: a run archives what it replaces under a name that is its job's
\* own, because the guard against a second run of a second holds through pruned
\* history, and what a pass removes was planned for a retention that had run out.
\* Only another job with the same directory archives over it.
THEOREM Preserved == Spec => NothingLost
<1>1. UpkeepInv /\ [Next]_vars =>
        [\A v \in Kept \ Kept' : v # 0 =>
            \/ \E d \in doomed \ doomed' : \E a \in Inside(d) :
                  a.version = v /\ (a.by \in d.right \/ a.by \notin d.planners)
            \/ \E a \in archive, b \in archive' : a.version = v /\ ArchivedOver(a, b)]_vars
  BY StepLosesNothing
<1> QED
  BY <1>1, Inductive, PTL DEF Spec, NothingLost

\* A file that is restored comes to a tree its job wrote when it was archived,
\* where the job's endpoints are still the same: what is found in the directory a
\* row names and was archived by its job is of that very run.
THEOREM ComesHome == Spec => RestoredHome
<1>1. UpkeepInv /\ [Next]_vars =>
        [\A r \in Roots, f \in Files :
           restore # restore' /\ live'[r][f] # live[r][f] =>
              \E a \in archive :
                  /\ a.version = live'[r][f]
                  /\ \/ r \in a.trees
                     \/ ~SameEndpoints(restore.row.conf, restore.conf)
                     \/ a.by # restore.row.job]_vars
  <2> SUFFICES ASSUME UpkeepInv, [Next]_vars, NEW r \in Roots, NEW f \in Files,
                      restore # restore', live'[r][f] # live[r][f]
               PROVE  \E a \in archive : /\ a.version = live'[r][f]
                                         /\ \/ r \in a.trees
                                            \/ ~SameEndpoints(restore.row.conf, restore.conf)
                                            \/ a.by # restore.row.job
    OBVIOUS
  <2> USE DEF UpkeepInv
  <2>1. RestoreFile
    <3>1. \/ restore' = restore \/ live' = live \/ RestoreFile
      BY DEF Next, Begin, End, StartRestore, EditJob, DeleteJob, Carry, PassRaises, PlanPass,
         RemoveTree, RemoveFails, EndPass, Tick, vars, files, upkeep
    <3> QED
      BY <3>1
  <2>2. PICK a \in Found(restore.row, restore.side) : a.file = f /\ live'[r][f] = a.version
    BY <2>1, RestoreTyped
  <2>3. r = Tree(restore.conf, restore.side)
    BY <2>1, RestoreTyped
  <2> DEFINE w == restore.row
  <2>4. /\ restore # Idle /\ restore \in Restores /\ w \in Records
        /\ w \in Rows /\ w.job \in Runners /\ w.job \in Jobs /\ w.conf \in Configs[w.job]
        /\ restore.side \in Sides(w.conf)
    BY <2>1, ConstantsAssumption DEF RestoreFile, Typed, Restores, Rows, Records
  <2>5. a \in archive /\ a.stamp = w.stamp /\ a.place = Place(w.conf, Tree(w.conf, restore.side))
    BY <2>2, <2>4 DEF Found, ArchiveDirs
  <2>7. a.by = w.job => a.trees = Trees(w.conf)
    BY <2>4, <2>5 DEF Telling
  <2>8. SameEndpoints(w.conf, restore.conf) => r = Tree(w.conf, restore.side)
    BY <2>3 DEF SameEndpoints, Tree
  <2>9. SameEndpoints(w.conf, restore.conf) /\ a.by = w.job => r \in a.trees
    BY <2>4, <2>7, <2>8, Sided
  <2> QED
    BY <2>2, <2>5, <2>9
<1> QED
  BY <1>1, Inductive, PTL DEF Spec, RestoredHome
=============================================================================
