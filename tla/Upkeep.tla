-------------------------------- MODULE Upkeep --------------------------------
(***************************************************************************)
(* The archive: what runs move out of the way, what maintenance prunes and *)
(* what an operator restores, while jobs are edited and deleted under all  *)
(* three.  A run archives under <base>/<job-slug>/<stamp>, the directory   *)
(* is the only record of when; the run's row keeps the path, the job keeps *)
(* everything else.                                                        *)
(*                                                                         *)
(* A file's content is a version: a number that is given once.  The clock  *)
(* and the stamps count the same unit as retention; no job runs twice      *)
(* within one unit (stamps have whole seconds).                            *)
(***************************************************************************)
EXTENDS Naturals, FiniteSets

CONSTANTS
    Jobs,       \* the jobs
    Roots,      \* the trees that jobs write to
    First,      \* the tree that has a file in it to begin with
    Files,      \* the paths in a tree
    Runners,    \* bound: the jobs that are run and deleted; the others are just there
    Shifts,     \* bound: the seconds in which each of them may begin to run
    Configs,    \* of each job, the settings it may be saved with
    NoBase,     \* no archive_base: beside the tree that is written
    Deleted,    \* in place of the settings of a deleted job
    Keep,       \* run_history_keep
    MaxTime,    \* bound: how far the clock goes
    MaxVersion  \* bound: how many versions of files appear

\* A job's endpoints are `root`, which it writes, and `peer`, which it writes too
\* if it goes `both` ways (an archiving job that does comes from an import, or is
\* older than the rule against it); `days` 0 is no retention of its own and none
\* by default; `flat` is the suffix layout.
ASSUME ConstantsAssumption ==
    /\ First \in Roots
    /\ Runners \subseteq Jobs
    /\ \A j \in Jobs : \A c \in Configs[j] :
          /\ c # Deleted
          /\ c.root \in Roots /\ c.peer \in Roots /\ c.root # c.peer
          /\ c.days \in Nat /\ c.flat \in BOOLEAN /\ c.both \in BOOLEAN
    /\ Keep \in Nat \ {0} /\ MaxTime \in Nat \ {0} /\ MaxVersion \in Nat \ {0}

VARIABLES
    now,        \* the clock
    job,        \* the settings of each job, or Deleted
    live,       \* the version of each file in each tree, 0 for none
    fresh,      \* the next version
    archive,    \* the archived files: which directory, which file, which version
    rows,       \* the run rows that have archive_dirs, with the settings they follow from
    run,        \* the run of each job: the settings it loaded, its stamp, the files it has left
    doomed,     \* the directories a maintenance pass has planned to remove and not reached
    pass,       \* a maintenance pass is under way
    restore     \* the restore under way: its row, the job's settings, the file

files  == <<live, fresh, archive>>
upkeep == <<doomed, pass>>
vars == <<now, job, files, rows, run, upkeep, restore>>

Idle == [stamp |-> 0]
Times == 1..MaxTime

\* The chosen base, on the connection of the tree that is written, or beside it.
Base(c, r) == IF c.base = NoBase THEN r ELSE c.base

\* archive.plan_for: <base>/<slug>, for the tree that is written.  The suffix
\* layout puts everything into the base itself.
Place(c, r) == [base |-> Base(c, r), slug |-> IF c.flat THEN "" ELSE c.slug]

\* The trees a run may change: both, if it is bidirectional.
Sides(c)    == IF c.both THEN {"source", "dest"} ELSE {"dest"}
Tree(c, side) == IF side = "dest" THEN c.root ELSE c.peer
Trees(c)    == {Tree(c, side) : side \in Sides(c)}

\* What archive_dirs of a run says, by side.
ArchiveDirs(c) == [side \in Sides(c) |-> Place(c, Tree(c, side))]

Present(j) == job[j] # Deleted

Init ==
    /\ now = 1
    /\ job \in {f \in [Jobs -> UNION {Configs[j] : j \in Jobs}] : \A j \in Jobs : f[j] \in Configs[j]}
    /\ live = [r \in Roots |-> [f \in Files |-> IF r = First THEN 1 ELSE 0]]
    /\ fresh = 2
    /\ archive = {}
    /\ rows = {}
    /\ run = [j \in Jobs |-> Idle]
    /\ doomed = {}
    /\ pass = FALSE
    /\ restore = Idle

-----------------------------------------------------------------------------
(* Runs. *)

\* The job is loaded, the stamp taken, and archive_dirs committed before rclone
\* is started.
Begin(j) ==
    /\ j \in Runners /\ Present(j) /\ run[j] = Idle /\ now \in Shifts[j]
    /\ \A w \in rows : w.job = j => w.stamp < now
    /\ run' = [run EXCEPT ![j] = [stamp |-> now, conf |-> job[j], left |-> Files]]
    /\ rows' = rows \cup {[job |-> j, stamp |-> now, conf |-> job[j]]}
    /\ UNCHANGED <<now, job, files, upkeep, restore>>

\* rclone moves what is in the way to --backup-dir, over what has that name there.
MoveAside(j, r, f) ==
    LET place == Place(run[j].conf, r) IN
    archive' = IF live[r][f] = 0 THEN archive
               ELSE {a \in archive : ~(a.place = place /\ a.stamp = run[j].stamp /\ a.file = f)}
                    \cup {[place |-> place, stamp |-> run[j].stamp, file |-> f,
                           version |-> live[r][f],
                           by |-> j, trees |-> Trees(run[j].conf)]}

\* A file is removed from a tree, or replaced by a new version, or put there.
Carry(j, f) ==
    /\ run[j] # Idle /\ f \in run[j].left
    /\ \E side \in Sides(run[j].conf), new \in {0, fresh} \cap 0..MaxVersion :
          LET r == Tree(run[j].conf, side) IN
          /\ new # live[r][f]
          /\ MoveAside(j, r, f)
          /\ live' = [live EXCEPT ![r][f] = new]
          /\ fresh' = IF new = 0 THEN fresh ELSE fresh + 1
    /\ run' = [run EXCEPT ![j].left = @ \ {f}]
    /\ UNCHANGED <<now, job, rows, upkeep, restore>>

\* The run ends, whether it has got to every file or not.
End(j) ==
    /\ run[j] # Idle
    /\ run' = [run EXCEPT ![j] = Idle]
    /\ UNCHANGED <<now, job, files, rows, upkeep, restore>>

-----------------------------------------------------------------------------
(* Retention. *)

\* Mutant: a directory goes on the day it may go.
DueEarly(c, p, s) ==
    /\ c.days > 0 /\ ~c.flat
    /\ p = Place(c, c.root)
    /\ s + c.days <= now

\* retention.plan_archive: the directories of the job as it is now, under the
\* archive of the tree it writes (of a bidirectional job, of one of the two),
\* whose stamp is before the cutoff.
Due(c, p, s) ==
    /\ c.days > 0 /\ ~c.flat
    /\ p = Place(c, c.root)
    /\ s + c.days < now

Directories == {[place |-> a.place, stamp |-> a.stamp] : a \in archive}

\* The archives that plan_archive looks into.
Searched == {j \in Jobs : Present(j) /\ job[j].days > 0 /\ ~job[j].flat}

Planners(d) == {j \in Searched : Due(job[j], d.place, d.stamp)}

\* What is planned.  history: whose retention, by the words of it, has run out for
\* what has this stamp, and whose plan it is in.
Expired(s) == {j \in Jobs : Present(j) /\ job[j].days > 0 /\ s + job[j].days < now}
Doom(d) == [place |-> d.place, stamp |-> d.stamp,
            right |-> Expired(d.stamp), planners |-> Planners(d)]

\* An impossible date in an archive makes strptime raise: the pass ends before it
\* removes anything (and the settings page, which shows the plan, does not load).
PassRaises ==
    /\ ~pass /\ Searched # {}
    /\ UNCHANGED vars

\* Mutant: the directories are found by the rows of the runs that made them.
PlanPassByRows ==
    /\ ~pass
    /\ pass' = TRUE
    /\ doomed' = {Doom(d) : d \in {e \in Directories : /\ Planners(e) # {}
                                                     /\ \E w \in rows : w.stamp = e.stamp}}
    /\ UNCHANGED <<now, job, files, rows, run, restore>>

\* plan: every job's directories.
PlanPass ==
    /\ ~pass
    /\ pass' = TRUE
    /\ doomed' = {Doom(d) : d \in {e \in Directories : Planners(e) # {}}}
    /\ UNCHANGED <<now, job, files, rows, run, restore>>

Inside(d) == {a \in archive : a.place = d.place /\ a.stamp = d.stamp}

\* prune_archive: the directory goes, whatever the job's settings say by now.
RemoveTree ==
    /\ \E d \in doomed :
          /\ doomed' = doomed \ {d}
          /\ archive' = archive \ Inside(d)
    /\ UNCHANGED <<now, job, live, fresh, rows, run, pass, restore>>

\* rmtree fails; the pass goes on with the next.
RemoveFails ==
    /\ \E d \in doomed : doomed' = doomed \ {d}
    /\ UNCHANGED <<now, job, files, rows, run, pass, restore>>

InFlight(w) == run[w.job].stamp = w.stamp
Newer(w)    == {x \in rows : x.job = w.job /\ x.stamp > w.stamp /\ ~InFlight(x)}

\* prune_runs: the newest rows of each job stay, and those in flight.
EndPass ==
    /\ pass /\ doomed = {}
    /\ pass' = FALSE
    /\ rows' = {w \in rows : InFlight(w) \/ Cardinality(Newer(w)) < Keep}
    /\ UNCHANGED <<now, job, files, run, doomed, restore>>

-----------------------------------------------------------------------------
(* Restoring. *)

\* The archived files found in the directory a row names for a side.
Found(w, side) == {a \in archive : a.stamp = w.stamp /\ a.place = ArchiveDirs(w.conf)[side]}

\* The files listed, by side.  A row of the suffix layout names the base itself;
\* what is found there has names no run would give it.
Listed(w) ==
    IF w.conf.flat THEN {}
    ELSE UNION {{[side |-> side, file |-> a.file] : a \in Found(w, side)} : side \in Sides(w.conf)}

\* why_not: nothing is restored for a job that archives in the suffix layout now.
Restorable(j) == Present(j) /\ ~job[j].flat

\* why_not, list_archived, and what the operator chose of the list.  Each file is
\* a copyto of its own; several are restored one after the other.
StartRestore(j) ==
    /\ Restorable(j) /\ restore = Idle
    /\ \E w \in rows : \E item \in Listed(w) :
          /\ w.job = j
          /\ restore' = [stamp |-> w.stamp, row |-> w, conf |-> job[j],
                         side |-> item.side, file |-> item.file]
    /\ UNCHANGED <<now, job, files, rows, run, upkeep>>

\* Mutant: without --ignore-existing.
TargetAny(r, f) == TRUE

\* copyto --ignore-existing.
TargetFree(r, f) == live[r][f] = 0

\* Mutant: the sides are taken for each other.
OtherRoot(c, side) == IF side = "dest" THEN c.peer ELSE c.root

\* _live_root: where the job's endpoints are now.
LiveRoot(c, side) == Tree(c, side)

\* A file comes back, is skipped because there is one, or is no longer archived.
RestoreFile ==
    /\ restore # Idle
    /\ restore' = Idle
    /\ LET r == LiveRoot(restore.conf, restore.side)
           found == {a \in Found(restore.row, restore.side) : a.file = restore.file}
       IN IF found # {} /\ TargetFree(r, restore.file)
          THEN \E a \in found : live' = [live EXCEPT ![r][restore.file] = a.version]
          ELSE UNCHANGED live
    /\ UNCHANGED <<now, job, fresh, archive, rows, run, upkeep>>

-----------------------------------------------------------------------------
(* Jobs, time and strangers. *)

\* A job is saved: every setting may change while its runs go on.  No archiving
\* job is saved bidirectional.
EditJob(j) ==
    /\ Present(j)
    /\ \E c \in Configs[j] \ {job[j]} : ~c.both /\ job' = [job EXCEPT ![j] = c]
    /\ UNCHANGED <<now, files, rows, run, upkeep, restore>>

\* Mutant: the rows stay.
DeleteJobOnly(j) ==
    /\ j \in Runners /\ Present(j)
    /\ job' = [job EXCEPT ![j] = Deleted]
    /\ UNCHANGED <<now, files, rows, run, upkeep, restore>>

\* Its rows go with it; its archive stays, and so does a run that has begun.
DeleteJob(j) ==
    /\ j \in Runners /\ Present(j)
    /\ job' = [job EXCEPT ![j] = Deleted]
    /\ rows' = {w \in rows : w.job # j}
    /\ UNCHANGED <<now, files, run, upkeep, restore>>

Tick ==
    /\ now < MaxTime
    /\ now' = now + 1
    /\ UNCHANGED <<job, files, rows, run, upkeep, restore>>

Next ==
    \/ \E j \in Jobs : \/ Begin(j) \/ End(j) \/ StartRestore(j) \/ EditJob(j) \/ DeleteJob(j)
                       \/ \E f \in Files : Carry(j, f)
    \/ PassRaises \/ PlanPass \/ RemoveTree \/ RemoveFails \/ EndPass
    \/ RestoreFile
    \/ Tick

Spec == Init /\ [][Next]_vars

\* The nightly pass comes, and a directory is not for ever beyond removing.
FairSpec == Spec /\ WF_vars(PlanPass \/ EndPass) /\ SF_vars(RemoveTree)

-----------------------------------------------------------------------------
Items == [place : {Place(c, r) : c \in UNION {Configs[j] : j \in Jobs}, r \in Roots},
          stamp : Times, file : Files, version : 1..MaxVersion,
          by : Jobs, trees : SUBSET Roots]

TypeOK ==
    /\ now \in Times
    /\ \A j \in Jobs : job[j] \in Configs[j] \cup {Deleted}
    /\ live \in [Roots -> [Files -> 0..MaxVersion]]
    /\ fresh \in 1..(MaxVersion + 1)
    /\ archive \subseteq Items
    /\ \A w \in rows : w.job \in Jobs /\ w.stamp \in Times /\ Present(w.job)
    /\ \A j \in Jobs : run[j] = Idle \/ run[j].left \subseteq Files
    /\ doomed # {} => pass

\* The versions that are in a tree or in an archive.
Kept == {live[r][f] : r \in Roots, f \in Files} \cup {a.version : a \in archive}

\* Another job's run gave its own file the name of an archived one: both jobs'
\* names come to one slug under one base, and their runs began in one second.
ArchivedOver(a, b) ==
    b.by # a.by /\ <<b.place, b.stamp, b.file>> = <<a.place, a.stamp, a.file>>

\* What a run has put into a tree stays, there or in an archive, until retention
\* has a right to it: the retention of the job that archived it had run out,
\* counted from that run, when the pass was planned.  No run replaces what its job
\* has archived, no restore what is present, and a directory that is pruned while a
\* restore reads it or a run fills it takes nothing else along.  (A job prunes
\* another's archive by its own retention, and archives over it, where both names
\* come to one slug under one base.)
NothingLost ==
    [][\A v \in Kept \ Kept' : v # 0 =>
          \/ \E d \in doomed \ doomed' : \E a \in Inside(d) :
                a.version = v /\ (a.by \in d.right \/ a.by \notin d.planners)
          \/ \E a \in archive, b \in archive' : a.version = v /\ ArchivedOver(a, b)]_vars

\* A file that is restored comes to a tree its job wrote when it was archived: it
\* goes elsewhere only where the job was given other endpoints since, or where
\* another job's run of that second archived it in the same directory.
SameEndpoints(c, d) == <<c.root, c.peer, c.both>> = <<d.root, d.peer, d.both>>
RestoredHome ==
    [][\A r \in Roots, f \in Files :
          restore # restore' /\ live'[r][f] # live[r][f] =>
              \E a \in archive :
                  /\ a.version = live'[r][f]
                  /\ \/ r \in a.trees
                     \/ ~SameEndpoints(restore.row.conf, restore.conf)
                     \/ a.by # restore.row.job]_vars

\* What is due goes: the directories a job's retention covers are removed in the
\* end, through failures, unless the job is saved otherwise or deleted, as long as
\* not every pass raises.
Overdue(j) == Present(j) /\ \E d \in Directories : Due(job[j], d.place, d.stamp)
ExpiredGoes == \A j \in Jobs : Overdue(j) ~> ~Overdue(j)
=============================================================================
