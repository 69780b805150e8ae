------------------------------- MODULE Brake -------------------------------
(***************************************************************************)
(* How many files the live runs of one job may remove: the plan and its    *)
(* pre-flight, the number that rclone is given as --max-delete, the        *)
(* approval of a refused run, and bisync's own percentage.  The files      *)
(* change while a run plans and works; what a pre-flight knows is the dry  *)
(* run's captured output, which has a limit.                               *)
(*                                                                         *)
(* One job, one run at a time (RunLifecycle is about how many).  A file is *)
(* one of a number; what a run copies is left to FilesChange.              *)
(***************************************************************************)
EXTENDS Integers

CONSTANTS
    Kinds,    \* what the job may be: "sync" and "copy" (one way), "bisync"
    Pcts,     \* the values of max_delete_pct an operator sets
    MaxFiles, \* bound: the files of a side
    Capture,  \* how many removals the captured output of a dry run has room for,
              \* beside what it says about copies
    MayTimeOut, \* whether a dry run is stopped by its timeout, or fails
    None      \* no approval

ASSUME ConstantsAssumption ==
    /\ Kinds \subseteq {"sync", "copy", "bisync"}
    /\ Pcts \subseteq 0..100
    /\ MaxFiles \in Nat
    /\ Capture \in Nat
    /\ MayTimeOut \in BOOLEAN
    /\ None \notin Nat

Sides == {"path1", "path2"}
Nothing == [s \in Sides |-> 0]

VARIABLES
    kind,        \* direction and delete_mode of the job; they stay as they are
    pct,         \* Job.max_delete_pct
    initialised, \* Job.bisync_initialized
    listing,     \* bisync's working directory: "none" yet, "kept" or "lost"
    files,       \* by side, the files a percentage is taken of: one way those on
                 \* the destination ("path2"), both ways those in rclone's listing
    gone,        \* by side, the files of these that a sync would now remove
    refusals,    \* the refused_deletions on record, which the run page offers
    pc,          \* what the run does next, "idle" between runs
    share,       \* the percentage of the job as the run loaded it
    approved,    \* JobRun.forced_max_delete
    resync,      \* JobRun.is_resync
    base,        \* the files its percentage was taken of
    pending,     \* the removals its dry run came to
    complete,    \* whether all of them are in the output that was captured
    seen,        \* Plan.deleted_count: those that are
    limit,       \* by side, how many removals rclone lets itself do
    removed      \* by side, how many it did

job   == <<kind, pct, initialised>>
tree  == <<files, gone>>
terms == <<share, approved, resync>>
plan  == <<base, pending, complete, seen>>
work  == <<limit, removed>>
vars  == <<job, listing, tree, refusals, pc, terms, plan, work>>

Total == gone["path1"] + gone["path2"]

\* The smallest count that is at least pct percent of n, and never below one.
ResolveMaxDelete(p, n) ==
    LET least == (n * p + 99) \div 100
    IN  IF least < 1 THEN 1 ELSE least

\* The threshold of a one way run: an approval replaces the percentage.
Allowed == IF approved = None THEN ResolveMaxDelete(share, base["path2"])
                              ELSE approved

\* Mutant: the flag is left out, and rclone takes its default.
BisyncDefaultMaxDelete == 50

\* rclone bisync --max-delete: a percentage, by side, decided before any change.
BisyncMaxDelete == share
TooMany == \E s \in Sides : 100 * gone[s] > BisyncMaxDelete * files[s]

\* The real bisync run carries --force.
Forced == approved # None

Init ==
    /\ kind \in Kinds
    /\ pct \in Pcts
    /\ initialised = FALSE
    /\ listing = "none"
    /\ files = Nothing
    /\ gone = Nothing
    /\ refusals = {}
    /\ pc = "idle"
    /\ share = 0
    /\ approved = None
    /\ resync = FALSE
    /\ base = Nothing
    /\ pending = 0
    /\ complete = FALSE
    /\ seen = 0
    /\ limit = Nothing
    /\ removed = Nothing

(***************************************************************************)
(* What starts a run.  Its worker loads row and job once.                  *)
(***************************************************************************)
Begin(number) ==
    /\ pc = "idle"
    /\ pc' = "begin"
    /\ share' = pct
    /\ approved' = number
    /\ base' = Nothing
    /\ pending' = 0
    /\ complete' = FALSE
    /\ seen' = 0
    /\ limit' = Nothing
    /\ removed' = Nothing
    /\ UNCHANGED <<job, listing, tree, refusals>>

Run == Begin(None) /\ resync' = FALSE

\* "Run anyway": the number of a refused run, this one or an older one.
ForceRun == \E n \in refusals : Begin(n) /\ resync' = FALSE

FirstSync == kind = "bisync" /\ Begin(None) /\ resync' = TRUE

(***************************************************************************)
(* One way.                                                                *)
(***************************************************************************)

\* Phase 1 counts the destination, from files that are read whole.
Check ==
    /\ pc = "begin"
    /\ kind # "bisync"
    /\ pc' = "checked"
    /\ base' = files
    /\ UNCHANGED <<job, listing, tree, refusals, terms, pending, complete, seen, work>>

\* The operation that is planned, and the one that is run.
Operation == IF kind = "copy" THEN "copy" ELSE "sync"

\* Whether a dry run comes to its end.  process.run reports one that does not
\* like any other, with the output so far.
Ended == {TRUE} \cup (IF MayTimeOut THEN {FALSE} ELSE {})

\* How much of n removals is captured.
Captured(n, ended) ==
    IF ended /\ n <= Capture THEN {n}
    ELSE IF ended THEN {Capture}
    ELSE {k \in 0..n : k <= Capture}

\* Mutant: planning always runs a sync, as it once did (rclone.py:102-109).
DryRunAlwaysSync ==
    /\ pc = "checked"
    /\ pc' = "planned"
    /\ pending' = gone["path2"]
    /\ \E ended \in Ended :
        /\ complete' = (ended /\ pending' <= Capture)
        /\ seen' \in Captured(pending', ended)
    /\ UNCHANGED <<job, listing, tree, refusals, terms, base, work>>

\* Phase 2, a dry run.  One that did not end is taken for a plan if it printed
\* any operation.
DryRun ==
    /\ pc = "checked"
    /\ pc' = "planned"
    /\ pending' = IF Operation = "copy" THEN 0 ELSE gone["path2"]
    /\ \E ended \in Ended :
        /\ complete' = (ended /\ pending' <= Capture)
        /\ seen' \in Captured(pending', ended)
    /\ UNCHANGED <<job, listing, tree, refusals, terms, base, work>>

\* Mutant: a refusal without a number is offered for approval.
PlanFailsOffering ==
    /\ pc \in {"begin", "checked", "planned"}
    /\ kind # "bisync"
    /\ pc' = "idle"
    /\ refusals' = refusals \cup {None}
    /\ UNCHANGED <<job, listing, tree, terms, plan, work>>

\* An endpoint cannot be compared, a plan cannot be built, the sentinel file is
\* missing: refused, with no number to approve.
PlanFails ==
    /\ pc \in {"begin", "checked", "planned"}
    /\ kind # "bisync"
    /\ pc' = "idle"
    /\ UNCHANGED <<job, listing, tree, refusals, terms, plan, work>>

PreflightRefuses ==
    /\ pc = "planned"
    /\ seen > Allowed
    /\ pc' = "idle"
    /\ refusals' = refusals \cup {seen}
    /\ UNCHANGED <<job, listing, tree, terms, plan, work>>

\* Mutant: the pre-flight leaves the refusal to rclone's flag.
SyncStartsUnvetoed ==
    /\ pc = "planned"
    /\ pc' = "syncing"
    /\ limit' = [Nothing EXCEPT !["path2"] = Allowed]
    /\ UNCHANGED <<job, listing, tree, refusals, terms, plan, removed>>

\* The pre-flight passes, and rclone is started with its --max-delete.
SyncStarts ==
    /\ pc = "planned"
    /\ seen <= Allowed
    /\ pc' = "syncing"
    /\ limit' = [Nothing EXCEPT !["path2"] = Allowed]
    /\ UNCHANGED <<job, listing, tree, refusals, terms, plan, removed>>

(***************************************************************************)
(* Both ways.                                                              *)
(***************************************************************************)

\* Never a resync by itself: without a first sync the run is refused.
NotInitialised ==
    /\ pc = "begin"
    /\ kind = "bisync"
    /\ ~initialised /\ ~resync
    /\ pc' = "idle"
    /\ UNCHANGED <<job, listing, tree, refusals, terms, plan, work>>

\* A dry run first.  Its totals and rclone's refusal come last in its output,
\* so one that is cut, or stopped by its timeout, shows neither; nor does one
\* without a listing.
BisyncPreflight ==
    /\ pc = "begin"
    /\ kind = "bisync"
    /\ initialised /\ ~resync
    /\ pending' = Total
    /\ \E ended \in Ended :
         complete' = (ended /\ listing = "kept" /\ Total <= Capture)
    /\ seen' = IF complete' THEN Total ELSE 0
    /\ IF /\ complete' /\ TooMany
          /\ ~(approved # None /\ seen' <= approved)
       THEN /\ pc' = "idle"
            /\ refusals' = refusals \cup {seen'}
       ELSE /\ pc' = "starting"
            /\ UNCHANGED refusals
    /\ UNCHANGED <<job, listing, tree, terms, base, work>>

ResyncStarts ==
    /\ pc = "begin"
    /\ kind = "bisync"
    /\ resync
    /\ pc' = "resyncing"
    /\ UNCHANGED <<job, listing, tree, refusals, terms, plan, work>>

\* The real run.  rclone finds no listing, and the job loses its mark ...
BisyncNeedsResync ==
    /\ pc = "starting"
    /\ listing # "kept"
    /\ pc' = "idle"
    /\ initialised' = FALSE
    /\ UNCHANGED <<kind, pct, listing, tree, refusals, terms, plan, work>>

\* ... or refuses on its percentage, with no number to approve ...
BisyncAborts ==
    /\ pc = "starting"
    /\ listing = "kept"
    /\ TooMany /\ ~Forced
    /\ pc' = "idle"
    /\ UNCHANGED <<job, listing, tree, refusals, terms, plan, work>>

\* ... or goes ahead with what it found to remove.
BisyncStarts ==
    /\ pc = "starting"
    /\ listing = "kept"
    /\ TooMany => Forced
    /\ pc' = "syncing"
    /\ base' = files
    /\ limit' = gone
    /\ UNCHANGED <<job, listing, tree, refusals, terms, pending, complete, seen, removed>>

\* A resync copies both ways and removes nothing.  It ends with exit code 0 and
\* a new listing, or otherwise, perhaps without the old one.
ResyncEnds ==
    /\ pc = "resyncing"
    /\ \/ /\ pc' = "resynced"
          /\ listing' = "kept"
          /\ gone' = Nothing
       \/ /\ pc' = "resyncFailed"
          /\ listing' \in {listing, IF listing = "none" THEN "none" ELSE "lost"}
          /\ UNCHANGED gone
    /\ UNCHANGED <<job, files, refusals, terms, plan, work>>

\* Mutant: the exit code of the resync is not looked at.
RecordResyncAnyway ==
    /\ pc \in {"resynced", "resyncFailed"}
    /\ pc' = "idle"
    /\ initialised' = TRUE
    /\ UNCHANGED <<kind, pct, listing, tree, refusals, terms, plan, work>>

\* The mark is committed before the outcome.  Output that asks for a resync
\* takes it away.
RecordResync ==
    /\ pc \in {"resynced", "resyncFailed"}
    /\ pc' = "idle"
    /\ initialised' \in IF pc = "resynced" THEN {TRUE} ELSE {initialised, FALSE}
    /\ UNCHANGED <<kind, pct, listing, tree, refusals, terms, plan, work>>

(***************************************************************************)
(* rclone at work, and the world around it.                                *)
(***************************************************************************)

\* One way it stops at --max-delete; both ways it does what it set out to do.
Remove(s) ==
    /\ pc = "syncing"
    /\ Operation = "sync"
    /\ gone[s] > 0
    /\ removed[s] < limit[s]
    /\ removed' = [removed EXCEPT ![s] = @ + 1]
    /\ gone' = [gone EXCEPT ![s] = @ - 1]
    /\ files' = [files EXCEPT ![s] = @ - 1]
    /\ UNCHANGED <<job, listing, refusals, pc, terms, plan, limit>>

\* Done, failed, cancelled, or stopped at the threshold.
SyncEnds ==
    /\ pc = "syncing"
    /\ pc' = "idle"
    /\ UNCHANGED <<job, listing, tree, refusals, terms, plan, work>>

\* bisync ends critically and demands a resync.
BisyncBreaks ==
    /\ pc = "syncing"
    /\ kind = "bisync"
    /\ pc' = "idle"
    /\ listing' = "lost"
    /\ initialised' = FALSE
    /\ UNCHANGED <<kind, pct, tree, refusals, terms, plan, work>>

\* Files come and go, a mount goes stale: at any moment, also in between.
\* rclone's listing is only rewritten by a run.
FilesChange(s) ==
    /\ kind # "bisync" => s = "path2"
    /\ \E n \in 0..MaxFiles : \E g \in 0..n :
        /\ kind = "bisync" /\ pc # "idle" => n = files[s]
        /\ files' = [files EXCEPT ![s] = n]
        /\ gone' = [gone EXCEPT ![s] = g]
    /\ UNCHANGED <<job, listing, refusals, pc, terms, plan, work>>

\* /config is lost, or the job is given other paths, which have no listing.
LoseWorkdir ==
    /\ listing = "kept"
    /\ listing' = "lost"
    /\ UNCHANGED <<job, tree, refusals, pc, terms, plan, work>>

EditPct ==
    /\ pct' \in Pcts
    /\ UNCHANGED <<kind, initialised, listing, tree, refusals, pc, terms, plan, work>>

\* The process dies with its rclone; the run is failed at the next start.
Crash ==
    /\ pc # "idle"
    /\ pc' = "idle"
    /\ UNCHANGED <<job, listing, tree, refusals, terms, plan, work>>

RunStep ==
    \/ Check \/ DryRun \/ PlanFails \/ PreflightRefuses \/ SyncStarts
    \/ NotInitialised \/ BisyncPreflight \/ ResyncStarts
    \/ BisyncNeedsResync \/ BisyncAborts \/ BisyncStarts
    \/ ResyncEnds \/ RecordResync
    \/ \E s \in Sides : Remove(s)
    \/ SyncEnds \/ BisyncBreaks

Next ==
    \/ Run \/ ForceRun \/ FirstSync
    \/ RunStep
    \/ \E s \in Sides : FilesChange(s)
    \/ LoseWorkdir \/ EditPct \/ Crash

Spec == Init /\ [][Next]_vars

(***************************************************************************)
(* Properties.                                                             *)
(***************************************************************************)

Counts == 0..2 * MaxFiles

\* The types of the variables; a run that is planning has removed nothing.
TypeOK ==
    /\ kind \in Kinds
    /\ pct \in Pcts
    /\ initialised \in BOOLEAN
    /\ listing \in {"none", "kept", "lost"}
    /\ files \in [Sides -> 0..MaxFiles]
    /\ gone \in [Sides -> 0..MaxFiles]
    /\ \A s \in Sides : gone[s] <= files[s]
    /\ refusals \subseteq Counts
    /\ pc \in {"idle", "begin", "checked", "planned", "starting", "syncing",
              "resyncing", "resynced", "resyncFailed"}
    /\ share \in Pcts \cup {0}
    /\ approved \in Counts \cup {None}
    /\ resync \in BOOLEAN
    /\ base \in [Sides -> 0..MaxFiles]
    /\ pending \in Counts
    /\ complete \in BOOLEAN
    /\ seen \in Counts
    /\ limit \in [Sides -> Nat]
    /\ removed \in [Sides -> Nat]

\* SPEC's invariant 7, whatever changes between the plan and the run and however
\* little of the plan was captured: a one way run removes no more than the number
\* that was approved or, without approval, than its percentage of the destination
\* as counted, rounded up and at least one; a bidirectional run without approval
\* no more than its percentage of either side.
WithinAgreed ==
    /\ kind = "sync" /\ approved # None => removed["path2"] <= approved
    /\ kind = "sync" /\ approved = None =>
         removed["path2"] <= 1 \/ 100 * (removed["path2"] - 1) < base["path2"] * share
    /\ kind = "bisync" /\ approved = None =>
         \A s \in Sides : 100 * removed[s] <= share * base[s]

\* The refusal before rclone is invoked: if all removals that the dry run came to
\* were captured and they are more than the threshold, not one is carried out,
\* not even up to --max-delete.
CapturedExcessRefused ==
    kind = "sync" /\ complete /\ pending > Allowed => removed["path2"] = 0

\* A job that cannot remove anything is never refused for removing too much, and
\* never offers removals for approval (rclone.py:102-109).
CopyNeverRefused == kind = "copy" => refusals = {}

\* A job counts as initialised only if a resync of it once succeeded, though its
\* listing may have been lost since: bisync's own state is never trusted to the
\* mark alone, but the mark is never set for nothing.
InitialisedMeansSynced == initialised => listing # "none"
=============================================================================
