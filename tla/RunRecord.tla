----------------------------- MODULE RunRecord -----------------------------
(***************************************************************************)
(* What is told of a run: the plan made for it (presence from `rclone      *)
(* check`, intent from a dry run, _reconcile), the lines of its log as     *)
(* _absorb reads them, the row and the table of changes _record writes,    *)
(* whether a continuous cycle is quiet enough to be dropped, and the       *)
(* session figures ActivityRecorder keeps of everything that moves.        *)
(*                                                                         *)
(* One job runs again and again over two trees that users keep changing;   *)
(* a second run of another job does nothing here but report its progress.  *)
(* Every file is one unit of bytes.  rclone is external: it compares and   *)
(* copies file by file, and logs what its version 1.74.4 logs.             *)
(***************************************************************************)
EXTENDS Naturals, Sequences, FiniteSets

CONSTANTS
    Files,
    Large,       \* those over the multi-thread cutoff, whose copies are logged differently
    Kinds,       \* the jobs looked at: "copy", "mirror", "archive" (one way), "both",
                 \* and "imported": both ways and archiving, which only an import stores
    MaxChanges,  \* MAX_PERSISTED_CHANGES
    MaxEdits,    \* bound: how often users change a file
    MaxBurst     \* bound: the bytes moved while something keeps running

ASSUME ConstantsAssumption ==
    /\ IsFiniteSet(Files) /\ Large \subseteq Files
    /\ Kinds \subseteq {"copy", "mirror", "archive", "both", "imported"}
    /\ MaxChanges \in Nat \ {0} /\ MaxEdits \in Nat /\ MaxBurst \in Nat

VARIABLES
    kind,       \* the job's direction and delete mode
    src, dst,   \* the trees: 0 is no file, 1 and 2 are contents
    edits,      \* how often users have changed them
    at,         \* the job's worker: "idle", "checked", "planned", "syncing", "ended",
                \* "recorded", "pruned"
    presence,   \* PresenceReport: the paths on the source and on the destination
    plan,       \* Plan: the paths by action, and how many stay unchanged
    seen,       \* the files rclone is done with
    observed,   \* DryRunLog: operations, errors and the bytes of the last stats record
    code,       \* how rclone ended: "ok", "error" or "killed"
    row,        \* the run's row
    changes,    \* its table of changes: where each comes from, its path and action
    latest,     \* ActivityRecorder._latest: the bytes a run last reported
    counted,    \* ._counted: those that are in the session already
    session,    \* ._session_bytes
    other,      \* the other run: whether it runs, and what it has moved
    did,        \* history: what rclone has done with each file in this run
    exact,      \* history: the plan was captured whole and no file has changed since it began
    burst       \* history: the bytes moved since anything runs, or since the reset

treeVars     == <<kind, src, dst, edits>>
runVars      == <<at, presence, plan, seen, observed, code>>
rowVars      == <<row, changes>>
activityVars == <<latest, counted, session>>
vars == <<treeVars, runVars, rowVars, activityVars, other, did, exact, burst>>

Busy   == {"syncing", "ended", "recorded", "pruned"}
Runs   == {"job", "other"}
\* No stats record yet, no entry in a dictionary: more than can be moved in a burst.
Unseen == MaxBurst + Cardinality(Files) + 1
Count(S) == Cardinality(S)

NoPresence == [source |-> {}, dest |-> {}]
NoPlan == [new |-> {}, updated |-> {}, deleted |-> {}, unchanged |-> 0]
NoLog  == [operations |-> <<>>, errors |-> 0, bytes |-> Unseen]
NoRow  == [status |-> "none"]

Init ==
    /\ kind \in Kinds
    /\ src \in [Files -> 0..1] /\ dst \in [Files -> 0..2]    \* which content is 1 does not matter
    /\ edits = 0
    /\ at = "idle"
    /\ presence = NoPresence
    /\ plan = NoPlan
    /\ seen = {}
    /\ observed = NoLog
    /\ code = "ok"
    /\ row = NoRow
    /\ changes = {}
    /\ latest = [r \in Runs |-> Unseen]
    /\ counted = [r \in Runs |-> 0]
    /\ session = 0
    /\ other = [on |-> FALSE, bytes |-> 0]
    /\ did = [f \in Files |-> "nothing"]
    /\ exact = TRUE
    /\ burst = 0

-----------------------------------------------------------------------------
(* External: users and rclone. *)

UserEdits ==
    /\ edits < MaxEdits
    /\ edits' = edits + 1
    /\ \E f \in Files, v \in 0..2 :
          \/ src' = [src EXCEPT ![f] = v] /\ UNCHANGED dst
          \/ dst' = [dst EXCEPT ![f] = v] /\ UNCHANGED src
    /\ exact' = (at = "idle")
    /\ UNCHANGED <<kind, runVars, rowVars, activityVars, other, did, burst>>

OneWay    == kind \in {"copy", "mirror", "archive"}
Archiving == kind \in {"archive", "imported"}

\* What `sync` (or `copy`, for a job that never deletes) does with a file.  Of
\* `bisync`, the half that makes the destination like the source.
ToCopy(f)   == src[f] # 0 /\ src[f] # dst[f]
ToRemove(f) == src[f] = 0 /\ dst[f] # 0 /\ kind # "copy"

CopyLine(f, new) ==
    IF f \in Large
    THEN IF new THEN "Multi-thread Copied (new)" ELSE "Multi-thread Copied (replaced existing)"
    ELSE IF new THEN "Copied (new)" ELSE "Copied (replaced existing)"

\* With --backup-dir the old version may have been moved away by then, and what
\* replaces it looks new to rclone.
Looks(f) == {dst[f] = 0} \cup (IF Archiving THEN {TRUE} ELSE {})

\* With --backup-dir a removal logs two lines and neither of them says Deleted.
RemoveLines ==
    IF Archiving THEN <<"Moved (server-side)", "Moved into backup dir">> ELSE <<"Deleted">>

-----------------------------------------------------------------------------
(* The plan. *)

\* _run_phases, phase 1: `rclone check --size-only` and its category files.
Check ==
    /\ at = "idle" /\ OneWay /\ burst < MaxBurst
    /\ presence' = [source |-> {f \in Files : src[f] # 0}, dest |-> {f \in Files : dst[f] # 0}]
    /\ exact' = TRUE
    /\ at' = "checked"
    /\ UNCHANGED <<treeVars, plan, seen, observed, code, rowVars, activityVars, other, did, burst>>

\* _reconcile: a copy of a path that check found missing on the destination.
IsNew(f) == f \notin presence.dest

Reconciled(copies, deletes) ==
    [new       |-> {f \in copies : IsNew(f)},
     updated   |-> {f \in copies : ~IsNew(f)},
     deleted   |-> deletes,
     unchanged |-> Count(presence.source \ copies)]

\* Phase 2: the dry run of the live command, in its captured form.  What does
\* not fit into the capture is not part of the plan.
DryRun ==
    /\ at = "checked"
    /\ LET copies  == {f \in Files : ToCopy(f)}
           deletes == {f \in Files : ToRemove(f)}
       IN \E captured \in SUBSET Files :
             /\ plan' = Reconciled(copies \cap captured, deletes \cap captured)
             /\ exact' = (exact /\ captured = Files)
    /\ at' = "planned"
    /\ presence' = NoPresence
    /\ UNCHANGED <<treeVars, seen, observed, code, rowVars, activityVars, other, did, burst>>

\* Either phase fails, or the brake refuses what it sees: the run ends without
\* a record of this kind (_fail; see Brake).
PlanEnds ==
    /\ at \in {"checked", "planned"}
    /\ at' = "idle"
    /\ presence' = NoPresence /\ plan' = NoPlan /\ exact' = TRUE
    /\ UNCHANGED <<treeVars, seen, observed, code, rowVars, activityVars, other, did, burst>>

-----------------------------------------------------------------------------
(* The run. *)

\* A bidirectional run has a plan of its own, which its record does not use.
Begin ==
    /\ \/ at = "planned"
       \/ at = "idle" /\ ~OneWay /\ burst < MaxBurst
    /\ at' = "syncing"
    /\ UNCHANGED <<treeVars, presence, plan, seen, observed, code, rowVars, activityVars,
                   other, did, exact, burst>>

\* Mutant: the message has to begin with it.
CopiedAtStart == {"Copied (new)", "Copied (replaced existing)"}

\* Messages that hold the word Copied.
Copied == {"Copied (new)", "Copied (replaced existing)",
           "Multi-thread Copied (new)", "Multi-thread Copied (replaced existing)"}

Operation(f, line) ==
    CASE line \in Copied ->
           <<[path |-> f, operation |-> "copy",
              replaced |-> line \notin {"Copied (new)", "Multi-thread Copied (new)"}]>>
      [] line = "Deleted" -> <<[path |-> f, operation |-> "delete", replaced |-> FALSE]>>
      [] line = "Moved into backup dir" ->
           <<[path |-> f, operation |-> "archive", replaced |-> FALSE]>>
      [] OTHER -> <<>>

\* _absorb, for the lines one file gives rise to.
Absorbed(f, lines) ==
    observed.operations \o Operation(f, lines[1])
    \o (IF Len(lines) > 1 THEN Operation(f, lines[2]) ELSE <<>>)

Absorb(f, lines) == observed' = [observed EXCEPT !.operations = Absorbed(f, lines)]

CopyFile(f) ==
    /\ at = "syncing" /\ f \notin seen
    /\ ToCopy(f)
    /\ dst' = [dst EXCEPT ![f] = src[f]]
    /\ did' = [did EXCEPT ![f] = IF dst[f] = 0 THEN "new" ELSE "updated"]
    /\ \E new \in Looks(f) : Absorb(f, <<CopyLine(f, new)>>)
    /\ seen' = seen \cup {f}
    /\ burst' = burst + 1
    /\ UNCHANGED <<kind, src, edits, at, presence, plan, code, rowVars, activityVars, other, exact>>

RemoveFile(f) ==
    /\ at = "syncing" /\ f \notin seen
    /\ ToRemove(f)
    /\ dst' = [dst EXCEPT ![f] = 0]
    /\ did' = [did EXCEPT ![f] = IF Archiving THEN "archived" ELSE "deleted"]
    /\ Absorb(f, RemoveLines)
    /\ seen' = seen \cup {f}
    /\ UNCHANGED <<kind, src, edits, at, presence, plan, code, rowVars, activityVars, other, exact, burst>>

LeaveFile(f) ==
    /\ at = "syncing" /\ f \notin seen
    /\ ~ToCopy(f) /\ ~ToRemove(f)
    /\ seen' = seen \cup {f}
    /\ UNCHANGED <<treeVars, at, presence, plan, observed, code, rowVars, activityVars,
                   other, did, exact, burst>>

\* An error line; rclone comes back to the file or gives up.
FileError ==
    /\ at = "syncing" /\ seen # Files /\ observed.errors = 0
    /\ observed' = [observed EXCEPT !.errors = 1]
    /\ UNCHANGED <<treeVars, at, presence, plan, seen, code, rowVars, activityVars,
                   other, did, exact, burst>>

-----------------------------------------------------------------------------
(* ActivityRecorder. *)

\* What a report adds to the session: the figure is cumulative for its run.
Increment(r, done) == IF done >= counted[r] THEN done - counted[r] ELSE 0

RecordActivity(r, done) ==
    /\ latest' = [latest EXCEPT ![r] = done]
    /\ session' = session + Increment(r, done)
    /\ counted' = [counted EXCEPT ![r] = done]

\* forget: the last run that has reported anything takes the session with it.
ForgetActivity(r) ==
    /\ latest' = [latest EXCEPT ![r] = Unseen]
    /\ IF \A q \in Runs \ {r} : latest[q] = Unseen
       THEN session' = 0 /\ counted' = [q \in Runs |-> 0]
       ELSE counted' = [counted EXCEPT ![r] = 0] /\ UNCHANGED session

Moved == Count({f \in Files : did[f] \in {"new", "updated"}})

\* A stats record of the job's rclone.
Stats ==
    /\ at = "syncing" /\ observed.bytes # Moved
    /\ RecordActivity("job", Moved)
    /\ observed' = [observed EXCEPT !.bytes = Moved]
    /\ UNCHANGED <<treeVars, at, presence, plan, seen, code, rowVars, other, did, exact, burst>>

OtherBegins ==
    /\ ~other.on
    /\ other' = [on |-> TRUE, bytes |-> 0]
    /\ UNCHANGED <<treeVars, runVars, rowVars, activityVars, did, exact, burst>>

OtherMoves ==
    /\ other.on /\ burst < MaxBurst /\ other.bytes < MaxBurst
    /\ other' = [other EXCEPT !.bytes = @ + 1]
    /\ burst' = burst + 1
    /\ UNCHANGED <<treeVars, runVars, rowVars, activityVars, did, exact>>

OtherStats ==
    /\ other.on /\ latest["other"] # other.bytes
    /\ RecordActivity("other", other.bytes)
    /\ UNCHANGED <<treeVars, runVars, rowVars, other, did, exact, burst>>

OtherEnds ==
    /\ other.on
    /\ ForgetActivity("other")
    /\ other' = [on |-> FALSE, bytes |-> 0]
    /\ burst' = IF at \in Busy THEN burst ELSE 0
    /\ UNCHANGED <<treeVars, runVars, rowVars, did, exact>>

\* Mutant: nothing is left of what is in flight.
BaselineCleared == [r \in Runs |-> 0]

\* reset_session: what has been reported so far is counted, and stays out.
Baseline == [r \in Runs |-> IF latest[r] = Unseen THEN 0 ELSE latest[r]]

Unreported(r, moved) == IF latest[r] = Unseen THEN moved ELSE moved - latest[r]

\* What has moved and has not been reported is reported after the reset.
ResetSession ==
    /\ session' = 0
    /\ counted' = Baseline
    /\ burst' = (IF at \in Busy THEN Unreported("job", Moved) ELSE 0)
                + (IF other.on THEN Unreported("other", other.bytes) ELSE 0)
    /\ UNCHANGED <<treeVars, runVars, rowVars, latest, other, did, exact>>

-----------------------------------------------------------------------------
(* The end of the run. *)

\* rclone ends: normally with a last stats record, or by a signal.
Exit ==
    /\ at = "syncing"
    /\ \/ /\ seen = Files /\ code' = "ok"
       \/ /\ observed.errors > 0 /\ code' = "error"
       \/ code' = "killed"
    /\ IF code' = "killed" THEN UNCHANGED <<observed, activityVars>>
       ELSE /\ observed' = [observed EXCEPT !.bytes = Moved]
            /\ RecordActivity("job", Moved)
    /\ at' = "ended"
    /\ UNCHANGED <<treeVars, presence, plan, seen, rowVars, other, did, exact, burst>>

\* The operations of these kinds, by their places in the list (copies, created,
\* replacements, deletes, archived, removals).
Op(i) == observed.operations[i]
Ops(kinds) == {i \in DOMAIN observed.operations : Op(i).operation \in kinds}
Copies   == Ops({"copy"})
Deletes  == Ops({"delete"})
Archived == Ops({"archive"})
Removals == Deletes \cup Archived

Action(op) ==
    CASE op.operation = "delete"  -> "deleted"
      [] op.operation = "archive" -> "archived"
      [] OTHER -> IF op.replaced THEN "updated" ELSE "new"

\* What is to be listed, in this order: copies, deletes, archived files, each by
\* its place; of a bidirectional run the archived ones are listed once more.
Entries ==
    ({1} \X Copies) \cup ({2} \X Deletes) \cup ({3} \X Archived)
    \cup (IF OneWay THEN {} ELSE {4} \X Archived)

Earlier(e) == {d \in Entries : d[1] < e[1] \/ (d[1] = e[1] /\ d[2] < e[2])}

\* The first MaxChanges of them.
Listed ==
    {[entry |-> e, path |-> Op(e[2]).path, action |-> Action(Op(e[2]))] :
        e \in {d \in Entries : Count(Earlier(d)) < MaxChanges}}

Status == CASE code = "killed" -> "cancelled" [] code = "ok" -> "success" [] OTHER -> "failed"

\* rclone's own total where there is one; a bidirectional run adds up the sizes.
Bytes == IF OneWay /\ observed.bytes # Unseen THEN observed.bytes ELSE Count(Copies)

\* _record and _record_bisync.
Record ==
    /\ at = "ended"
    /\ row' = [status      |-> Status,
               transferred |-> Count(Copies),
               deleted     |-> Count(Removals),
               archived    |-> Count(Archived),
               new         |-> Count({i \in Copies : ~Op(i).replaced}),
               updated     |-> Count({i \in Copies : Op(i).replaced}),
               bytes       |-> Bytes,
               errors      |-> observed.errors,
               asPlanned   |-> /\ Status = "success" /\ OneWay
                               /\ Count(Copies) = Count(plan.new) + Count(plan.updated)
                               /\ Count(Removals) = Count(plan.deleted)]
    /\ changes' = Listed
    /\ at' = "recorded"
    /\ UNCHANGED <<treeVars, presence, plan, seen, observed, code, activityVars,
                   other, did, exact, burst>>

\* Mutant: only transfers keep a cycle.
QuietForTransfers == row.status = "success" /\ row.transferred = 0

\* A cycle that succeeded, moved nothing and had nothing to complain of.
Quiet ==
    /\ row.status = "success"
    /\ row.transferred = 0 /\ row.deleted = 0 /\ row.errors = 0

\* _notify, _prune_quiet_cycle: the job may be continuous, unless it was saved as
\* a bidirectional one.
Prune ==
    /\ at = "recorded"
    /\ \/ UNCHANGED rowVars
       \/ kind # "both" /\ Quiet /\ row' = NoRow /\ changes' = {}
    /\ at' = "pruned"
    /\ UNCHANGED <<treeVars, presence, plan, seen, observed, code, activityVars, other, did, exact, burst>>

\* The worker's `finally`.  The next run has a row of its own.
End ==
    /\ at = "pruned"
    /\ ForgetActivity("job")
    /\ burst' = IF other.on THEN burst ELSE 0
    /\ at' = "idle"
    /\ plan' = NoPlan /\ seen' = {} /\ observed' = NoLog /\ code' = "ok"
    /\ row' = NoRow /\ changes' = {}
    /\ did' = [f \in Files |-> "nothing"] /\ exact' = TRUE
    /\ UNCHANGED <<treeVars, presence, other>>

Next ==
    \/ UserEdits \/ Check \/ DryRun \/ PlanEnds \/ Begin
    \/ \E f \in Files : CopyFile(f) \/ RemoveFile(f) \/ LeaveFile(f)
    \/ FileError \/ Stats \/ Exit \/ Record \/ Prune \/ End
    \/ OtherBegins \/ OtherMoves \/ OtherStats \/ OtherEnds \/ ResetSession

Spec == Init /\ [][Next]_vars

-----------------------------------------------------------------------------
(* Properties. *)

Row == [status : {"success", "failed", "cancelled"}, transferred : Nat, deleted : Nat,
        archived : Nat, new : Nat, updated : Nat, bytes : Nat, errors : 0..1,
        asPlanned : BOOLEAN]

\* Every variable keeps its type; in particular what is counted of a run is what
\* it last reported, so nothing is counted of it twice (ActivityRecorder).
TypeOK ==
    /\ kind \in Kinds /\ edits \in 0..MaxEdits
    /\ src \in [Files -> 0..2] /\ dst \in [Files -> 0..2]
    /\ at \in {"idle", "checked", "planned"} \cup Busy
    /\ presence \in [source : SUBSET Files, dest : SUBSET Files]
    /\ plan \in [new : SUBSET Files, updated : SUBSET Files, deleted : SUBSET Files,
                  unchanged : Nat]
    /\ seen \subseteq Files
    /\ observed \in [operations : Seq([path : Files, operation : {"copy", "delete", "archive"},
                                       replaced : BOOLEAN]),
                      errors : 0..1, bytes : (0..Count(Files)) \cup {Unseen}]
    /\ code \in {"ok", "error", "killed"}
    /\ row = NoRow \/ row \in Row
    /\ \A c \in changes : c.path \in Files /\ c.action \in {"new", "updated", "deleted", "archived"}
    /\ latest["job"] \in (0..Count(Files)) \cup {Unseen}
    /\ latest["other"] \in (0..MaxBurst) \cup {Unseen}
    /\ counted = Baseline
    /\ session \in Nat /\ burst \in Nat
    /\ other \in [on : BOOLEAN, bytes : 0..MaxBurst]
    /\ did \in [Files -> {"nothing", "new", "updated", "deleted", "archived"}]
    /\ exact \in BOOLEAN

Done(kinds) == {f \in Files : did[f] \in kinds}
Fits == row.transferred + row.deleted <= MaxChanges

\* The cards of a finished run count what rclone did, whatever wording it used.
CardsTell ==
    /\ row.transferred = Count(Done({"new", "updated"}))
    /\ row.deleted = Count(Done({"deleted", "archived"}))
    /\ row.archived = Count(Done({"archived"}))
    /\ ~Archiving =>
          row.new = Count(Done({"new"})) /\ row.updated = Count(Done({"updated"}))
    /\ row.bytes <= row.transferred
    /\ (~OneWay \/ code # "killed") => row.bytes = row.transferred

\* The table agrees with the cards: no file under an action rclone did not take,
\* no file twice, and no file missing that there was room for.
TableTells ==
    /\ \A c \in changes :
          \/ c.action = did[c.path]
          \/ Archiving /\ did[c.path] = "updated" /\ c.action = "new"
    /\ kind # "imported" => \A c, d \in changes : c.path = d.path => c = d
    /\ Fits => {c.path : c \in changes} = Files \ Done({"nothing"})

\* A run that went through, over trees nobody changed since a plan that was
\* captured whole, has done to each file what the plan said of it, and says so.
PlanTold ==
    (OneWay /\ row.status = "success" /\ exact) =>
        /\ row.asPlanned
        /\ plan.new = Done({"new"}) /\ plan.updated = Done({"updated"})
        /\ plan.deleted = Done({"deleted", "archived"})

\* What the row of a run, its table and its plan say is what happened to the
\* files (_reconcile, _absorb, _record, _record_bisync).
RecordTells == row # NoRow => CardsTell /\ TableTells /\ PlanTold

\* The session figure never shows more bytes than have moved since activity
\* began or since it was reset, with two runs reporting cumulative figures, runs
\* that end between reports, and a reset in the middle (ActivityRecorder).
SessionNeverInflated == session <= burst

\* A cycle whose row is dropped did nothing to any file and logged no error: no
\* trace is lost of a run someone will look for (_prune_quiet_cycle).
QuietMovedNothing ==
    [][(at = "recorded" /\ row # NoRow /\ row' = NoRow) =>
           Done({"nothing"}) = Files /\ observed.errors = 0 /\ code = "ok"]_vars
=============================================================================
