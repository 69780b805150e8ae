---------------------------- MODULE Brake_proofs ----------------------------
(***************************************************************************)
(* The brake for any number of files, any percentages and any room for the *)
(* captured output: what resolve_max_delete returns, and that neither a    *)
(* stale nor a cut plan lets a run remove more than was agreed.            *)
(***************************************************************************)
EXTENDS Brake, TLAPS

\* A product of two counts is a count.
LEMMA Product == ASSUME NEW m \in Nat, NEW n \in Nat
                 PROVE  m * n \in Nat
  BY SMT

\* Dividing by 100 upwards.
LEMMA RoundUp ==
    ASSUME NEW x \in Nat
    PROVE  LET k == (x + 99) \div 100 IN
           k \in Nat /\ 100 * k >= x /\ 100 * (k - 1) < x
  BY SMT

\* resolve_max_delete (rclone.py:278) returns the least positive count that is not
\* below the percentage: it is never too tight, and one file less would be.
THEOREM BrakeIsLeast ==
    ASSUME NEW p \in Nat, NEW n \in Nat
    PROVE  LET k == ResolveMaxDelete(p, n) IN
           /\ k \in Nat \ {0}
           /\ 100 * k >= n * p
           /\ k = 1 \/ 100 * (k - 1) < n * p
  <1>1. n * p \in Nat
    BY Product
  <1> DEFINE x == n * p
             k == (x + 99) \div 100
  <1>2. k \in Nat /\ 100 * k >= x /\ 100 * (k - 1) < x
    BY <1>1, RoundUp
  <1>3. ResolveMaxDelete(p, n) = IF k < 1 THEN 1 ELSE k
    BY DEF ResolveMaxDelete
  <1> HIDE DEF x, k
  <1>4. x \in Nat
    BY <1>1 DEF x
  <1> QED
    BY <1>2, <1>3, <1>4 DEF x

-----------------------------------------------------------------------------
(***************************************************************************)
(* Types.                                                                  *)
(***************************************************************************)

USE ConstantsAssumption DEF ConstantsAssumption

\* The threshold is a positive count once an approval is one.
LEMMA AllowedType == TypeOK => Allowed \in Nat
  <1> SUFFICES ASSUME TypeOK PROVE Allowed \in Nat
    OBVIOUS
  <1>1. share \in Nat /\ base["path2"] \in Nat
    BY DEF TypeOK, Sides
  <1>2. ResolveMaxDelete(share, base["path2"]) \in Nat
    BY <1>1, BrakeIsLeast
  <1>3. approved # None => approved \in Nat
    BY DEF TypeOK, Counts
  <1> QED
    BY <1>2, <1>3 DEF Allowed

\* What was captured of n removals is at most n.
LEMMA CapturedBounds ==
    ASSUME NEW n \in Nat, NEW ended \in BOOLEAN, NEW k \in Captured(n, ended)
    PROVE  k \in 0..n
  BY DEF Captured

\* Zero on both sides is within every bound.
LEMMA NothingType == /\ Nothing \in [Sides -> 0..MaxFiles]
                     /\ Nothing \in [Sides -> Nat]
                     /\ 0 \in Counts
                     /\ \A s \in Sides : Nothing[s] = 0
  BY DEF Nothing, Counts

\* The types hold at the start.
LEMMA TypesInit == Init => TypeOK
  <1> SUFFICES ASSUME Init PROVE TypeOK
    OBVIOUS
  <1>1. /\ gone \in [Sides -> 0..MaxFiles] /\ files \in [Sides -> 0..MaxFiles]
        /\ base \in [Sides -> 0..MaxFiles]
        /\ limit \in [Sides -> Nat] /\ removed \in [Sides -> Nat]
        /\ \A s \in Sides : gone[s] <= files[s]
    BY NothingType DEF Init
  <1>2. pending \in Counts /\ seen \in Counts
    BY NothingType DEF Init
  <1> QED
    BY <1>1, <1>2 DEF Init, TypeOK

\* The steps that only move the run on.
LEMMA TypesMove ==
    ASSUME TypeOK,
           \/ PlanFails \/ NotInitialised \/ ResyncStarts \/ BisyncNeedsResync
           \/ BisyncAborts \/ RecordResync \/ SyncEnds \/ BisyncBreaks
           \/ LoseWorkdir \/ EditPct \/ Crash
    PROVE  TypeOK'
  <1>1. /\ pc' \in {"idle", "resyncing", pc}
        /\ pct' \in Pcts
        /\ initialised' \in BOOLEAN
        /\ listing' \in {listing, "lost"}
        /\ UNCHANGED <<kind, tree, refusals, terms, plan, work>>
    BY DEF TypeOK, job, PlanFails, NotInitialised, ResyncStarts, BisyncNeedsResync,
           BisyncAborts, RecordResync, SyncEnds, BisyncBreaks, LoseWorkdir, EditPct, Crash
  <1>2. UNCHANGED <<kind, files, gone, refusals, share, approved, resync, base,
                    pending, complete, seen, limit, removed>>
    BY <1>1 DEF tree, terms, plan, work
  <1> QED
    BY <1>1, <1>2 DEF TypeOK, Counts

\* Every step keeps the types.
LEMMA TypesNext == TypeOK /\ [Next]_vars => TypeOK'
  <1> SUFFICES ASSUME TypeOK, [Next]_vars PROVE TypeOK'
    OBVIOUS
  <1>1. ASSUME NEW n \in Counts \cup {None}, Begin(n), resync' \in BOOLEAN
        PROVE  TypeOK'
    BY <1>1, NothingType DEF TypeOK, Begin, job, tree
  <1>2. CASE Run
    BY <1>1, <1>2 DEF Run
  <1>3. CASE ForceRun
    <2>1. PICK n \in refusals : Begin(n) /\ resync' = FALSE
      BY <1>3 DEF ForceRun
    <2>2. n \in Counts
      BY DEF TypeOK
    <2> QED
      BY <1>1, <2>1, <2>2
  <1>4. CASE FirstSync
    BY <1>1, <1>4 DEF FirstSync
  <1>5. CASE Check
    BY <1>5 DEF TypeOK, Counts, Check, job, tree, terms, work
  <1>6. CASE DryRun
    <2>1. pending' \in 0..MaxFiles
      BY <1>6 DEF DryRun, TypeOK, Sides
    <2>2. PICK ended \in Ended : /\ complete' = (ended /\ pending' <= Capture)
                                 /\ seen' \in Captured(pending', ended)
      BY <1>6 DEF DryRun
    <2>3. ended \in BOOLEAN
      BY DEF Ended
    <2>4. seen' \in 0..pending'
      BY <2>1, <2>2, <2>3, CapturedBounds
    <2>5. pending' \in Counts /\ seen' \in Counts /\ complete' \in BOOLEAN
      <3>1. complete' \in BOOLEAN
        BY <2>2, <2>3
      <3> QED
        BY <2>1, <2>4, <3>1 DEF Counts
    <2>6. pc' = "planned" /\ UNCHANGED <<job, listing, tree, refusals, terms, base, work>>
      BY <1>6 DEF DryRun
    <2> QED
      BY <2>5, <2>6 DEF TypeOK, Counts, job, tree, terms, work
  <1>7. CASE PreflightRefuses
    BY <1>7 DEF TypeOK, PreflightRefuses, Counts, job, tree, terms, plan, work
  <1>8. CASE SyncStarts
    <2>1. limit' \in [Sides -> Nat]
      BY <1>8, AllowedType DEF SyncStarts, Nothing, Sides
    <2> QED
      BY <1>8, <2>1 DEF TypeOK, SyncStarts, Counts, job, tree, terms, plan
  <1>9. CASE BisyncPreflight
    <2>1. Total \in Counts
      BY DEF TypeOK, Total, Counts, Sides
    <2>2. PICK ended \in Ended :
            complete' = (ended /\ listing = "kept" /\ Total <= Capture)
      BY <1>9 DEF BisyncPreflight
    <2>3. complete' \in BOOLEAN
      BY <2>2 DEF Ended
    <2>4. pending' \in Counts /\ seen' \in Counts
      BY <1>9, <2>1 DEF BisyncPreflight, Counts
    <2>5. /\ pc' \in {"idle", "starting"}
          /\ refusals' \subseteq refusals \cup {seen'}
          /\ UNCHANGED <<job, listing, tree, terms, base, work>>
      BY <1>9 DEF BisyncPreflight
    <2> QED
      BY <2>3, <2>4, <2>5 DEF TypeOK, Counts, job, tree, terms, work
  <1>10. CASE BisyncStarts
    BY <1>10 DEF TypeOK, BisyncStarts, Counts, job, tree, terms
  <1>11. CASE ResyncEnds
    BY <1>11 DEF TypeOK, ResyncEnds, Counts, Sides, Nothing, job, terms, plan, work
  <1>12. ASSUME NEW s \in Sides, Remove(s) PROVE TypeOK'
    <2>1. /\ removed' \in [Sides -> Nat]
          /\ gone' \in [Sides -> 0..MaxFiles]
          /\ files' \in [Sides -> 0..MaxFiles]
          /\ \A r \in Sides : gone'[r] <= files'[r]
      BY <1>12 DEF Remove, TypeOK
    <2> QED
      BY <1>12, <2>1 DEF TypeOK, Remove, Counts, job, terms, plan
  <1>13. ASSUME NEW s \in Sides, FilesChange(s) PROVE TypeOK'
    <2>1. PICK n \in 0..MaxFiles : \E g \in 0..n :
            /\ files' = [files EXCEPT ![s] = n]
            /\ gone' = [gone EXCEPT ![s] = g]
      BY <1>13 DEF FilesChange
    <2>2. PICK g \in 0..n : /\ files' = [files EXCEPT ![s] = n]
                            /\ gone' = [gone EXCEPT ![s] = g]
      BY <2>1
    <2>3. /\ gone' \in [Sides -> 0..MaxFiles]
          /\ files' \in [Sides -> 0..MaxFiles]
          /\ \A r \in Sides : gone'[r] <= files'[r]
      BY <2>2 DEF TypeOK
    <2> QED
      BY <1>13, <2>3 DEF TypeOK, FilesChange, Counts, job, terms, plan, work
  <1>14. CASE UNCHANGED vars
    BY <1>14 DEF TypeOK, vars, Counts, job, tree, terms, plan, work
  <1> QED
    BY <1>2, <1>3, <1>4, <1>5, <1>6, <1>7, <1>8, <1>9, <1>10, <1>11, <1>12, <1>13,
       <1>14, TypesMove DEF Next, RunStep

\* The variables keep their types, for any bound on the files.
THEOREM TypeCorrect == Spec => []TypeOK
  BY TypesInit, TypesNext, PTL DEF Spec

-----------------------------------------------------------------------------
(***************************************************************************)
(* What a run removes.                                                     *)
(***************************************************************************)

\* A run that plans has removed nothing and has no dry run's totals before its
\* dry run.
Fresh ==
    /\ pc \in {"begin", "checked", "planned", "starting"} => removed = Nothing
    /\ pc \in {"begin", "checked"} => ~complete
    /\ pc \in {"checked", "planned"} => kind # "bisync"
    /\ pc = "starting" => kind = "bisync"

\* One way: rclone was given the threshold, and stops there.
OneWay ==
    kind = "sync" =>
        /\ removed["path2"] <= Allowed
        /\ pc = "syncing" => limit["path2"] = Allowed
        /\ pc = "planned" /\ complete => seen = pending
        /\ complete /\ pending > Allowed => removed["path2"] = 0 /\ pc # "syncing"

\* Both ways: what rclone set out to remove was within the percentage.
BothWays ==
    kind = "bisync" /\ approved = None =>
        \A s \in Sides : removed[s] <= limit[s] /\ 100 * limit[s] <= share * base[s]

Bounded == TypeOK /\ Fresh /\ OneWay /\ BothWays

\* The steps after which a run removes nothing any more, and those outside it.
Quiet ==
    \/ PlanFails \/ PreflightRefuses \/ NotInitialised \/ ResyncStarts
    \/ BisyncNeedsResync \/ BisyncAborts \/ ResyncEnds \/ RecordResync
    \/ SyncEnds \/ BisyncBreaks \/ LoseWorkdir \/ EditPct \/ Crash
    \/ \E s \in Sides : FilesChange(s)
    \/ UNCHANGED vars

\* They leave all the numbers of the run alone.
LEMMA QuietFrame ==
    Quiet => /\ UNCHANGED <<kind, terms, plan, work>>
             /\ pc' \in {"idle", "resyncing", "resynced", "resyncFailed", pc}
  BY DEF Quiet, PlanFails, PreflightRefuses, NotInitialised, ResyncStarts,
         BisyncNeedsResync, BisyncAborts, ResyncEnds, RecordResync, SyncEnds,
         BisyncBreaks, LoseWorkdir, EditPct, Crash, FilesChange, vars, job

\* A job that never ran has removed nothing.
LEMMA BoundedInit == Init => Bounded
  <1> SUFFICES ASSUME Init PROVE Bounded
    OBVIOUS
  <1>1. TypeOK
    BY TypesInit
  <1>2. Fresh
    BY DEF Init, Fresh
  <1>3. OneWay
    BY <1>1, AllowedType DEF Init, OneWay, Nothing, Sides
  <1>4. BothWays
    BY DEF Init, BothWays, Nothing, Sides
  <1> QED
    BY <1>1, <1>2, <1>3, <1>4 DEF Bounded

\* A run starts afresh.
LEMMA BoundedBegin ==
    ASSUME Bounded, TypeOK', NEW n, Begin(n)
    PROVE  Bounded'
  <1>1. /\ pc' = "begin" /\ kind' = kind /\ ~complete'
        /\ removed' = Nothing /\ limit' = Nothing /\ base' = Nothing /\ share' = pct
    BY DEF Begin, job
  <1>2. Fresh'
    BY <1>1 DEF Fresh
  <1>3. OneWay'
    <2>1. (Allowed \in Nat)'
      BY AllowedType, PTL
    <2> QED
      BY <1>1, <2>1 DEF OneWay, Nothing, Sides
  <1>4. BothWays'
    <2>1. share' \in Nat
      BY <1>1 DEF Bounded, TypeOK
    <2> QED
      BY <1>1, <2>1 DEF BothWays, Nothing
  <1> QED
    BY <1>2, <1>3, <1>4 DEF Bounded

\* Every step keeps what is removed within what rclone was given, and that within
\* what was agreed.
LEMMA BoundedNext == Bounded /\ [Next]_vars => Bounded'
  <1> SUFFICES ASSUME Bounded, [Next]_vars PROVE Bounded'
    OBVIOUS
  <1> USE DEF Bounded
  <1>0. TypeOK'
    BY TypesNext
  <1>a. Allowed \in Nat /\ Allowed' \in Nat
    <2>1. Allowed \in Nat
      BY AllowedType
    <2>2. (TypeOK => Allowed \in Nat)'
      BY AllowedType, PTL
    <2> QED
      BY <1>0, <2>1, <2>2
  <1>1. CASE Run \/ ForceRun \/ FirstSync
    <2>1. PICK n : Begin(n)
      BY <1>1 DEF Run, ForceRun, FirstSync
    <2> QED
      BY <1>0, <2>1, BoundedBegin
  <1>2. CASE Check
    <2>1. /\ pc = "begin" /\ pc' = "checked" /\ kind # "bisync"
          /\ UNCHANGED <<kind, complete, removed>>
      BY <1>2 DEF Check, job, work
    <2>2. Fresh' /\ BothWays'
      BY <2>1 DEF Fresh, BothWays
    <2>3. OneWay'
      BY <1>a, <2>1 DEF Fresh, OneWay, Nothing, Sides
    <2> QED
      BY <1>0, <2>2, <2>3
  <1>3. CASE DryRun
    <2>1. /\ pc = "checked" /\ pc' = "planned"
          /\ UNCHANGED <<kind, share, approved, base, limit, removed>>
      BY <1>3 DEF DryRun, job, terms, work
    <2>2. complete' => seen' = pending'
      BY <1>3 DEF DryRun, Captured
    <2>3. Fresh' /\ BothWays'
      BY <2>1 DEF Fresh, BothWays
    <2>4. removed' = Nothing /\ Nothing["path2"] = 0
      BY <2>1 DEF Fresh, Nothing, Sides
    <2>5. OneWay'
      BY <1>a, <2>1, <2>2, <2>4 DEF OneWay
    <2> QED
      BY <1>0, <2>3, <2>5
  <1>4. CASE SyncStarts
    <2>1. /\ pc = "planned" /\ pc' = "syncing" /\ seen <= Allowed
          /\ limit'["path2"] = Allowed
          /\ UNCHANGED <<kind, share, approved, base, complete, pending, seen, removed>>
      BY <1>4 DEF SyncStarts, job, terms, plan, Nothing, Sides
    <2>2. Allowed' = Allowed
      BY <2>1 DEF Allowed
    <2>3. Fresh' /\ BothWays'
      BY <2>1 DEF Fresh, BothWays
    <2>4. OneWay'
      <3>1. seen \in Nat /\ pending \in Nat
        BY DEF TypeOK, Counts
      <3> QED
        BY <1>a, <2>1, <2>2, <3>1 DEF OneWay
    <2> QED
      BY <1>0, <2>3, <2>4
  <1>5. CASE BisyncPreflight
    <2>1. /\ pc = "begin" /\ pc' \in {"idle", "starting"} /\ kind = "bisync"
          /\ UNCHANGED <<kind, share, approved, base, limit, removed>>
      BY <1>5 DEF BisyncPreflight, job, terms, work
    <2> QED
      BY <1>0, <2>1 DEF Fresh, OneWay, BothWays
  <1>6. CASE BisyncStarts
    <2>1. /\ pc = "starting" /\ pc' = "syncing"
          /\ TooMany => approved # None
          /\ base' = files /\ limit' = gone
          /\ UNCHANGED <<kind, share, approved, complete, removed>>
      BY <1>6 DEF BisyncStarts, job, terms, Forced
    <2>2. kind = "bisync" /\ removed = Nothing
      BY <2>1 DEF Fresh
    <2>3. Fresh' /\ OneWay'
      BY <2>1, <2>2 DEF Fresh, OneWay
    <2>4. ASSUME approved = None, NEW s \in Sides
          PROVE  removed[s] <= gone[s] /\ 100 * gone[s] <= share * files[s]
      <3>1. ~(100 * gone[s] > share * files[s])
        BY <2>1, <2>4 DEF TooMany, BisyncMaxDelete
      <3>2. gone[s] \in Nat /\ files[s] \in Nat /\ share \in Nat
        BY <2>4 DEF TypeOK
      <3>3. share * files[s] \in Nat
        BY <3>2, Product
      <3> QED
        BY <2>2, <3>1, <3>2, <3>3 DEF Nothing
    <2>5. BothWays'
      BY <2>1, <2>4 DEF BothWays
    <2> QED
      BY <1>0, <2>3, <2>5
  <1>7. ASSUME NEW s \in Sides, Remove(s) PROVE Bounded'
    <2>1. /\ pc = "syncing" /\ removed[s] < limit[s]
          /\ removed' = [removed EXCEPT ![s] = @ + 1]
          /\ UNCHANGED <<kind, pc, share, approved, base, pending, complete, seen, limit>>
      BY <1>7 DEF Remove, job, terms, plan
    <2>2. removed \in [Sides -> Nat] /\ limit \in [Sides -> Nat]
      BY DEF TypeOK
    <2>3. \A r \in Sides : removed[r] <= limit[r] => removed'[r] <= limit[r]
      BY <2>1, <2>2
    <2>4. Allowed' = Allowed
      BY <2>1 DEF Allowed
    <2>5. Fresh'
      BY <2>1 DEF Fresh
    <2>6. OneWay'
      <3>1. "path2" \in Sides
        BY DEF Sides
      <3> QED
        BY <2>1, <2>3, <2>4, <3>1 DEF OneWay
    <2>7. BothWays'
      BY <2>1, <2>3 DEF BothWays
    <2> QED
      BY <1>0, <2>5, <2>6, <2>7
  <1>8. CASE Quiet
    <2>1. /\ UNCHANGED <<kind, share, approved, base, pending, complete, seen, limit, removed>>
          /\ pc' \in {"idle", "resyncing", "resynced", "resyncFailed", pc}
      BY <1>8, QuietFrame DEF terms, plan, work
    <2>2. Allowed' = Allowed
      BY <2>1 DEF Allowed
    <2> QED
      BY <1>0, <2>1, <2>2 DEF Fresh, OneWay, BothWays
  <1> QED
    BY <1>1, <1>2, <1>3, <1>4, <1>5, <1>6, <1>7, <1>8 DEF Next, RunStep, Quiet

\* The threshold in terms of the percentage: at most one, or less than one file
\* above it.
LEMMA BoundedAgreed == Bounded => WithinAgreed /\ CapturedExcessRefused
  <1> SUFFICES ASSUME Bounded PROVE WithinAgreed /\ CapturedExcessRefused
    OBVIOUS
  <1> USE DEF Bounded
  <1>0. removed \in [Sides -> Nat] /\ limit \in [Sides -> Nat] /\ "path2" \in Sides
    BY DEF TypeOK, Sides
  <1>1. CapturedExcessRefused
    BY DEF OneWay, CapturedExcessRefused
  <1>2. kind = "sync" /\ approved # None => removed["path2"] <= approved
    BY DEF OneWay, Allowed
  <1>3. ASSUME kind = "sync", approved = None
        PROVE  removed["path2"] <= 1 \/ 100 * (removed["path2"] - 1) < base["path2"] * share
    <2> DEFINE k == ResolveMaxDelete(share, base["path2"])
    <2>1. share \in Nat /\ base["path2"] \in Nat
      BY DEF TypeOK, Sides
    <2>2. base["path2"] * share \in Nat
      BY <2>1, Product
    <2>3. k \in Nat /\ (k = 1 \/ 100 * (k - 1) < base["path2"] * share)
      BY <2>1, BrakeIsLeast
    <2>4. removed["path2"] <= k
      BY <1>3 DEF OneWay, Allowed
    <2>5. removed["path2"] \in Nat
      BY <1>0
    <2> HIDE DEF k
    <2> QED
      BY <2>2, <2>3, <2>4, <2>5
  <1>4. ASSUME kind = "bisync", approved = None, NEW s \in Sides
        PROVE  100 * removed[s] <= share * base[s]
    <2>1. removed[s] <= limit[s] /\ 100 * limit[s] <= share * base[s]
      BY <1>4 DEF BothWays
    <2>2. share \in Nat /\ base[s] \in Nat /\ removed[s] \in Nat /\ limit[s] \in Nat
      BY <1>0, <1>4 DEF TypeOK
    <2>3. share * base[s] \in Nat
      BY <2>2, Product
    <2> QED
      BY <2>1, <2>2, <2>3
  <1> QED
    BY <1>1, <1>2, <1>3, <1>4 DEF WithinAgreed

\* Whatever changes between the plan and the run, and however much of the plan
\* was captured: no run removes more than was agreed.
THEOREM Agreed == Spec => []WithinAgreed
  <1>1. Spec => []Bounded
    BY BoundedInit, BoundedNext, PTL DEF Spec
  <1> QED
    BY <1>1, BoundedAgreed, PTL

\* An excess that was captured whole is refused before rclone is started.
THEOREM Refused == Spec => []CapturedExcessRefused
  <1>1. Spec => []Bounded
    BY BoundedInit, BoundedNext, PTL DEF Spec
  <1> QED
    BY <1>1, BoundedAgreed, PTL

-----------------------------------------------------------------------------
(***************************************************************************)
(* Copies are not refused, and the mark of a first sync is earned.         *)
(***************************************************************************)

\* A copy plans no removal, so there is none to refuse.
Copies == kind = "copy" => refusals = {} /\ (pc = "planned" => seen = 0)

\* A copy's dry run comes to nothing, and nothing is never above the threshold.
LEMMA CopiesNext == TypeOK /\ Copies /\ [Next]_vars => Copies'
  <1> SUFFICES ASSUME TypeOK, Copies, [Next]_vars PROVE Copies'
    OBVIOUS
  <1>1. CASE Run \/ ForceRun \/ FirstSync
    <2>1. pc' = "begin" /\ UNCHANGED <<kind, refusals>>
      BY <1>1 DEF Run, ForceRun, FirstSync, Begin, job
    <2> QED
      BY <2>1 DEF Copies
  <1>2. CASE DryRun
    <2>1. kind = "copy" => pending' = 0
      BY <1>2 DEF DryRun, Operation
    <2>2. kind = "copy" => seen' = 0
      BY <1>2, <2>1 DEF DryRun, Captured
    <2> QED
      BY <1>2, <2>2 DEF Copies, DryRun, job
  <1>3. CASE PreflightRefuses
    <2>1. kind # "copy"
      BY <1>3, AllowedType DEF PreflightRefuses, Copies
    <2> QED
      BY <1>3, <2>1 DEF PreflightRefuses, Copies, job
  <1>4. CASE BisyncPreflight
    BY <1>4 DEF BisyncPreflight, Copies, job
  <1>5. CASE Check \/ SyncStarts \/ BisyncStarts \/ ResyncEnds \/ \E s \in Sides : Remove(s)
    <2>1. UNCHANGED <<kind, refusals, seen>> /\ (pc' = "planned" => pc = "planned")
      BY <1>5 DEF Check, SyncStarts, BisyncStarts, ResyncEnds, Remove, job, plan
    <2> QED
      BY <2>1 DEF Copies
  <1>6. CASE PlanFails \/ NotInitialised \/ ResyncStarts \/ BisyncNeedsResync
             \/ BisyncAborts \/ RecordResync \/ SyncEnds \/ BisyncBreaks
             \/ LoseWorkdir \/ EditPct \/ Crash \/ UNCHANGED vars
             \/ \E s \in Sides : FilesChange(s)
    <2>1. UNCHANGED <<kind, refusals, seen>> /\ (pc' = "planned" => pc = "planned")
      BY <1>6 DEF PlanFails, NotInitialised, ResyncStarts, BisyncNeedsResync,
         BisyncAborts, RecordResync, SyncEnds, BisyncBreaks, LoseWorkdir, EditPct,
         Crash, FilesChange, vars, job, plan
    <2> QED
      BY <2>1 DEF Copies
  <1> QED
    BY <1>1, <1>2, <1>3, <1>4, <1>5, <1>6 DEF Next, RunStep

\* A job that cannot remove anything is never blocked for removing too much,
\* however its plan was captured.
THEOREM CopyRuns == Spec => []CopyNeverRefused
  <1>1. Init => Copies
    BY DEF Init, Copies
  <1>2. TypeOK /\ Copies => CopyNeverRefused
    BY DEF Copies, CopyNeverRefused
  <1> QED
    BY <1>1, <1>2, TypeCorrect, CopiesNext, PTL DEF Spec

\* The mark is about to be set only where a listing was made; it may be lost.
Marks == /\ InitialisedMeansSynced
         /\ pc = "resynced" => listing # "none"

\* Only a resync that succeeded leads to the mark, and no step unmakes a listing
\* without a trace.
LEMMA MarksNext == Marks /\ [Next]_vars => Marks'
  <1> SUFFICES ASSUME Marks, [Next]_vars PROVE Marks'
    OBVIOUS
  <1> USE DEF Marks, InitialisedMeansSynced
  <1>1. CASE ResyncEnds
    BY <1>1 DEF ResyncEnds, job
  <1>2. CASE RecordResync
    BY <1>2 DEF RecordResync
  <1>3. CASE BisyncNeedsResync \/ BisyncBreaks \/ LoseWorkdir
    BY <1>3 DEF BisyncNeedsResync, BisyncBreaks, LoseWorkdir, job
  <1>4. CASE Run \/ ForceRun \/ FirstSync
    BY <1>4 DEF Run, ForceRun, FirstSync, Begin, job
  <1>5. CASE Check \/ DryRun \/ PlanFails \/ PreflightRefuses \/ SyncStarts
             \/ NotInitialised \/ BisyncPreflight \/ ResyncStarts \/ BisyncAborts
             \/ BisyncStarts \/ SyncEnds \/ EditPct \/ Crash \/ UNCHANGED vars
             \/ (\E s \in Sides : Remove(s)) \/ \E s \in Sides : FilesChange(s)
    <2>1. UNCHANGED <<initialised, listing>> /\ (pc' = "resynced" => pc = "resynced")
      BY <1>5 DEF Check, DryRun, PlanFails, PreflightRefuses, SyncStarts,
         NotInitialised, BisyncPreflight, ResyncStarts, BisyncAborts, BisyncStarts,
         SyncEnds, EditPct, Crash, Remove, FilesChange, vars, job
    <2> QED
      BY <2>1
  <1> QED
    BY <1>1, <1>2, <1>3, <1>4, <1>5 DEF Next, RunStep

\* bisync_initialized is only ever set for a job that once had a first sync.
THEOREM MarkEarned == Spec => []InitialisedMeansSynced
  <1>1. Init => Marks
    BY DEF Init, Marks, InitialisedMeansSynced
  <1>2. Marks => InitialisedMeansSynced
    BY DEF Marks
  <1> QED
    BY <1>1, <1>2, MarksNext, PTL DEF Spec
=============================================================================
