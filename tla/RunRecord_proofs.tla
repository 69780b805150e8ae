-------------------------- MODULE RunRecord_proofs --------------------------
(***************************************************************************)
(* What is told of a run, for any finite set of files, any room in the     *)
(* table of changes and any number of edits by users: the row, the table   *)
(* and the plan say what happened to the files, the session figure never   *)
(* shows more than has moved, and a cycle that is dropped moved nothing.   *)
(***************************************************************************)
EXTENDS RunRecord, FiniteSetTheorems, SequenceTheorems, TLAPS

Places == DOMAIN observed.operations

\* What an operation in the log says of the file it names.  With a backup
\* directory a replaced file may be logged as new.
Tells(op, d) ==
    /\ op.operation = "copy" <=> d \in {"new", "updated"}
    /\ op.operation = "delete" <=> d = "deleted"
    /\ op.operation = "archive" <=> d = "archived"
    /\ op.operation = "copy" /\ op.replaced => d = "updated"
    /\ op.operation = "copy" /\ ~op.replaced => d = "new" \/ Archiving

\* The log has one operation for every file rclone has done something with.
LogTells ==
    /\ \A i \in Places : Tells(Op(i), did[Op(i).path])
    /\ \A i, j \in Places : Op(i).path = Op(j).path => i = j
    /\ \A f \in Files : did[f] # "nothing" => \E i \in Places : Op(i).path = f

\* A run comes to every file once.
OnceEach ==
    /\ \A f \in Files \ seen : did[f] = "nothing"
    /\ at \in Busy \ {"syncing"} /\ code = "ok" => seen = Files

\* What stays is only what a backup directory is for.
Kept == ~Archiving => \A f \in Files : did[f] # "archived"

\* Before rclone runs nothing of the run is there.
Fresh ==
    /\ at \notin Busy => /\ observed = NoLog /\ seen = {} /\ code = "ok"
                         /\ \A f \in Files : did[f] = "nothing"
    /\ at \notin {"recorded", "pruned"} => row = NoRow /\ changes = {}

\* rclone's total lags behind what has moved, and is right once it has ended by itself.
BytesLag ==
    /\ observed.bytes # Unseen => observed.bytes <= Moved
    /\ at \in Busy \ {"syncing"} /\ code # "killed" => observed.bytes = Moved

\* What the plan says of a file that rclone has yet to come to is what rclone
\* will find, and of the others what it has done.
PlanStands ==
    OneWay /\ exact =>
        /\ at = "checked" => presence.dest = {f \in Files : dst[f] # 0}
        /\ at = "planned" \/ at \in Busy =>
              /\ \A f \in Files \ seen :
                    /\ f \in plan.new <=> ToCopy(f) /\ dst[f] = 0
                    /\ f \in plan.updated <=> ToCopy(f) /\ dst[f] # 0
                    /\ f \in plan.deleted <=> ToRemove(f)
              /\ \A f \in seen :
                    /\ f \in plan.new <=> did[f] = "new"
                    /\ f \in plan.updated <=> did[f] = "updated"
                    /\ f \in plan.deleted <=> did[f] \in {"deleted", "archived"}

\* The session and what has moved without being reported have moved since the
\* burst began; a run that is over has reported nothing.
Unaccounted == (Moved - counted["job"]) + (other.bytes - counted["other"])
SessionCovered ==
    /\ at \notin Busy => latest["job"] = Unseen
    /\ ~other.on => latest["other"] = Unseen /\ other.bytes = 0
    /\ latest["job"] # Unseen => latest["job"] <= Moved
    /\ latest["other"] # Unseen => latest["other"] <= other.bytes
    /\ session + Unaccounted <= burst

\* The row is about this run's log.
RowOfRun ==
    row # NoRow => /\ row.errors = observed.errors
                   /\ row.status = "success" => code = "ok"

Typed == TypeOK /\ latest = [r \in Runs |-> latest[r]]

\* What the files, the log, the plan and the row say of each other.
Told ==
    /\ LogTells /\ OnceEach /\ Kept /\ Fresh /\ BytesLag /\ PlanStands
    /\ RowOfRun /\ RecordTells

RecordInv == Typed /\ Told /\ SessionCovered

-----------------------------------------------------------------------------
(* Counts. *)

\* There are finitely many files; so of each set of them there is a count.
LEMMA FilesCounted ==
  /\ Count(Files) \in Nat /\ MaxBurst \in Nat /\ Unseen \in Nat
  /\ Unseen > Count(Files) /\ Unseen > MaxBurst
  /\ \A S \in SUBSET Files : IsFiniteSet(S) /\ Count(S) \in 0..Count(Files)
<1>1. Cardinality(Files) \in Nat
  BY FS_CardinalityType, ConstantsAssumption DEF ConstantsAssumption
<1>2. ASSUME NEW S \in SUBSET Files PROVE IsFiniteSet(S) /\ Cardinality(S) \in 0..Cardinality(Files)
  <2>1. IsFiniteSet(S) /\ Cardinality(S) <= Cardinality(Files)
    BY FS_Subset, ConstantsAssumption DEF ConstantsAssumption
  <2>2. Cardinality(S) \in Nat
    BY <2>1, FS_CardinalityType
  <2> QED
    BY <1>1, <2>1, <2>2
<1> QED
  BY <1>1, <1>2, ConstantsAssumption DEF ConstantsAssumption, Unseen, Count

\* What has moved is some of the files.
LEMMA MovedCounted == Moved \in Nat /\ Moved <= Count(Files) /\ Moved # Unseen
<1>1. {f \in Files : did[f] \in {"new", "updated"}} \in SUBSET Files
  OBVIOUS
<1> QED
  BY <1>1, FilesCounted DEF Moved

\* Two finite sets between which a function is one to one have as many members.
LEMMA SameCount ==
  ASSUME NEW S, IsFiniteSet(S), NEW T, NEW g \in [S -> T],
         \A x, y \in S : g[x] = g[y] => x = y,
         \A t \in T : \E x \in S : g[x] = t
  PROVE  IsFiniteSet(T) /\ Count(T) = Count(S)
<1>1. g \in Bijection(S, T)
  BY DEF Bijection, Injection, Surjection, IsInjective
<1>2. ExistsBijection(S, T)
  BY <1>1 DEF ExistsBijection
<1> QED
  BY <1>2, FS_Bijection DEF Count

\* Of two sets without a common member the counts add up.
LEMMA ApartCount ==
  ASSUME NEW S, IsFiniteSet(S), NEW T, IsFiniteSet(T), S \cap T = {}
  PROVE  IsFiniteSet(S \cup T) /\ Count(S \cup T) = Count(S) + Count(T)
<1>1. /\ IsFiniteSet(S \cup T)
      /\ Cardinality(S \cup T) = Cardinality(S) + Cardinality(T) - Cardinality(S \cap T)
  BY FS_Union
<1>2. Cardinality(S \cap T) = 0
  BY FS_EmptySet
<1>3. Cardinality(S) \in Nat /\ Cardinality(T) \in Nat
  BY FS_CardinalityType
<1> QED
  BY <1>1, <1>2, <1>3 DEF Count

\* One file more is copied.
LEMMA MovesOne ==
  ASSUME NEW f \in Files, did[f] = "nothing", did \in [Files -> {"nothing", "new", "updated", "deleted", "archived"}],
         NEW d \in {"new", "updated"}, did' = [did EXCEPT ![f] = d]
  PROVE  Moved' = Moved + 1
<1> DEFINE S == {g \in Files : did[g] \in {"new", "updated"}}
<1>1. IsFiniteSet(S) /\ f \notin S
  BY FilesCounted
<1>2. {g \in Files : did'[g] \in {"new", "updated"}} = S \cup {f}
  OBVIOUS
<1>3. Cardinality(S \cup {f}) = Cardinality(S) + 1
  BY <1>1, FS_AddElement
<1> QED
  BY <1>2, <1>3 DEF Moved, Count

\* None is.
LEMMA MovesNone ==
  ASSUME \A f \in Files : did'[f] \in {"new", "updated"} <=> did[f] \in {"new", "updated"}
  PROVE  Moved' = Moved
<1>1. {f \in Files : did'[f] \in {"new", "updated"}} = {f \in Files : did[f] \in {"new", "updated"}}
  OBVIOUS
<1> QED
  BY <1>1 DEF Moved, Count

LEMMA NothingMoved ==
  ASSUME \A f \in Files : did[f] = "nothing"
  PROVE  Moved = 0
<1>1. {f \in Files : did[f] \in {"new", "updated"}} = {}
  OBVIOUS
<1> QED
  BY <1>1, FS_EmptySet DEF Moved, Count

-----------------------------------------------------------------------------
(* The log. *)

Operations == [path : Files, operation : {"copy", "delete", "archive"}, replaced : BOOLEAN]

\* A copy adds one operation, however rclone words it.
LEMMA CopyLogged ==
  ASSUME TypeOK, NEW f \in Files, NEW new \in BOOLEAN, Absorb(f, <<CopyLine(f, new)>>)
  PROVE  LET op == [path |-> f, operation |-> "copy", replaced |-> ~new] IN
         observed' = [observed EXCEPT !.operations = Append(observed.operations, op)]
<1> DEFINE line == CopyLine(f, new)
           op == [path |-> f, operation |-> "copy", replaced |-> ~new]
<1>1. /\ line \in Copied
      /\ line \in {"Copied (new)", "Multi-thread Copied (new)"} <=> new
  BY DEF CopyLine, Copied
<1>2. Operation(f, line) = <<op>>
  <2>1. CASE new
    BY <1>1, <2>1 DEF Operation
  <2>2. CASE ~new
    <3>1. line \notin {"Copied (new)", "Multi-thread Copied (new)"} /\ line \in Copied
      BY <1>1, <2>2
    <3>2. op = [path |-> f, operation |-> "copy", replaced |-> TRUE]
      BY <2>2
    <3> HIDE DEF line, op
    <3>3. Operation(f, line) =
            <<[path |-> f, operation |-> "copy",
               replaced |-> line \notin {"Copied (new)", "Multi-thread Copied (new)"}]>>
      BY <3>1 DEF Operation, Copied
    <3>4. (line \notin {"Copied (new)", "Multi-thread Copied (new)"}) = TRUE
      BY <3>1
    <3> QED
      BY <3>2, <3>3, <3>4
  <2> QED
    BY <2>1, <2>2
<1>3. observed.operations \in Seq(Operations) /\ op \in Operations
  BY DEF TypeOK, Operations
<1>4. observed' = [observed EXCEPT !.operations = observed.operations \o <<op>> \o <<>>]
  <2>1. Absorb(f, <<line>>)
    OBVIOUS
  <2> HIDE DEF line, op
  <2>2. <<line>>[1] = line /\ ~(Len(<<line>>) > 1)
    OBVIOUS
  <2>3. Absorbed(f, <<line>>) = observed.operations \o <<op>> \o <<>>
    BY <1>2, <2>2 DEF Absorbed
  <2> QED
    BY <2>1, <2>3 DEF Absorb
<1>5. observed.operations \o <<op>> \o <<>> = Append(observed.operations, op)
  <2> HIDE DEF op
  <2> QED
    BY <1>3
<1> QED
  BY <1>4, <1>5

\* A removal adds one operation, of the two lines an archived file has as well.
LEMMA RemovalLogged ==
  ASSUME TypeOK, NEW f \in Files, Absorb(f, RemoveLines)
  PROVE  LET op == [path |-> f, operation |-> IF Archiving THEN "archive" ELSE "delete",
                    replaced |-> FALSE]
         IN  observed' = [observed EXCEPT !.operations = Append(observed.operations, op)]
<1> DEFINE op == [path |-> f, operation |-> IF Archiving THEN "archive" ELSE "delete",
                  replaced |-> FALSE]
<1>1. observed.operations \in Seq(Operations) /\ op \in Operations
  BY DEF TypeOK, Operations
<1>2. CASE Archiving
  <2>1. Operation(f, "Moved (server-side)") = <<>> /\ Operation(f, "Moved into backup dir") = <<op>>
    BY <1>2 DEF Operation, Copied
  <2>2. observed' = [observed EXCEPT !.operations = observed.operations \o <<>> \o <<op>>]
    <3>1. RemoveLines = <<"Moved (server-side)", "Moved into backup dir">>
      BY <1>2 DEF RemoveLines
    <3> HIDE DEF op
    <3>2. RemoveLines[1] = "Moved (server-side)" /\ RemoveLines[2] = "Moved into backup dir"
      BY <3>1
    <3>4. Len(RemoveLines) > 1
      <4>1. Len(RemoveLines) = 2
        BY <3>1
      <4> QED
        BY <4>1
    <3>3. Absorbed(f, RemoveLines) = observed.operations \o <<>> \o <<op>>
      BY <2>1, <3>2, <3>4 DEF Absorbed
    <3> QED
      BY <3>3 DEF Absorb
  <2> HIDE DEF op
  <2>3. observed.operations \o <<>> \o <<op>> = Append(observed.operations, op)
    BY <1>1
  <2> QED
    BY <2>2, <2>3 DEF op
<1>3. CASE ~Archiving
  <2>1. Operation(f, "Deleted") = <<op>>
    BY <1>3 DEF Operation, Copied
  <2>2. observed' = [observed EXCEPT !.operations = observed.operations \o <<op>> \o <<>>]
    <3>1. RemoveLines = <<"Deleted">>
      BY <1>3 DEF RemoveLines
    <3> HIDE DEF op
    <3>2. RemoveLines[1] = "Deleted" /\ ~(Len(RemoveLines) > 1)
      BY <3>1
    <3>3. Absorbed(f, RemoveLines) = observed.operations \o <<op>> \o <<>>
      BY <2>1, <3>2 DEF Absorbed
    <3> QED
      BY <3>3 DEF Absorb
  <2> HIDE DEF op
  <2>3. observed.operations \o <<op>> \o <<>> = Append(observed.operations, op)
    BY <1>1
  <2> QED
    BY <2>2, <2>3 DEF op
<1> QED
  BY <1>2, <1>3

\* An operation that tells what was done with a file rclone had done nothing with.
LEMMA LogGrows ==
  ASSUME TypeOK, LogTells, NEW f \in Files, did[f] = "nothing", NEW op \in Operations, op.path = f,
         NEW d \in {"new", "updated", "deleted", "archived"}, Tells(op, d), kind' = kind,
         observed' = [observed EXCEPT !.operations = Append(observed.operations, op)],
         did' = [did EXCEPT ![f] = d]
  PROVE  LogTells'
<1> USE DEF Op, Places
<1> DEFINE ops == observed.operations
           n == Len(ops)
<1>1. /\ ops \in Seq(Operations) /\ observed'.operations = Append(ops, op)
      /\ did \in [Files -> {"nothing", "new", "updated", "deleted", "archived"}]
  BY DEF TypeOK, Operations
<1>2. /\ Places = 1..n /\ Places' = 1..(n + 1) /\ n \in Nat
      /\ \A i \in 1..n : observed'.operations[i] = ops[i] /\ Op(i) \in Operations /\ i # n + 1
      /\ observed'.operations[n + 1] = op
  <2>1. n \in Nat /\ Len(Append(ops, op)) = n + 1 /\ Append(ops, op)[n + 1] = op
    BY <1>1
  <2>2. \A i \in 1..n : ops[i] \in Operations /\ Append(ops, op)[i] = ops[i] /\ i # n + 1
    BY <1>1, <2>1
  <2>3. DOMAIN ops = 1..n /\ DOMAIN Append(ops, op) = 1..(n + 1)
    BY <1>1, <2>1
  <2>4. Places = 1..n /\ Places' = 1..(n + 1) /\ observed'.operations[n + 1] = op
    BY <1>1, <2>1, <2>3
  <2>5. \A i \in 1..n : observed'.operations[i] = ops[i] /\ Op(i) \in Operations
    BY <1>1, <2>2
  <2> QED
    BY <2>1, <2>2, <2>4, <2>5
<1>3. \A i \in 1..n : Op(i).path \in Files /\ Op(i).path # f
  <2> TAKE i \in 1..n
  <2>1. Op(i).path \in Files /\ Op(i).operation \in {"copy", "delete", "archive"}
    BY <1>2 DEF Operations
  <2>2. Tells(Op(i), did[Op(i).path])
    BY <1>2 DEF LogTells
  <2> QED
    BY <2>1, <2>2 DEF Tells
<1>4. \A i \in 1..n : did'[Op(i).path] = did[Op(i).path]
  BY <1>1, <1>3
<1>5. did'[f] = d
  BY <1>1
<1>6. Archiving' = Archiving
  BY DEF Archiving
<1>7. \A i \in Places' : Tells(Op(i), did[Op(i).path])'
  <2> TAKE i \in Places'
  <2>1. CASE i = n + 1
    BY <2>1, <1>2, <1>5, <1>6 DEF Tells
  <2>2. CASE i \in 1..n
    <3>1. Tells(Op(i), did[Op(i).path])
      BY <2>2, <1>2 DEF LogTells
    <3>2. observed'.operations[i] = ops[i] /\ did'[Op(i).path] = did[Op(i).path]
      BY <2>2, <1>2, <1>4
    <3> QED
      BY <3>1, <3>2, <1>6 DEF Tells
  <2> QED
    BY <1>2, <2>1, <2>2
<1>8. \A i, j \in Places' : Op(i)'.path = Op(j)'.path => i = j
  BY <1>2, <1>3 DEF LogTells
<1>9. \A g \in Files : did'[g] # "nothing" => \E i \in Places' : Op(i)'.path = g
  <2> TAKE g \in Files
  <2>1. CASE g = f
    <3>1. n + 1 \in Places' /\ observed'.operations[n + 1].path = g
      BY <2>1, <1>2
    <3> QED
      BY <3>1
  <2>2. CASE g # f
    <3>1. did'[g] = did[g]
      BY <2>2, <1>1
    <3> QED
      BY <3>1, <1>2 DEF LogTells
  <2> QED
    BY <2>1, <2>2
<1> QED
  BY <1>7, <1>8, <1>9 DEF LogTells

-----------------------------------------------------------------------------
(* ActivityRecorder and the session. *)

ActivityTyped ==
    /\ latest = [r \in Runs |-> latest[r]]
    /\ latest["job"] \in (0..Count(Files)) \cup {Unseen}
    /\ latest["other"] \in (0..MaxBurst) \cup {Unseen}
    /\ counted = Baseline
    /\ session \in Nat /\ burst \in Nat
    /\ other \in [on : BOOLEAN, bytes : 0..MaxBurst]

\* What is counted of a run is what it last reported.
LEMMA CountedIsReported ==
  ASSUME ActivityTyped
  PROVE  /\ counted = [r \in Runs |-> counted[r]]
         /\ \A r \in Runs : counted[r] = IF latest[r] = Unseen THEN 0 ELSE latest[r]
         /\ \A r \in Runs : latest[r] \in Nat /\ counted[r] \in Nat
         /\ other.bytes \in Nat /\ other.bytes # Unseen
<1>1. \A r \in Runs : counted[r] = IF latest[r] = Unseen THEN 0 ELSE latest[r]
  BY DEF ActivityTyped, Baseline
<1>2. \A r \in Runs : latest[r] \in Nat
  BY FilesCounted DEF ActivityTyped, Runs
<1>3. counted = [r \in Runs |-> counted[r]]
  BY DEF ActivityTyped, Baseline
<1> QED
  BY <1>1, <1>2, <1>3, FilesCounted DEF ActivityTyped

\* A report of the job moves what it had not yet reported into the session.
LEMMA JobReports ==
  ASSUME ActivityTyped, SessionCovered, at \in Busy, at' \in Busy,
         RecordActivity("job", Moved), UNCHANGED <<did, other, burst>>
  PROVE  ActivityTyped' /\ SessionCovered'
<1> USE DEF Runs
<1>1. Moved' = Moved /\ Moved \in Nat /\ Moved <= Count(Files) /\ Moved # Unseen
  BY MovesNone, MovedCounted
<1>2. /\ latest' = [latest EXCEPT !["job"] = Moved] /\ counted' = [counted EXCEPT !["job"] = Moved]
      /\ session' = session + Increment("job", Moved)
  BY DEF RecordActivity
<1>3. /\ latest'["job"] = Moved /\ latest'["other"] = latest["other"]
      /\ counted'["job"] = Moved /\ counted'["other"] = counted["other"]
      /\ latest' = [r \in Runs |-> latest'[r]] /\ counted' = [r \in Runs |-> counted'[r]]
  BY <1>2, CountedIsReported DEF ActivityTyped
<1>4. counted["job"] <= Moved
  BY <1>1, CountedIsReported DEF SessionCovered
<1>5. session' = session + (Moved - counted["job"]) /\ session' \in Nat
  BY <1>1, <1>2, <1>4, CountedIsReported DEF Increment, ActivityTyped
<1>6. counted' = Baseline'
  BY <1>1, <1>3, CountedIsReported DEF Baseline
<1>7. ActivityTyped'
  BY <1>1, <1>3, <1>5, <1>6, FilesCounted DEF ActivityTyped
<1>8. session' + Unaccounted' <= burst'
  BY <1>1, <1>3, <1>5, CountedIsReported DEF SessionCovered, Unaccounted, ActivityTyped
<1> QED
  BY <1>1, <1>3, <1>7, <1>8, FilesCounted DEF SessionCovered, ActivityTyped

\* The same for the other run.
LEMMA OtherReports ==
  ASSUME ActivityTyped, SessionCovered, other.on, at' = at,
         RecordActivity("other", other.bytes), UNCHANGED <<did, other, burst>>
  PROVE  ActivityTyped' /\ SessionCovered'
<1> USE DEF Runs
<1>1. Moved' = Moved /\ Moved \in Nat
  BY MovesNone, MovedCounted
<1>2. /\ latest' = [latest EXCEPT !["other"] = other.bytes]
      /\ counted' = [counted EXCEPT !["other"] = other.bytes]
      /\ session' = session + Increment("other", other.bytes)
  BY DEF RecordActivity
<1>3. /\ latest'["other"] = other.bytes /\ latest'["job"] = latest["job"]
      /\ counted'["other"] = other.bytes /\ counted'["job"] = counted["job"]
      /\ latest' = [r \in Runs |-> latest'[r]] /\ counted' = [r \in Runs |-> counted'[r]]
  BY <1>2, CountedIsReported DEF ActivityTyped
<1>4. counted["other"] <= other.bytes
  BY CountedIsReported DEF SessionCovered
<1>5. session' = session + (other.bytes - counted["other"]) /\ session' \in Nat
  BY <1>2, <1>4, CountedIsReported DEF Increment, ActivityTyped
<1>6. counted' = Baseline'
  BY <1>3, CountedIsReported DEF Baseline
<1>7. ActivityTyped'
  BY <1>3, <1>5, <1>6, FilesCounted DEF ActivityTyped
<1>8. session' + Unaccounted' <= burst'
  BY <1>1, <1>3, <1>5, CountedIsReported DEF SessionCovered, Unaccounted, ActivityTyped
<1> QED
  BY <1>1, <1>3, <1>7, <1>8, CountedIsReported DEF SessionCovered, ActivityTyped

\* A run that ends is forgotten with what it has not reported; the last one that
\* had reported takes the session with it, whatever a silent one has moved.
LEMMA Forgets ==
  ASSUME ActivityTyped, NEW r \in Runs, ForgetActivity(r)
  PROVE  /\ latest' = [q \in Runs |-> IF q = r THEN Unseen ELSE latest[q]]
         /\ counted' = [q \in Runs |-> IF q = r THEN 0 ELSE counted[q]]
         /\ \/ session' = session
            \/ session' = 0 /\ \A q \in Runs \ {r} : latest[q] = Unseen
         /\ (\A q \in Runs \ {r} : latest[q] = Unseen) => session' = 0
<1>1. latest' = [q \in Runs |-> IF q = r THEN Unseen ELSE latest[q]]
  BY DEF ForgetActivity, ActivityTyped
<1>2. CASE \A q \in Runs \ {r} : latest[q] = Unseen
  <2>1. \A q \in Runs \ {r} : counted[q] = 0
    BY <1>2, CountedIsReported
  <2>2. session' = 0 /\ counted' = [q \in Runs |-> 0]
    BY <1>2 DEF ForgetActivity
  <2> QED
    BY <1>1, <1>2, <2>1, <2>2
<1>3. CASE ~(\A q \in Runs \ {r} : latest[q] = Unseen)
  <2>1. counted' = [counted EXCEPT ![r] = 0] /\ session' = session
    BY <1>3 DEF ForgetActivity
  <2>2. counted = [q \in Runs |-> counted[q]]
    BY CountedIsReported
  <2> QED
    BY <1>1, <1>3, <2>1, <2>2
<1> QED
  BY <1>2, <1>3

LEMMA JobForgets ==
  ASSUME ActivityTyped, SessionCovered, ForgetActivity("job"), UNCHANGED other,
         at' \notin Busy, Moved' = 0, burst' = IF other.on THEN burst ELSE 0
  PROVE  ActivityTyped' /\ SessionCovered'
<1> USE DEF Runs
<1>1. Moved \in Nat
  BY MovedCounted
<1>2. /\ latest'["job"] = Unseen /\ latest'["other"] = latest["other"]
      /\ counted'["job"] = 0 /\ counted'["other"] = counted["other"]
      /\ latest' = [q \in Runs |-> latest'[q]] /\ counted' = [q \in Runs |-> counted'[q]]
  BY Forgets
<1>3. /\ session' \in {0, session}
      /\ latest["other"] = Unseen => session' = 0
  BY Forgets
<1>4. ActivityTyped'
  <2>1. counted' = Baseline'
    BY <1>2, CountedIsReported DEF Baseline
  <2>2. session' \in Nat /\ burst' \in Nat
    BY <1>3 DEF ActivityTyped
  <2> QED
    BY <1>2, <2>1, <2>2, FilesCounted DEF ActivityTyped
<1>5. session' + Unaccounted' <= burst'
  <2>1. Unaccounted' = other.bytes - counted["other"]
    BY <1>2, CountedIsReported DEF Unaccounted
  <2>2. CASE other.on
    <3>1. counted["job"] <= Moved
      BY <1>1, CountedIsReported DEF SessionCovered
    <3> QED
      BY <1>1, <1>3, <2>1, <2>2, <3>1, CountedIsReported DEF SessionCovered, Unaccounted, ActivityTyped
  <2>3. CASE ~other.on
    <3>1. session' = 0 /\ other.bytes = 0 /\ counted["other"] = 0
      BY <1>3, <2>3, CountedIsReported DEF SessionCovered
    <3> QED
      BY <2>1, <2>3, <3>1
  <2> QED
    BY <2>2, <2>3
<1> QED
  BY <1>2, <1>4, <1>5 DEF SessionCovered

LEMMA OtherForgets ==
  ASSUME ActivityTyped, SessionCovered, ForgetActivity("other"), UNCHANGED <<at, did>>,
         other' = [on |-> FALSE, bytes |-> 0], at \notin Busy => Moved = 0,
         burst' = IF at \in Busy THEN burst ELSE 0
  PROVE  ActivityTyped' /\ SessionCovered'
<1> USE DEF Runs
<1>1. Moved' = Moved /\ Moved \in Nat
  BY MovesNone, MovedCounted
<1>2. /\ latest'["other"] = Unseen /\ latest'["job"] = latest["job"]
      /\ counted'["other"] = 0 /\ counted'["job"] = counted["job"]
      /\ latest' = [q \in Runs |-> latest'[q]] /\ counted' = [q \in Runs |-> counted'[q]]
  BY Forgets
<1>3. /\ session' \in {0, session}
      /\ latest["job"] = Unseen => session' = 0
  BY Forgets
<1>4. ActivityTyped'
  <2>1. counted' = Baseline'
    BY <1>2, CountedIsReported DEF Baseline
  <2>2. session' \in Nat /\ burst' \in Nat
    BY <1>3 DEF ActivityTyped
  <2> QED
    BY <1>2, <2>1, <2>2, FilesCounted DEF ActivityTyped
<1>5. session' + Unaccounted' <= burst'
  <2>1. Unaccounted' = Moved - counted["job"]
    BY <1>1, <1>2, CountedIsReported DEF Unaccounted
  <2>2. CASE at \in Busy
    <3>1. counted["other"] <= other.bytes
      BY CountedIsReported DEF SessionCovered
    <3>2. burst' = burst /\ counted["job"] \in Nat
      BY <2>2, CountedIsReported
    <3>3. counted["job"] <= Moved
      BY <1>1, CountedIsReported DEF SessionCovered
    <3> QED
      BY <1>1, <1>3, <2>1, <3>1, <3>2, <3>3, CountedIsReported DEF SessionCovered, Unaccounted, ActivityTyped
  <2>3. CASE at \notin Busy
    <3>1. session' = 0 /\ Moved = 0 /\ counted["job"] = 0
      BY <1>3, <2>3, CountedIsReported DEF SessionCovered
    <3> QED
      BY <2>1, <2>3, <3>1
  <2> QED
    BY <2>2, <2>3
<1> QED
  BY <1>1, <1>2, <1>4, <1>5 DEF SessionCovered

\* A reset in the middle: what has been reported stays out, the rest is to come.
LEMMA Resets ==
  ASSUME ActivityTyped, SessionCovered, ResetSession, at \notin Busy => Moved = 0
  PROVE  ActivityTyped' /\ SessionCovered'
<1> USE DEF Runs
<1>1. Moved' = Moved /\ Moved \in Nat
  BY MovesNone, MovedCounted DEF ResetSession
<1>2. counted' = counted /\ session' = 0 /\ UNCHANGED <<latest, other, at>>
  BY DEF ResetSession, ActivityTyped, runVars
<1>3. /\ (IF at \in Busy THEN Unreported("job", Moved) ELSE 0) = Moved - counted["job"]
      /\ (IF other.on THEN Unreported("other", other.bytes) ELSE 0) = other.bytes - counted["other"]
  BY <1>1, CountedIsReported DEF Unreported, SessionCovered
<1>4. burst' = Unaccounted
  BY <1>3 DEF ResetSession, Unaccounted
<1>5. Unaccounted' = Unaccounted
  BY <1>1, <1>2 DEF Unaccounted
<1>6. Unaccounted \in Nat
  BY <1>1, CountedIsReported DEF Unaccounted, SessionCovered
<1>7. Baseline' = Baseline
  BY <1>2 DEF Baseline
<1> QED
  BY <1>1, <1>2, <1>4, <1>5, <1>6, <1>7 DEF ActivityTyped, SessionCovered

\* What moves is part of the burst before anything reports it.
LEMMA Moves ==
  ASSUME ActivityTyped, SessionCovered, UNCHANGED <<latest, counted, session>>,
         at' = at \/ (at' \in Busy /\ at \in Busy) \/ latest["job"] = Unseen,
         Moved' - Moved \in Nat,
         other' \in [on : BOOLEAN, bytes : 0..MaxBurst], other.on => other'.on,
         ~other'.on => other'.bytes = 0,
         other'.bytes - other.bytes \in Nat,
         burst' = burst + (Moved' - Moved) + (other'.bytes - other.bytes)
  PROVE  ActivityTyped' /\ SessionCovered'
<1> USE DEF Runs
<1>1. Moved \in Nat /\ Moved' \in Nat
  <2>1. Moved \in Nat
    BY MovedCounted
  <2>2. {f \in Files : did'[f] \in {"new", "updated"}} \in SUBSET Files
    OBVIOUS
  <2>3. Moved' \in Nat
    BY <2>2, FilesCounted DEF Moved, Count
  <2> QED
    BY <2>1, <2>3
<1>2. other'.bytes \in Nat /\ burst \in Nat /\ burst' \in Nat
  BY <1>1, CountedIsReported, FilesCounted DEF ActivityTyped
<1>3. Baseline' = Baseline
  BY DEF Baseline
<1>4. ActivityTyped'
  BY <1>2, <1>3 DEF ActivityTyped
<1>5. session' + Unaccounted' <= burst'
  BY <1>1, <1>2, CountedIsReported DEF Unaccounted, SessionCovered, ActivityTyped
<1>6. /\ latest'["job"] # Unseen => latest'["job"] <= Moved'
      /\ latest'["other"] # Unseen => latest'["other"] <= other'.bytes
  BY <1>1, <1>2, CountedIsReported DEF SessionCovered
<1>7. at' \notin Busy => latest'["job"] = Unseen
  BY DEF SessionCovered
<1>8. ~other'.on => latest'["other"] = Unseen
  BY DEF SessionCovered
<1> QED
  BY <1>4, <1>5, <1>6, <1>7, <1>8 DEF SessionCovered

-----------------------------------------------------------------------------
(* What is told, step by step. *)

\* As long as there is no row, a row says nothing false.
LEMMA NoRowYet ==
  ASSUME Fresh, at \notin {"recorded", "pruned"}, UNCHANGED rowVars
  PROVE  row' = NoRow /\ changes' = {} /\ RowOfRun' /\ RecordTells'
  BY DEF Fresh, rowVars, RowOfRun, RecordTells

\* A log that stays tells of files that stay.
LEMMA LogStays ==
  ASSUME LogTells, observed'.operations = observed.operations, did' = did, kind' = kind
  PROVE  LogTells'
  BY DEF LogTells, Places, Op, Tells, Archiving

\* Nothing of the run changes, but perhaps that users have changed a file.
LEMMA ToldStays ==
  ASSUME Told, UNCHANGED <<runVars, rowVars, kind, did>>,
         \/ UNCHANGED <<src, dst>> /\ exact' = exact
         \/ exact' = (at = "idle")
  PROVE  Told'
<1> USE DEF Told, runVars, rowVars
<1>1. LogTells'
  BY LogStays
<1>2. OnceEach' /\ Kept' /\ Fresh' /\ RowOfRun'
  BY DEF OnceEach, Kept, Fresh, RowOfRun, Archiving, Busy
<1>3. Moved' = Moved
  BY MovesNone
<1>4. BytesLag'
  BY <1>3 DEF BytesLag, Busy
<1>5. PlanStands'
  <2>1. CASE UNCHANGED <<src, dst>> /\ exact' = exact
    BY <2>1 DEF PlanStands, OneWay, ToCopy, ToRemove
  <2>2. CASE exact' = (at = "idle")
    BY <2>2 DEF PlanStands, Busy
  <2> QED
    BY <2>1, <2>2
<1>6. RecordTells'
  <2>1. CASE row = NoRow
    BY <2>1 DEF RecordTells
  <2>2. CASE row # NoRow
    <3>1. at # "idle"
      BY <2>2 DEF Fresh
    <3>2. exact' => exact
      BY <3>1
    <3>3. CardsTell /\ TableTells /\ PlanTold
      BY <2>2 DEF RecordTells
    <3>4. CardsTell'
      BY <3>3 DEF CardsTell, Done, Archiving, OneWay
    <3>5. TableTells'
      BY <3>3 DEF TableTells, Done, Archiving, Fits
    <3>6. PlanTold'
      BY <3>2, <3>3 DEF PlanTold, Done, OneWay
    <3> QED
      BY <3>4, <3>5, <3>6 DEF RecordTells
  <2> QED
    BY <2>1, <2>2
<1> QED
  BY <1>1, <1>2, <1>4, <1>5, <1>6

\* The plan is made of what check and the dry run saw of the trees.
LEMMA ToldPlanning ==
  ASSUME Typed, Told, Check \/ DryRun \/ PlanEnds \/ Begin
  PROVE  Told'
<1> USE DEF Told, Check, DryRun, PlanEnds, Begin
<1>1. at \in {"idle", "checked", "planned"} /\ at' \in {"idle", "checked", "planned", "syncing"}
  OBVIOUS
<1>2. UNCHANGED <<treeVars, seen, observed, code, rowVars, did>>
  OBVIOUS
<1>3. RowOfRun' /\ RecordTells' /\ row' = NoRow /\ changes' = {}
  BY <1>1, <1>2, NoRowYet
<1>4. LogTells'
  BY <1>2, LogStays DEF treeVars
<1>5. OnceEach' /\ Kept'
  BY <1>1, <1>2 DEF OnceEach, Kept, Archiving, treeVars, Busy
<1>6. observed = NoLog /\ seen = {} /\ code = "ok" /\ \A f \in Files : did[f] = "nothing"
  BY <1>1 DEF Fresh, Busy
<1>7. Fresh'
  BY <1>1, <1>2, <1>3, <1>6 DEF Fresh
<1>8. BytesLag'
  BY <1>1, <1>2, <1>6 DEF BytesLag, NoLog, Busy, Unseen
<1>9. PlanStands'
  <2> USE DEF PlanStands, treeVars, OneWay, ToCopy, ToRemove
  <2>1. CASE Check
    BY <2>1 DEF Busy
  <2>2. CASE DryRun
    <3> SUFFICES ASSUME OneWay, exact'
                 PROVE  \A f \in Files :
                           /\ f \in plan'.new <=> ToCopy(f) /\ dst[f] = 0
                           /\ f \in plan'.updated <=> ToCopy(f) /\ dst[f] # 0
                           /\ f \in plan'.deleted <=> ToRemove(f)
      BY <1>2, <1>6, <2>2
    <3>1. /\ presence.dest = {f \in Files : dst[f] # 0}
          /\ plan' = Reconciled({f \in Files : ToCopy(f)}, {f \in Files : ToRemove(f)})
      <4>1. PICK captured \in SUBSET Files :
               /\ plan' = Reconciled({f \in Files : ToCopy(f)} \cap captured,
                                     {f \in Files : ToRemove(f)} \cap captured)
               /\ exact' = (exact /\ captured = Files)
        BY <2>2
      <4>2. captured = Files /\ exact
        BY <4>1
      <4>3. /\ {f \in Files : ToCopy(f)} \cap captured = {f \in Files : ToCopy(f)}
            /\ {f \in Files : ToRemove(f)} \cap captured = {f \in Files : ToRemove(f)}
        BY <4>2
      <4> QED
        BY <2>2, <4>1, <4>2, <4>3
    <3> QED
      BY <3>1 DEF Reconciled, IsNew
  <2>3. CASE PlanEnds
    BY <2>3 DEF Busy
  <2>4. CASE Begin
    BY <2>4, <1>6 DEF Busy
  <2> QED
    BY <2>1, <2>2, <2>3, <2>4
<1> QED
  BY <1>3, <1>4, <1>5, <1>7, <1>8, <1>9

\* rclone does what it finds to do with a file, logs it, and is done with the file.
LEMMA ToldFile ==
  ASSUME Typed, Told, NEW f \in Files, CopyFile(f) \/ RemoveFile(f) \/ LeaveFile(f)
  PROVE  Told' /\ Moved' - Moved = (IF CopyFile(f) THEN 1 ELSE 0)
<1> USE DEF Told, Typed
<1>1. /\ at = "syncing" /\ at' = "syncing" /\ f \notin seen /\ seen' = seen \cup {f}
      /\ UNCHANGED <<kind, src, edits, presence, plan, code, rowVars, exact>>
      /\ did[f] = "nothing" /\ did \in [Files -> {"nothing", "new", "updated", "deleted", "archived"}]
      /\ dst \in [Files -> 0..2]
  BY DEF CopyFile, RemoveFile, LeaveFile, OnceEach, TypeOK, treeVars
<1>2. RowOfRun' /\ RecordTells' /\ row' = NoRow /\ changes' = {}
  BY <1>1, NoRowYet
<1>3. Fresh'
  BY <1>1, <1>2 DEF Fresh, Busy
<1>4. Moved \in Nat /\ observed.bytes \in Nat
  BY MovedCounted, FilesCounted DEF TypeOK
<1>5. CASE CopyFile(f)
  <2>1. PICK new \in Looks(f) : Absorb(f, <<CopyLine(f, new)>>)
    BY <1>5 DEF CopyFile
  <2> DEFINE op == [path |-> f, operation |-> "copy", replaced |-> ~new]
             d == IF dst[f] = 0 THEN "new" ELSE "updated"
  <2>2. /\ new \in BOOLEAN /\ ToCopy(f)
        /\ did' = [did EXCEPT ![f] = d] /\ dst' = [dst EXCEPT ![f] = src[f]]
    BY <1>5, <2>1 DEF CopyFile, Looks
  <2>3. observed' = [observed EXCEPT !.operations = Append(observed.operations, op)]
    BY <2>1, <2>2, CopyLogged
  <2>4. Tells(op, d)
    <3>1. CASE new
      <4>1. d = "new" \/ Archiving
        BY <2>1, <3>1 DEF Looks
      <4> QED
        BY <3>1, <4>1 DEF Tells
    <3>2. CASE ~new
      <4>1. dst[f] # 0
        BY <2>1, <3>2 DEF Looks
      <4> QED
        BY <3>2, <4>1 DEF Tells
    <3> QED
      BY <2>2, <3>1, <3>2
  <2>5. op \in Operations /\ op.path = f
    BY <2>2 DEF Operations
  <2>6. LogTells'
    <3> HIDE DEF op, d
    <3>1. d \in {"new", "updated", "deleted", "archived"}
      BY DEF d
    <3> QED
      BY <1>1, <2>2, <2>3, <2>4, <2>5, <3>1, LogGrows
  <2>7. Moved' = Moved + 1
    <3>1. d \in {"new", "updated"}
      OBVIOUS
    <3> HIDE DEF d
    <3> QED
      BY <1>1, <2>2, <3>1, MovesOne
  <2>8. OnceEach' /\ Kept'
    BY <1>1, <2>2 DEF OnceEach, Kept, Archiving, Busy
  <2>9. observed'.bytes = observed.bytes /\ Unseen' = Unseen
    BY <2>3 DEF TypeOK, Unseen
  <2>10. BytesLag'
    BY <1>1, <1>4, <2>7, <2>9 DEF BytesLag, Busy
  <2>11. PlanStands'
    BY <1>1, <2>2 DEF PlanStands, OneWay, ToCopy, ToRemove, Busy
  <2> QED
    BY <1>2, <1>3, <1>4, <1>5, <2>6, <2>7, <2>8, <2>10, <2>11
<1>6. CASE RemoveFile(f)
  <2> DEFINE op == [path |-> f, operation |-> IF Archiving THEN "archive" ELSE "delete",
                    replaced |-> FALSE]
             d == IF Archiving THEN "archived" ELSE "deleted"
  <2>1. /\ ToRemove(f) /\ Absorb(f, RemoveLines)
        /\ did' = [did EXCEPT ![f] = d] /\ dst' = [dst EXCEPT ![f] = 0]
    BY <1>6 DEF RemoveFile
  <2>2. observed' = [observed EXCEPT !.operations = Append(observed.operations, op)]
    BY <2>1, RemovalLogged
  <2>3. Tells(op, d) /\ op \in Operations /\ op.path = f
    BY DEF Tells, Operations
  <2>4. LogTells'
    <3> HIDE DEF op, d
    <3>1. d \in {"new", "updated", "deleted", "archived"}
      BY DEF d
    <3> QED
      BY <1>1, <2>1, <2>2, <2>3, <3>1, LogGrows
  <2>5. Moved' = Moved
    <3>1. \A g \in Files : did'[g] \in {"new", "updated"} <=> did[g] \in {"new", "updated"}
      BY <1>1, <2>1
    <3> QED
      BY <3>1, MovesNone
  <2>6. OnceEach' /\ Kept'
    BY <1>1, <2>1 DEF OnceEach, Kept, Archiving, Busy
  <2>7. observed'.bytes = observed.bytes /\ Unseen' = Unseen
    BY <2>2 DEF TypeOK, Unseen
  <2>8. BytesLag'
    BY <1>1, <1>4, <2>5, <2>7 DEF BytesLag, Busy
  <2>9. PlanStands'
    BY <1>1, <2>1 DEF PlanStands, OneWay, ToCopy, ToRemove, Busy
  <2>10. ~CopyFile(f)
    BY <2>1 DEF CopyFile, ToCopy, ToRemove
  <2> QED
    BY <1>2, <1>3, <1>4, <2>4, <2>5, <2>6, <2>8, <2>9, <2>10
<1>7. CASE LeaveFile(f)
  <2>1. UNCHANGED <<dst, did, observed>> /\ ~ToCopy(f) /\ ~ToRemove(f)
    BY <1>7 DEF LeaveFile, treeVars
  <2>2. LogTells' /\ Moved' = Moved
    BY <1>1, <2>1, LogStays, MovesNone
  <2>3. OnceEach' /\ Kept'
    BY <1>1, <2>1 DEF OnceEach, Kept, Archiving, Busy
  <2>4. BytesLag'
    BY <1>1, <2>1, <2>2 DEF BytesLag, Busy, Unseen
  <2>5. PlanStands'
    BY <1>1, <2>1 DEF PlanStands, OneWay, ToCopy, ToRemove, Busy
  <2>6. ~CopyFile(f)
    BY <2>1 DEF CopyFile
  <2> QED
    BY <1>2, <1>3, <1>4, <2>2, <2>3, <2>4, <2>5, <2>6
<1> QED
  BY <1>5, <1>6, <1>7

\* An error line, a stats record, the end of rclone.
LEMMA ToldElse ==
  ASSUME Typed, Told, FileError \/ Stats \/ Exit
  PROVE  Told'
<1> USE DEF Told, Typed, FileError, Stats, Exit
<1>1. /\ at = "syncing" /\ at' \in {"syncing", "ended"} /\ UNCHANGED <<treeVars, presence, plan, seen>>
      /\ UNCHANGED <<rowVars, did, exact>>
      /\ observed'.operations = observed.operations
  BY DEF TypeOK
<1>2. RowOfRun' /\ RecordTells' /\ row' = NoRow /\ changes' = {}
  BY <1>1, NoRowYet
<1>3. Fresh'
  BY <1>1, <1>2 DEF Fresh, Busy
<1>4. LogTells' /\ Moved' = Moved /\ Moved \in Nat
  BY <1>1, LogStays, MovesNone, MovedCounted DEF treeVars
<1>5. at' # "syncing" => Exit
  OBVIOUS
<1>6. OnceEach' /\ Kept'
  BY <1>1, <1>5 DEF OnceEach, Kept, Archiving, treeVars, Busy
<1>7. BytesLag'
  <2>1. CASE FileError
    BY <2>1, <1>1, <1>4 DEF BytesLag, Busy, TypeOK, Unseen
  <2>2. CASE Stats
    BY <2>2, <1>1, <1>4 DEF BytesLag, Busy, TypeOK, Unseen
  <2>3. CASE Exit
    BY <2>3, <1>1, <1>4 DEF BytesLag, Busy, TypeOK, Unseen
  <2> QED
    BY <2>1, <2>2, <2>3
<1>8. PlanStands'
  BY <1>1 DEF PlanStands, OneWay, ToCopy, ToRemove, treeVars, Busy
<1> QED
  BY <1>2, <1>3, <1>4, <1>6, <1>7, <1>8

-----------------------------------------------------------------------------
(* The row and the table. *)

\* Operations that name just the files of a set are as many as these.
LEMMA OpsCounted ==
  ASSUME TypeOK, LogTells, NEW S \in SUBSET Places, NEW T \in SUBSET Files,
         \A i \in S : Op(i).path \in T,
         \A f \in T : \E i \in S : Op(i).path = f
  PROVE  IsFiniteSet(S) /\ Count(S) = Count(T) /\ Count(S) \in Nat
<1> DEFINE g == [i \in S |-> Op(i).path]
<1>1. IsFiniteSet(S)
  <2>1. Places = 1..Len(observed.operations) /\ Len(observed.operations) \in Nat
    BY DEF Places, TypeOK
  <2>2. IsFiniteSet(Places)
    BY <2>1, FS_Interval
  <2> QED
    BY <2>2, FS_Subset
<1>2. g \in [S -> T]
  OBVIOUS
<1>3. \A x, y \in S : g[x] = g[y] => x = y
  BY DEF LogTells
<1>4. \A f \in T : \E x \in S : g[x] = f
  OBVIOUS
<1> HIDE DEF g
<1>5. Count(T) = Count(S)
  BY <1>1, <1>2, <1>3, <1>4, SameCount
<1> QED
  BY <1>1, <1>5, FilesCounted

\* An operation names a file, of which it tells.
LEMMA OpTells ==
  ASSUME TypeOK, LogTells, NEW i \in Places
  PROVE  /\ Op(i).path \in Files /\ Op(i).operation \in {"copy", "delete", "archive"}
         /\ Op(i).replaced \in BOOLEAN
         /\ Tells(Op(i), did[Op(i).path])
<1>1. observed.operations \in Seq(Operations)
  BY DEF TypeOK, Operations
<1>2. i \in 1..Len(observed.operations)
  BY <1>1 DEF Places
<1>3. Op(i) \in Operations
  BY <1>1, <1>2 DEF Op
<1> QED
  BY <1>3 DEF Operations, LogTells

\* The kinds of operations are as many as the files they were done with.
LEMMA CardsCounted ==
  ASSUME TypeOK, LogTells
  PROVE  /\ IsFiniteSet(Copies) /\ IsFiniteSet(Removals)
         /\ Count(Copies) = Count(Done({"new", "updated"})) /\ Count(Copies) = Moved
         /\ Count(Removals) = Count(Done({"deleted", "archived"}))
         /\ Count(Archived) = Count(Done({"archived"}))
         /\ ~Archiving => /\ Count({i \in Copies : ~Op(i).replaced}) = Count(Done({"new"}))
                          /\ Count({i \in Copies : Op(i).replaced}) = Count(Done({"updated"}))
<1> USE OpTells DEF Ops, Copies, Deletes, Archived, Removals, Done, Tells
<1>1. \A f \in Files : did[f] # "nothing" => \E i \in Places : Op(i).path = f
  BY DEF LogTells
<1>2. /\ Copies \in SUBSET Places
      /\ \A i \in Copies : Op(i).path \in Done({"new", "updated"})
      /\ \A f \in Done({"new", "updated"}) : \E i \in Copies : Op(i).path = f
  BY <1>1 DEF Places
<1>3. /\ Removals \in SUBSET Places
      /\ \A i \in Removals : Op(i).path \in Done({"deleted", "archived"})
      /\ \A f \in Done({"deleted", "archived"}) : \E i \in Removals : Op(i).path = f
  BY <1>1 DEF Places
<1>4. /\ Archived \in SUBSET Places
      /\ \A i \in Archived : Op(i).path \in Done({"archived"})
      /\ \A f \in Done({"archived"}) : \E i \in Archived : Op(i).path = f
  BY <1>1 DEF Places
<1>5. ASSUME ~Archiving
      PROVE  LET N == {i \in Copies : ~Op(i).replaced}
             IN  /\ N \in SUBSET Places
                 /\ \A i \in N : Op(i).path \in Done({"new"})
                 /\ \A f \in Done({"new"}) : \E i \in N : Op(i).path = f
  BY <1>1, <1>5 DEF Places
<1>6. LET U == {i \in Copies : Op(i).replaced}
      IN  /\ U \in SUBSET Places
          /\ \A i \in U : Op(i).path \in Done({"updated"})
          /\ ~Archiving => \A f \in Done({"updated"}) : \E i \in U : Op(i).path = f
  BY <1>1 DEF Places
<1>7. \A kinds : Done(kinds) \in SUBSET Files
  OBVIOUS
<1>8. Count(Done({"new", "updated"})) = Moved
  BY DEF Moved
<1> HIDE DEF Ops, Copies, Deletes, Archived, Removals, Done, Tells
<1>9. IsFiniteSet(Copies) /\ Count(Copies) = Count(Done({"new", "updated"}))
  BY <1>2, <1>7, OpsCounted
<1>10. IsFiniteSet(Removals) /\ Count(Removals) = Count(Done({"deleted", "archived"}))
  BY <1>3, <1>7, OpsCounted
<1>11. Count(Archived) = Count(Done({"archived"}))
  BY <1>4, <1>7, OpsCounted
<1>12. ~Archiving => Count({i \in Copies : ~Op(i).replaced}) = Count(Done({"new"}))
  BY <1>5, <1>7, OpsCounted
<1>13. ~Archiving => Count({i \in Copies : Op(i).replaced}) = Count(Done({"updated"}))
  BY <1>6, <1>7, OpsCounted
<1> QED
  BY <1>8, <1>9, <1>10, <1>11, <1>12, <1>13

\* What is to be listed, by its part of the list and its place in the log.
LEMMA EntryOf ==
  ASSUME NEW e \in Entries
  PROVE  /\ e[2] \in Places /\ e[1] \in 1..4 /\ e = <<e[1], e[2]>>
         /\ e[1] = 1 => Op(e[2]).operation = "copy"
         /\ e[1] = 2 => Op(e[2]).operation = "delete"
         /\ e[1] \in {3, 4} => Op(e[2]).operation = "archive"
         /\ e[1] = 4 => ~OneWay
  BY DEF Entries, Ops, Copies, Deletes, Archived, Places

\* Where the table has room for what was transferred and removed, each operation
\* has a place among the first MaxChanges, the archived ones of a bidirectional
\* run with the first of their two.
LEMMA RoomForAll ==
  ASSUME TypeOK, LogTells, Count(Copies) + Count(Removals) <= MaxChanges, NEW i \in Places
  PROVE  \E e \in Entries : e[2] = i /\ Count(Earlier(e)) < MaxChanges
<1> DEFINE First == ({1} \X Copies) \cup ({2} \X Deletes) \cup ({3} \X Archived)
           Both == Copies \cup Removals
           g == [e \in First |-> e[2]]
<1>1. PICK e \in First : e[2] = i
  <2>1. Op(i).operation \in {"copy", "delete", "archive"}
    BY OpTells
  <2>2. \/ <<1, i>> \in {1} \X Copies
        \/ <<2, i>> \in {2} \X Deletes
        \/ <<3, i>> \in {3} \X Archived
    BY <2>1 DEF Copies, Deletes, Archived, Ops, Places
  <2>3. <<1, i>>[2] = i /\ <<2, i>>[2] = i /\ <<3, i>>[2] = i
    OBVIOUS
  <2> QED
    BY <2>2, <2>3
<1>2. First \subseteq Entries
  BY DEF Entries
<1>3. Earlier(e) \subseteq First /\ e \notin Earlier(e)
  <2>1. e[1] \in 1..3
    BY <1>1
  <2>2. \A d \in Entries : d[1] < 4 => d \in First
    <3> TAKE d \in Entries
    <3>1. d \in {4} \X Archived => d[1] = 4
      OBVIOUS
    <3> QED
      BY <3>1 DEF Entries
  <2>3. e[2] \in Nat /\ \A d \in Entries : d[1] \in 1..4 /\ d[2] \in Nat
    BY <1>1, <1>2, EntryOf DEF Places, TypeOK
  <2> QED
    BY <2>1, <2>2, <2>3 DEF Earlier
<1>4. IsFiniteSet(Both) /\ Count(Both) = Count(Copies) + Count(Removals)
  <2>1. Copies \cap Removals = {}
    BY DEF Copies, Deletes, Archived, Removals, Ops
  <2> QED
    BY <2>1, CardsCounted, ApartCount
<1>5. g \in Injection(First, Both)
  <2>1. g \in [First -> Both]
    BY DEF Removals
  <2>2. \A d, c \in First : g[d] = g[c] => d = c
    <3> TAKE d, c \in First
    <3> HAVE g[d] = g[c]
    <3>1. d[2] = c[2] /\ d \in Entries /\ c \in Entries /\ d[1] # 4 /\ c[1] # 4
      BY <1>2
    <3> HIDE DEF First, g
    <3>2. d[1] = c[1]
      BY <3>1, EntryOf
    <3> QED
      BY <3>1, <3>2, EntryOf
  <2> HIDE DEF First, Both, g
  <2> QED
    BY <2>1, <2>2 DEF Injection, IsInjective
<1> HIDE DEF First, Both, g
<1>6. IsFiniteSet(First) /\ Count(First) <= MaxChanges /\ Count(First) \in Nat
  BY <1>4, <1>5, FS_Injection, FS_CardinalityType, ConstantsAssumption DEF Count, ConstantsAssumption
<1>7. Count(Earlier(e)) < Count(First)
  <2>1. IsFiniteSet(Earlier(e)) /\ Earlier(e) \cup {e} \in SUBSET First
    BY <1>1, <1>3, <1>6, FS_Subset
  <2>2. Cardinality(Earlier(e) \cup {e}) = Cardinality(Earlier(e)) + 1
    BY <1>3, <2>1, FS_AddElement
  <2>3. Cardinality(Earlier(e) \cup {e}) <= Cardinality(First)
    BY <1>6, <2>1, FS_Subset
  <2>4. Cardinality(Earlier(e)) \in Nat
    BY <2>1, FS_CardinalityType
  <2> QED
    BY <1>6, <2>2, <2>3, <2>4 DEF Count
<1>8. Count(Earlier(e)) \in Nat
  BY <1>3, <1>6, FS_Subset, FS_CardinalityType DEF Count
<1> QED
  BY <1>1, <1>2, <1>6, <1>7, <1>8, ConstantsAssumption DEF ConstantsAssumption

\* The row counts what rclone did.
LEMMA CardsOfRecord ==
  ASSUME Typed, Told, Record
  PROVE  CardsTell'
<1> USE DEF Typed, Told
<1>1. at = "ended" /\ UNCHANGED <<kind, did, observed, code>>
  BY DEF Record, treeVars
<1>2. /\ row'.transferred = Count(Copies) /\ row'.deleted = Count(Removals)
      /\ row'.archived = Count(Archived) /\ row'.bytes = Bytes
      /\ row'.new = Count({i \in Copies : ~Op(i).replaced})
      /\ row'.updated = Count({i \in Copies : Op(i).replaced})
  BY DEF Record
<1>3. Bytes <= Count(Copies) /\ (~OneWay \/ code # "killed" => Bytes = Count(Copies))
  <2>1. Count(Copies) = Moved /\ Moved \in Nat
    BY CardsCounted, MovedCounted
  <2>2. observed.bytes # Unseen => observed.bytes <= Moved
    BY DEF BytesLag
  <2>3. code # "killed" => observed.bytes = Moved
    BY <1>1 DEF BytesLag, Busy
  <2> QED
    BY <2>1, <2>2, <2>3 DEF Bytes
<1>4. \A K : Done(K)' = Done(K)
  BY <1>1 DEF Done
<1> QED
  BY <1>1, <1>2, <1>3, <1>4, CardsCounted DEF CardsTell, Archiving, OneWay

\* The table lists each operation under what was done with its file.
LEMMA TableOfRecord ==
  ASSUME Typed, Told, Record
  PROVE  TableTells'
<1> USE DEF Typed, Told
<1>1. UNCHANGED <<kind, did, observed>> /\ changes' = Listed
  BY DEF Record, treeVars
<1>2. ASSUME NEW c \in Listed
      PROVE  \E e \in Entries : /\ Count(Earlier(e)) < MaxChanges
                                /\ c.path = Op(e[2]).path /\ c.action = Action(Op(e[2]))
                                /\ c = [entry |-> e, path |-> Op(e[2]).path,
                                        action |-> Action(Op(e[2]))]
  BY DEF Listed
<1>3. ASSUME NEW c \in Listed
      PROVE  c.action = did[c.path] \/ (Archiving /\ did[c.path] = "updated" /\ c.action = "new")
  <2>1. PICK e \in Entries : c.path = Op(e[2]).path /\ c.action = Action(Op(e[2]))
    BY <1>2
  <2>2. e[2] \in Places
    BY EntryOf
  <2>3. /\ Op(e[2]).operation \in {"copy", "delete", "archive"} /\ Op(e[2]).replaced \in BOOLEAN
        /\ Tells(Op(e[2]), did[Op(e[2]).path])
    BY <2>2, OpTells
  <2> QED
    BY <2>1, <2>3 DEF Tells, Action
<1>4. ASSUME kind # "imported", NEW c \in Listed, NEW d \in Listed, c.path = d.path
      PROVE  c = d
  <2>1. PICK e \in Entries : c.path = Op(e[2]).path
                              /\ c = [entry |-> e, path |-> Op(e[2]).path, action |-> Action(Op(e[2]))]
    BY <1>2
  <2>2. PICK h \in Entries : d.path = Op(h[2]).path
                              /\ d = [entry |-> h, path |-> Op(h[2]).path, action |-> Action(Op(h[2]))]
    BY <1>2
  <2>3. e[2] \in Places /\ h[2] \in Places
    BY EntryOf
  <2>4. e[2] = h[2]
    BY <1>4, <2>1, <2>2, <2>3 DEF LogTells
  <2>5. ASSUME NEW x \in Entries PROVE x[1] # 4
    <3> SUFFICES ASSUME x[1] = 4 PROVE FALSE
      OBVIOUS
    <3>1. ~OneWay /\ Op(x[2]).operation = "archive" /\ x[2] \in Places
      BY EntryOf
    <3>2. ~Archiving
      <4>1. kind \in {"copy", "mirror", "archive", "both", "imported"}
        BY ConstantsAssumption DEF TypeOK, ConstantsAssumption
      <4> QED
        BY <1>4, <3>1, <4>1 DEF OneWay, Archiving
    <3>3. did[Op(x[2]).path] = "archived" /\ Op(x[2]).path \in Files
      BY <3>1, OpTells DEF Tells
    <3> QED
      BY <3>2, <3>3 DEF Kept
  <2>6. e[1] = h[1]
    BY <2>4, <2>5, EntryOf
  <2>7. e = h
    BY <2>4, <2>6, EntryOf
  <2> QED
    BY <2>1, <2>2, <2>7
<1>5. ASSUME Fits' PROVE {c.path : c \in Listed} = Files \ Done({"nothing"})
  <2>1. Count(Copies) + Count(Removals) <= MaxChanges
    BY <1>5 DEF Fits, Record
  <2>2. ASSUME NEW c \in Listed PROVE c.path \in Files /\ did[c.path] # "nothing"
    <3>1. PICK e \in Entries : c.path = Op(e[2]).path
      BY <1>2
    <3>2. e[2] \in Places
      BY EntryOf
    <3> QED
      BY <3>1, <3>2, OpTells DEF Tells
  <2>3. ASSUME NEW f \in Files, did[f] # "nothing"
        PROVE  \E c \in Listed : c.path = f
    <3>1. PICK i \in Places : Op(i).path = f
      BY <2>3 DEF LogTells
    <3>2. PICK e \in Entries : e[2] = i /\ Count(Earlier(e)) < MaxChanges
      BY <2>1, RoomForAll
    <3>3. [entry |-> e, path |-> Op(e[2]).path, action |-> Action(Op(e[2]))] \in Listed
      BY <3>2 DEF Listed
    <3> QED
      BY <3>1, <3>2, <3>3
  <2> QED
    BY <2>2, <2>3 DEF Done
<1>6. \A K : Done(K)' = Done(K)
  BY <1>1 DEF Done
<1> QED
  BY <1>1, <1>3, <1>4, <1>5, <1>6 DEF TableTells, Archiving

\* A run that went through has come to every file; so what the plan says of the
\* files it came to, it says of all.
LEMMA PlanOfRecord ==
  ASSUME Typed, Told, Record
  PROVE  PlanTold'
<1> USE DEF Typed, Told
<1>1. /\ at = "ended" /\ UNCHANGED <<kind, did, observed, plan, exact>>
      /\ row'.status = Status
      /\ row'.asPlanned = (/\ Status = "success" /\ OneWay
                           /\ Count(Copies) = Count(plan.new) + Count(plan.updated)
                           /\ Count(Removals) = Count(plan.deleted))
  BY DEF Record, treeVars
<1> SUFFICES ASSUME OneWay, exact, Status = "success"
             PROVE  /\ Count(Copies) = Count(plan.new) + Count(plan.updated)
                    /\ Count(Removals) = Count(plan.deleted)
                    /\ plan.new = Done({"new"}) /\ plan.updated = Done({"updated"})
                    /\ plan.deleted = Done({"deleted", "archived"})
  <2>1. \A K : Done(K)' = Done(K)
    BY <1>1 DEF Done
  <2> QED
    BY <1>1, <2>1 DEF PlanTold, OneWay
<1>2. code = "ok"
  BY DEF Status
<1>3. seen = Files
  BY <1>1, <1>2 DEF OnceEach, Busy
<1>4. plan.new \subseteq Files /\ plan.updated \subseteq Files /\ plan.deleted \subseteq Files
  BY DEF TypeOK
<1>5. \A f \in Files : /\ f \in plan.new <=> did[f] = "new"
                       /\ f \in plan.updated <=> did[f] = "updated"
                       /\ f \in plan.deleted <=> did[f] \in {"deleted", "archived"}
  <2>1. PlanStands /\ OneWay /\ exact /\ at \in Busy
    BY <1>1 DEF Busy
  <2>2. \A f \in seen : /\ f \in plan.new <=> did[f] = "new"
                        /\ f \in plan.updated <=> did[f] = "updated"
                        /\ f \in plan.deleted <=> did[f] \in {"deleted", "archived"}
    BY <2>1 DEF PlanStands
  <2> QED
    BY <1>3, <2>2
<1>6. /\ plan.new = Done({"new"}) /\ plan.updated = Done({"updated"})
      /\ plan.deleted = Done({"deleted", "archived"})
  <2>1. plan.new = {f \in Files : did[f] \in {"new"}}
    BY <1>4, <1>5
  <2>2. plan.updated = {f \in Files : did[f] \in {"updated"}}
    BY <1>4, <1>5
  <2>3. plan.deleted = {f \in Files : did[f] \in {"deleted", "archived"}}
    BY <1>4, <1>5
  <2> QED
    BY <2>1, <2>2, <2>3 DEF Done
<1>7. /\ plan.new \cap plan.updated = {}
      /\ plan.new \cup plan.updated = Done({"new", "updated"})
  BY <1>6 DEF Done
<1>8. Count(plan.new \cup plan.updated) = Count(plan.new) + Count(plan.updated)
  BY <1>4, <1>7, FilesCounted, ApartCount
<1> QED
  BY <1>6, <1>7, <1>8, CardsCounted

\* The record of a run that has ended.
LEMMA ToldRecord ==
  ASSUME Typed, Told, Record
  PROVE  Told'
<1> USE DEF Told
<1>1. /\ at = "ended" /\ at' = "recorded" /\ UNCHANGED treeVars
      /\ UNCHANGED <<presence, plan, seen, observed, code, did, exact>>
      /\ row'.status = Status /\ row'.errors = observed.errors
  BY DEF Record
<1>2. LogTells' /\ Moved' = Moved
  BY <1>1, LogStays, MovesNone DEF treeVars
<1>3. OnceEach' /\ Kept' /\ Fresh'
  BY <1>1 DEF OnceEach, Kept, Fresh, Archiving, treeVars, Busy
<1>4. BytesLag'
  BY <1>1, <1>2 DEF BytesLag, Busy, Unseen
<1>5. PlanStands'
  BY <1>1 DEF PlanStands, OneWay, ToCopy, ToRemove, treeVars, Busy
<1>6. RowOfRun'
  BY <1>1 DEF RowOfRun, Status
<1>7. RecordTells'
  BY CardsOfRecord, TableOfRecord, PlanOfRecord DEF RecordTells
<1> QED
  BY <1>2, <1>3, <1>4, <1>5, <1>6, <1>7

\* The row goes, or stays as it is.
LEMMA ToldPrune ==
  ASSUME Told, Prune
  PROVE  Told'
<1> USE DEF Told
<1>1. /\ at = "recorded" /\ at' = "pruned" /\ UNCHANGED treeVars
      /\ UNCHANGED <<presence, plan, seen, observed, code, did, exact>>
      /\ UNCHANGED rowVars \/ row' = NoRow
  BY DEF Prune
<1>2. LogTells' /\ Moved' = Moved
  BY <1>1, LogStays, MovesNone DEF treeVars
<1>3. OnceEach' /\ Kept' /\ Fresh'
  BY <1>1 DEF OnceEach, Kept, Fresh, Archiving, treeVars, Busy
<1>4. BytesLag'
  BY <1>1, <1>2 DEF BytesLag, Busy, Unseen
<1>5. PlanStands'
  BY <1>1 DEF PlanStands, OneWay, ToCopy, ToRemove, treeVars, Busy
<1>6. RowOfRun' /\ RecordTells'
  <2>1. CASE row' = NoRow
    BY <2>1 DEF RowOfRun, RecordTells, NoRow
  <2>2. CASE UNCHANGED rowVars /\ row # NoRow
    <3>1. CardsTell /\ TableTells /\ PlanTold
      BY <2>2 DEF RecordTells
    <3>2. CardsTell'
      BY <1>1, <2>2, <3>1 DEF CardsTell, Done, Archiving, OneWay, rowVars, treeVars
    <3>3. TableTells'
      BY <1>1, <2>2, <3>1 DEF TableTells, Done, Archiving, Fits, rowVars, treeVars
    <3>4. PlanTold'
      BY <1>1, <2>2, <3>1 DEF PlanTold, Done, OneWay, rowVars, treeVars
    <3>5. RowOfRun'
      BY <1>1, <2>2 DEF RowOfRun, rowVars
    <3> QED
      BY <3>2, <3>3, <3>4, <3>5 DEF RecordTells
  <2> QED
    BY <1>1, <2>1, <2>2 DEF rowVars, NoRow
<1> QED
  BY <1>2, <1>3, <1>4, <1>5, <1>6

\* Nothing is left of a run that is over.
LEMMA ToldEnd ==
  ASSUME End
  PROVE  Told' /\ Moved' = 0
<1>1. /\ at' = "idle" /\ seen' = {} /\ observed' = NoLog /\ code' = "ok"
      /\ row' = NoRow /\ changes' = {} /\ did' = [f \in Files |-> "nothing"]
  BY DEF End
<1>2. Moved' = 0
  <2>1. {f \in Files : did'[f] \in {"new", "updated"}} = {}
    BY <1>1
  <2> QED
    BY <2>1, FS_EmptySet DEF Moved, Count
<1>3. Places' = {} /\ observed'.bytes = Unseen /\ Unseen' = Unseen
  BY <1>1 DEF Places, NoLog, Unseen
<1>4. LogTells'
  BY <1>1, <1>3 DEF LogTells
<1>5. OnceEach' /\ Kept'
  BY <1>1 DEF OnceEach, Kept, Busy
<1>6. Fresh'
  BY <1>1 DEF Fresh, Busy, NoLog, Unseen, NoRow
<1>7. BytesLag'
  BY <1>1, <1>3 DEF BytesLag, Busy
<1>8. PlanStands' /\ RowOfRun' /\ RecordTells'
  BY <1>1 DEF PlanStands, RowOfRun, RecordTells, Busy, NoRow
<1> QED
  BY <1>2, <1>4, <1>5, <1>6, <1>7, <1>8 DEF Told

-----------------------------------------------------------------------------
(* The invariant. *)

\* The types of what the activity recorder has no part in.
RestTyped ==
    /\ kind \in Kinds /\ edits \in 0..MaxEdits
    /\ src \in [Files -> 0..2] /\ dst \in [Files -> 0..2]
    /\ at \in {"idle", "checked", "planned"} \cup Busy
    /\ presence \in [source : SUBSET Files, dest : SUBSET Files]
    /\ plan \in [new : SUBSET Files, updated : SUBSET Files, deleted : SUBSET Files,
                 unchanged : Nat]
    /\ seen \subseteq Files
    /\ observed \in [operations : Seq(Operations), errors : 0..1,
                     bytes : (0..Count(Files)) \cup {Unseen}]
    /\ code \in {"ok", "error", "killed"}
    /\ row = NoRow \/ row \in Row
    /\ \A c \in changes : c.path \in Files /\ c.action \in {"new", "updated", "deleted", "archived"}
    /\ did \in [Files -> {"nothing", "new", "updated", "deleted", "archived"}]
    /\ exact \in BOOLEAN

LEMMA TypedParts == Typed <=> RestTyped /\ ActivityTyped
  BY DEF Typed, TypeOK, RestTyped, ActivityTyped, Operations

\* Initially nothing is there to be told.
LEMMA InvHoldsInitially == Init => RecordInv
<1> SUFFICES ASSUME Init PROVE RecordInv
  OBVIOUS
<1> USE FilesCounted DEF Init
<1>1. did = [f \in Files |-> "nothing"] /\ Moved = 0
  BY NothingMoved
<1>2. RestTyped
  <2>1. observed \in [operations : Seq(Operations), errors : 0..1,
                      bytes : (0..Count(Files)) \cup {Unseen}]
    <3>1. <<>> \in Seq(Operations)
      OBVIOUS
    <3> QED
      BY <3>1 DEF NoLog
  <2>2. /\ presence \in [source : SUBSET Files, dest : SUBSET Files]
        /\ plan \in [new : SUBSET Files, updated : SUBSET Files, deleted : SUBSET Files,
                     unchanged : Nat]
    BY DEF NoPresence, NoPlan
  <2>3. src \in [Files -> 0..2] /\ edits \in 0..MaxEdits
    BY ConstantsAssumption DEF ConstantsAssumption
  <2> QED
    BY <2>1, <2>2, <2>3 DEF RestTyped
<1>3. ActivityTyped
  BY DEF ActivityTyped, Baseline, Runs
<1>4. SessionCovered
  BY <1>1 DEF SessionCovered, Unaccounted, Runs
<1>5. Places = {} /\ observed.bytes = Unseen
  BY DEF Places, NoLog
<1>6. LogTells /\ OnceEach /\ Kept /\ Fresh /\ BytesLag
  BY <1>5 DEF LogTells, OnceEach, Kept, Fresh, BytesLag, Busy
<1>7. PlanStands /\ RowOfRun /\ RecordTells
  BY DEF PlanStands, RowOfRun, RecordTells, Busy
<1> QED
  BY <1>2, <1>3, <1>4, <1>6, <1>7, TypedParts DEF RecordInv, Told

\* Every step leaves what is told true.
LEMMA ToldNext ==
  ASSUME RecordInv, [Next]_vars
  PROVE  Told'
<1> USE DEF RecordInv
<1>1. CASE UserEdits
  BY <1>1, ToldStays DEF UserEdits
<1>2. CASE Check \/ DryRun \/ PlanEnds \/ Begin
  BY <1>2, ToldPlanning
<1>3. CASE \E f \in Files : CopyFile(f) \/ RemoveFile(f) \/ LeaveFile(f)
  BY <1>3, ToldFile
<1>4. CASE FileError \/ Stats \/ Exit
  BY <1>4, ToldElse
<1>5. CASE Record
  BY <1>5, ToldRecord
<1>6. CASE Prune
  BY <1>6, ToldPrune
<1>7. CASE End
  BY <1>7, ToldEnd
<1>8. CASE OtherBegins \/ OtherMoves \/ OtherStats \/ OtherEnds \/ ResetSession
  BY <1>8, ToldStays DEF OtherBegins, OtherMoves, OtherStats, OtherEnds, ResetSession, treeVars
<1>9. CASE UNCHANGED vars
  BY <1>9, ToldStays DEF vars, treeVars
<1> QED
  BY <1>1, <1>2, <1>3, <1>4, <1>5, <1>6, <1>7, <1>8, <1>9 DEF Next

\* Every step accounts for what has moved.
LEMMA SessionNext ==
  ASSUME RecordInv, [Next]_vars
  PROVE  ActivityTyped' /\ SessionCovered'
<1> USE TypedParts DEF RecordInv
<1> DEFINE Still == /\ UNCHANGED <<activityVars, other, burst>>
                    /\ \/ at' = at \/ (at' \in Busy /\ at \in Busy)
                       \/ at \notin Busy
<1>1. Moved \in Nat /\ burst \in Nat /\ other \in [on : BOOLEAN, bytes : 0..MaxBurst]
  BY MovedCounted DEF ActivityTyped
<1>2. other.bytes \in Nat /\ (~other.on => other.bytes = 0)
  BY CountedIsReported DEF SessionCovered
<1>3. at \notin Busy => latest["job"] = Unseen
  BY DEF SessionCovered
<1>4. ASSUME Still, Moved' = Moved
      PROVE  ActivityTyped' /\ SessionCovered'
  BY <1>1, <1>2, <1>3, <1>4, Moves DEF activityVars
<1>5. ASSUME did' = did PROVE Moved' = Moved
  BY <1>5, MovesNone
<1>6. CASE UserEdits \/ Check \/ DryRun \/ PlanEnds \/ Begin \/ FileError \/ Record \/ Prune
  <2>1. did' = did /\ Still
    BY <1>6 DEF UserEdits, Check, DryRun, PlanEnds, Begin, FileError, Record, Prune, runVars, Busy
  <2> QED
    BY <2>1, <1>4, <1>5
<1>7. CASE \E f \in Files : CopyFile(f) \/ RemoveFile(f) \/ LeaveFile(f)
  <2>1. PICK f \in Files : CopyFile(f) \/ RemoveFile(f) \/ LeaveFile(f)
    BY <1>7
  <2>2. /\ UNCHANGED <<activityVars, other, at>>
        /\ burst' = burst + (IF CopyFile(f) THEN 1 ELSE 0)
    <3>1. RemoveFile(f) \/ LeaveFile(f) => ~CopyFile(f)
      BY DEF RemoveFile, LeaveFile, CopyFile, ToCopy, ToRemove
    <3> QED
      BY <1>1, <2>1, <3>1 DEF CopyFile, RemoveFile, LeaveFile
  <2>3. Moved' - Moved = (IF CopyFile(f) THEN 1 ELSE 0)
    BY <2>1, ToldFile
  <2> QED
    BY <1>1, <1>2, <2>2, <2>3, Moves DEF activityVars
<1>8. CASE Stats
  BY <1>8, JobReports DEF Stats, Busy
<1>9. CASE Exit
  <2>1. did' = did /\ at \in Busy /\ at' \in Busy /\ UNCHANGED <<other, burst>>
    BY <1>9 DEF Exit, Busy
  <2>2. CASE code' = "killed"
    <3>1. Still
      BY <1>9, <2>1, <2>2 DEF Exit
    <3> QED
      BY <2>1, <3>1, <1>4, <1>5
  <2>3. CASE code' # "killed"
    <3>1. RecordActivity("job", Moved)
      BY <1>9, <2>3 DEF Exit
    <3> QED
      BY <2>1, <3>1, JobReports
  <2> QED
    BY <2>2, <2>3
<1>10. CASE End
  BY <1>10, ToldEnd, JobForgets DEF End, Busy
<1>11. CASE OtherBegins
  <2>1. /\ did' = did /\ at' = at /\ UNCHANGED <<activityVars, burst>> /\ ~other.on
        /\ other' = [on |-> TRUE, bytes |-> 0]
    BY <1>11 DEF OtherBegins, runVars
  <2> QED
    BY <2>1, <1>1, <1>2, <1>5, FilesCounted, Moves DEF activityVars
<1>12. CASE OtherMoves
  <2>1. /\ did' = did /\ at' = at /\ UNCHANGED activityVars /\ other.on
        /\ other' = [on |-> TRUE, bytes |-> other.bytes + 1] /\ burst' = burst + 1
        /\ other.bytes < MaxBurst
    BY <1>1, <1>12 DEF OtherMoves, runVars
  <2> QED
    BY <2>1, <1>1, <1>2, <1>5, FilesCounted, Moves DEF activityVars
<1>13. CASE OtherStats
  BY <1>13, OtherReports DEF OtherStats, runVars
<1>14. at \notin Busy => Moved = 0
  BY NothingMoved DEF Told, Fresh
<1>15. CASE OtherEnds
  BY <1>14, <1>15, OtherForgets DEF OtherEnds, runVars
<1>16. CASE ResetSession
  BY <1>14, <1>16, Resets
<1>17. CASE UNCHANGED vars
  <2>1. did' = did /\ Still
    BY <1>17 DEF vars, runVars
  <2> QED
    BY <2>1, <1>4, <1>5
<1> QED
  BY <1>6, <1>7, <1>8, <1>9, <1>10, <1>11, <1>12, <1>13, <1>15, <1>16, <1>17 DEF Next

\* The log only ever holds operations.
LEMMA LogTyped ==
  ASSUME RestTyped, NEW op \in Operations,
         observed' = [observed EXCEPT !.operations = Append(observed.operations, op)]
  PROVE  observed' \in [operations : Seq(Operations), errors : 0..1,
                        bytes : (0..Count(Files)) \cup {Unseen}]
<1>1. observed.operations \in Seq(Operations)
  BY DEF RestTyped
<1>2. Append(observed.operations, op) \in Seq(Operations)
  BY <1>1
<1> QED
  BY <1>2 DEF RestTyped

\* Every step leaves what the activity recorder has no part in of its types.
LEMMA RestNext ==
  ASSUME RecordInv, [Next]_vars
  PROVE  RestTyped'
<1> USE TypedParts DEF RecordInv
<1>1. RestTyped /\ Moved \in 0..Count(Files) /\ Unseen' = Unseen
  BY MovedCounted DEF Unseen
<1>2. CASE UserEdits
  BY <1>1, <1>2, ConstantsAssumption DEF UserEdits, RestTyped, runVars, rowVars, ConstantsAssumption
<1>3. CASE Check
  BY <1>1, <1>3 DEF Check, RestTyped, treeVars, rowVars
<1>4. CASE DryRun
  <2>1. PICK captured \in SUBSET Files :
           /\ plan' = Reconciled({f \in Files : ToCopy(f)} \cap captured,
                                 {f \in Files : ToRemove(f)} \cap captured)
           /\ exact' = (exact /\ captured = Files)
    BY <1>4 DEF DryRun
  <2>2. \A S, T \in SUBSET Files :
           Reconciled(S, T) \in [new : SUBSET Files, updated : SUBSET Files,
                                 deleted : SUBSET Files, unchanged : Nat]
    <3> TAKE S, T \in SUBSET Files
    <3>1. presence.source \ S \in SUBSET Files
      BY <1>1 DEF RestTyped
    <3>2. Count(presence.source \ S) \in Nat
      BY <3>1, FilesCounted
    <3> QED
      BY <3>2 DEF Reconciled
  <2>3. plan' \in [new : SUBSET Files, updated : SUBSET Files, deleted : SUBSET Files,
                   unchanged : Nat]
    BY <2>1, <2>2
  <2> QED
    BY <1>1, <1>4, <2>1, <2>3 DEF DryRun, RestTyped, treeVars, rowVars, NoPresence
<1>5. CASE PlanEnds
  BY <1>1, <1>5 DEF PlanEnds, RestTyped, treeVars, rowVars, NoPresence, NoPlan
<1>6. CASE Begin
  BY <1>1, <1>6 DEF Begin, RestTyped, treeVars, rowVars, Busy
<1>7. CASE \E f \in Files : CopyFile(f) \/ RemoveFile(f) \/ LeaveFile(f)
  <2>1. PICK f \in Files : CopyFile(f) \/ RemoveFile(f) \/ LeaveFile(f)
    BY <1>7
  <2>2. CASE CopyFile(f)
    <3>1. PICK new \in Looks(f) : Absorb(f, <<CopyLine(f, new)>>)
      BY <2>2 DEF CopyFile
    <3> DEFINE op == [path |-> f, operation |-> "copy", replaced |-> ~new]
    <3>2. new \in BOOLEAN /\ op \in Operations
      BY <3>1 DEF Looks, Operations
    <3>3. observed' = [observed EXCEPT !.operations = Append(observed.operations, op)]
      BY <3>1, <3>2, CopyLogged DEF Typed
    <3> HIDE DEF op
    <3>4. observed' \in [operations : Seq(Operations), errors : 0..1,
                         bytes : (0..Count(Files)) \cup {Unseen}]
      BY <1>1, <3>2, <3>3, LogTyped
    <3>5. /\ UNCHANGED <<kind, src, edits, at, presence, plan, code, rowVars, exact>>
          /\ seen' = seen \cup {f} /\ dst' = [dst EXCEPT ![f] = src[f]]
          /\ did' = [did EXCEPT ![f] = IF dst[f] = 0 THEN "new" ELSE "updated"]
      BY <2>2 DEF CopyFile
    <3> QED
      BY <1>1, <3>4, <3>5 DEF RestTyped, rowVars
  <2>3. CASE RemoveFile(f)
    <3> DEFINE op == [path |-> f, operation |-> IF Archiving THEN "archive" ELSE "delete",
                      replaced |-> FALSE]
    <3>1. observed' = [observed EXCEPT !.operations = Append(observed.operations, op)]
      BY <2>3, RemovalLogged DEF RemoveFile, Typed
    <3>2. op \in Operations
      BY DEF Operations
    <3> HIDE DEF op
    <3>3. observed' \in [operations : Seq(Operations), errors : 0..1,
                         bytes : (0..Count(Files)) \cup {Unseen}]
      BY <1>1, <3>1, <3>2, LogTyped
    <3>4. /\ UNCHANGED <<kind, src, edits, at, presence, plan, code, rowVars, exact>>
          /\ seen' = seen \cup {f} /\ dst' = [dst EXCEPT ![f] = 0]
          /\ did' = [did EXCEPT ![f] = IF Archiving THEN "archived" ELSE "deleted"]
      BY <2>3 DEF RemoveFile
    <3> QED
      BY <1>1, <3>3, <3>4 DEF RestTyped, rowVars
  <2>4. CASE LeaveFile(f)
    BY <1>1, <2>4 DEF LeaveFile, RestTyped, treeVars, rowVars
  <2> QED
    BY <2>1, <2>2, <2>3, <2>4
<1>8. CASE FileError
  BY <1>1, <1>8 DEF FileError, RestTyped, treeVars, rowVars
<1>9. CASE Stats
  BY <1>1, <1>9 DEF Stats, RestTyped, treeVars, rowVars
<1>10. CASE Exit
  BY <1>1, <1>10 DEF Exit, RestTyped, treeVars, rowVars, Busy
<1>11. CASE Record
  <2>1. row' \in Row
    <3>1. Count(Copies) \in Nat /\ Count(Removals) \in Nat
      BY CardsCounted, FS_CardinalityType DEF Typed, Told, Count
    <3>2. \A S \in SUBSET Places : Count(S) \in Nat
      <4>1. Places = 1..Len(observed.operations) /\ Len(observed.operations) \in Nat
        BY <1>1 DEF Places, RestTyped
      <4>2. IsFiniteSet(Places)
        BY <4>1, FS_Interval
      <4> QED
        BY <4>2, FS_Subset, FS_CardinalityType DEF Count
    <3>3. /\ Archived \in SUBSET Places
          /\ {i \in Copies : ~Op(i).replaced} \in SUBSET Places
          /\ {i \in Copies : Op(i).replaced} \in SUBSET Places
      BY DEF Archived, Copies, Ops, Places
    <3>4. Bytes \in Nat /\ Status \in {"success", "failed", "cancelled"} /\ observed.errors \in 0..1
      BY <1>1, <3>1, FilesCounted DEF Bytes, Status, RestTyped
    <3> QED
      BY <1>11, <3>1, <3>2, <3>3, <3>4 DEF Record, Row
  <2>2. ASSUME NEW c \in Listed
        PROVE  c.path \in Files /\ c.action \in {"new", "updated", "deleted", "archived"}
    <3>1. PICK e \in Entries : c.path = Op(e[2]).path /\ c.action = Action(Op(e[2]))
      BY DEF Listed
    <3>2. e[2] \in Places
      BY EntryOf
    <3> QED
      BY <3>1, <3>2, OpTells DEF Typed, Told, Action
  <2> QED
    BY <1>1, <1>11, <2>1, <2>2 DEF Record, RestTyped, treeVars, Busy
<1>12. CASE Prune
  BY <1>1, <1>12 DEF Prune, RestTyped, treeVars, rowVars, Busy
<1>13. CASE End
  <2>1. observed' \in [operations : Seq(Operations), errors : 0..1,
                       bytes : (0..Count(Files)) \cup {Unseen}]
    <3>1. <<>> \in Seq(Operations)
      OBVIOUS
    <3> QED
      BY <1>13, <3>1 DEF End, NoLog
  <2> QED
    BY <1>1, <1>13, <2>1 DEF End, RestTyped, treeVars, NoPlan
<1>14. CASE OtherBegins \/ OtherMoves \/ OtherStats \/ OtherEnds \/ ResetSession
  <2>1. UNCHANGED <<treeVars, runVars, rowVars, did, exact>>
    BY <1>14 DEF OtherBegins, OtherMoves, OtherStats, OtherEnds, ResetSession
  <2> QED
    BY <1>1, <2>1 DEF RestTyped, treeVars, runVars, rowVars
<1>15. CASE UNCHANGED vars
  BY <1>1, <1>15 DEF vars, RestTyped, treeVars, runVars, rowVars
<1> QED
  BY <1>2, <1>3, <1>4, <1>5, <1>6, <1>7, <1>8, <1>9, <1>10, <1>11, <1>12, <1>13, <1>14, <1>15 DEF Next

LEMMA InvHolds == Spec => []RecordInv
<1>1. RecordInv /\ [Next]_vars => RecordInv'
  <2> SUFFICES ASSUME RecordInv, [Next]_vars PROVE RecordInv'
    OBVIOUS
  <2>1. Told' /\ ActivityTyped' /\ SessionCovered' /\ RestTyped'
    BY ToldNext, SessionNext, RestNext
  <2>2. Typed'
    BY <2>1 DEF Typed, TypeOK, RestTyped, ActivityTyped, Operations
  <2> QED
    BY <2>1, <2>2 DEF RecordInv
<1> QED
  BY <1>1, InvHoldsInitially, PTL DEF Spec

\* The variables keep to their types, and what is counted of a run into the
\* session is what it last reported (ActivityRecorder.record, forget and
\* reset_session).
THEOREM TypeCorrect == Spec => []TypeOK
<1>1. RecordInv => TypeOK
  BY DEF RecordInv, Typed
<1> QED
  BY <1>1, InvHolds, PTL

\* Whatever the wording of the log, and however many files, users and entries in
\* the table there are: the row of a run, its table of changes and its plan say
\* what happened to the files (_reconcile, _absorb, _record, _record_bisync).
THEOREM RecordsTell == Spec => []RecordTells
<1>1. RecordInv => RecordTells
  BY DEF RecordInv, Told
<1> QED
  BY <1>1, InvHolds, PTL

\* However the reports, the ends and the resets of two runs are interleaved, the
\* session shows no more than has moved (ActivityRecorder).
THEOREM SessionCounted == Spec => []SessionNeverInflated
<1>1. RecordInv => SessionNeverInflated
  <2> SUFFICES ASSUME RecordInv PROVE session <= burst
    BY DEF SessionNeverInflated
  <2>1. ActivityTyped /\ SessionCovered
    BY TypedParts DEF RecordInv
  <2>2. Unaccounted \in Nat
    <3>1. /\ counted["job"] \in Nat /\ counted["job"] <= Moved
          /\ counted["other"] \in Nat /\ counted["other"] <= other.bytes
      BY <2>1, MovedCounted, CountedIsReported DEF SessionCovered, Runs
    <3> QED
      BY <2>1, <3>1, MovedCounted, CountedIsReported DEF Unaccounted
  <2> QED
    BY <2>1, <2>2 DEF SessionCovered, ActivityTyped
<1> QED
  BY <1>1, InvHolds, PTL

\* A continuous cycle whose row is dropped did nothing to any file, logged no
\* error and ended well (_prune_quiet_cycle).
THEOREM QuietDropped == Spec => QuietMovedNothing
<1> DEFINE Dropped == at = "recorded" /\ row # NoRow /\ row' = NoRow
           Nothing == Done({"nothing"}) = Files /\ observed.errors = 0 /\ code = "ok"
<1>1. RecordInv /\ [Next]_vars => [Dropped => Nothing]_vars
  <2> SUFFICES ASSUME RecordInv, Next, Dropped PROVE Nothing
    OBVIOUS
  <2>1. Quiet
    BY DEF Next, UserEdits, Check, DryRun, PlanEnds, Begin, CopyFile, RemoveFile, LeaveFile,
           FileError, Stats, Exit, Record, Prune, End, OtherBegins, OtherMoves, OtherStats,
           OtherEnds, ResetSession, rowVars
  <2>2. CardsTell /\ row.errors = observed.errors /\ code = "ok"
    BY <2>1 DEF RecordInv, Told, RecordTells, RowOfRun, Quiet
  <2>3. Count(Done({"new", "updated"})) = 0 /\ Count(Done({"deleted", "archived"})) = 0
    BY <2>1, <2>2 DEF Quiet, CardsTell
  <2>4. \A K : IsFiniteSet(Done(K))
    BY FilesCounted DEF Done
  <2>5. Done({"new", "updated"}) = {} /\ Done({"deleted", "archived"}) = {}
    BY <2>3, <2>4, FS_EmptySet DEF Count
  <2>6. \A f \in Files : did[f] \in {"nothing", "new", "updated", "deleted", "archived"}
    BY DEF RecordInv, Typed, TypeOK
  <2>7. Done({"nothing"}) = Files
    BY <2>5, <2>6 DEF Done
  <2> QED
    BY <2>1, <2>2, <2>7 DEF Quiet
<1> QED
  BY <1>1, InvHolds, PTL DEF Spec, QuietMovedNothing
=============================================================================
