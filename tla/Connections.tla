---------------------------- MODULE Connections ----------------------------
(***************************************************************************)
(* The configuration a job is made of: connections with their pinned host  *)
(* keys and probed capabilities, the credentials and filter presets they   *)
(* and the jobs refer to, and the import that adds all of them at once.    *)
(*                                                                         *)
(* Every handler loads rows into a session of its own, works on the copy   *)
(* (a test for seconds over the network, a form until its body has been    *)
(* read), and commits.  SQLAlchemy writes the columns that differ from the *)
(* copy and no others, so a request is a Load and a Finish with other      *)
(* requests in between, and Finish writes over whatever the row holds by   *)
(* then.  Foreign keys are enforced by the database when it commits.       *)
(***************************************************************************)
EXTENDS Naturals, FiniteSets

CONSTANTS
    Ids,          \* the connections there may be; an id is used again after a delete
    Places,       \* what a connection can point at
    Identity,     \* [Places -> ...]: type, host, port and share
    Offered,      \* [Places -> SUBSET SUBSET Keys]: the host keys an SFTP server
                  \* offers, now or after it is rebuilt; empty for any other type
    Keys,         \* the host keys (their fingerprints)
    Credentials,
    Presets,      \* the custom filter presets
    Jobs,
    Requests,     \* bound: the requests served at one time
    None

ASSUME ConstantsAssumption ==
    /\ DOMAIN Identity = Places
    /\ Offered \in [Places -> SUBSET ((SUBSET Keys) \ {{}})]
    /\ None \notin Places \cup Credentials

VARIABLES
    conn,        \* the connection table: a row or None
    credential,  \* the credentials there are
    preset,      \* the custom presets there are
    job,         \* the job table: [connection, presets] or None
    req          \* what each request is doing: its kind, what it read, what it was asked

tables == <<conn, credential, preset, job>>
vars == <<conn, credential, preset, job, req>>

Row    == [place : Places, credential : Credentials \cup {None},
           keys : SUBSET Keys, trusted : BOOLEAN, capabilities : Places \cup {None}]
JobRow == [connection : Ids, presets : SUBSET Presets]
Idle   == [kind |-> "idle"]

Stored(i) == conn[i] # None
Sftp(p)   == Offered[p] # {}
Users(i)  == {j \in Jobs : job[j] # None /\ job[j].connection = i}
UsersOfPreset(p)     == {j \in Jobs : job[j] # None /\ p \in job[j].presets}
UsersOfCredential(k) == {i \in Ids : Stored(i) /\ conn[i].credential = k}

\* Mutant: a new row starts with an empty probe, as JSON columns often do.
BlankProbed(p, k) == [place |-> p, credential |-> k, keys |-> {}, trusted |-> FALSE,
                      capabilities |-> {}]

Blank(p, k) == [place |-> p, credential |-> k, keys |-> {}, trusted |-> FALSE,
                capabilities |-> None]

Init ==
    /\ conn = [i \in Ids |-> None]
    /\ credential = {}
    /\ preset = {}
    /\ job = [j \in Jobs |-> None]
    /\ req = [r \in Requests |-> Idle]

-----------------------------------------------------------------------------
(* What a commit does. *)

\* Mutant: PRAGMA foreign_keys is not set, which is SQLite's default.
NoForeignKeys(c, k, p, j) == TRUE

\* The references the tables declare, all of them RESTRICT.
ForeignKeys(c, k, p, j) ==
    /\ \A i \in Ids : c[i] # None => c[i].credential \in k \cup {None}
    /\ \A n \in Jobs : j[n] # None => c[j[n].connection] # None /\ j[n].presets \subseteq p

\* The transaction: all of it, or an IntegrityError and a rollback.
Commit(c, k, p, j) ==
    \/ /\ ForeignKeys(c, k, p, j)
       /\ conn' = c /\ credential' = k /\ preset' = p /\ job' = j
    \/ /\ ~ForeignKeys(c, k, p, j)
       /\ UNCHANGED tables

\* The UPDATE of a loaded row that has become `new`: the columns that differ.
\* Of a row that is gone it finds nothing, and the request fails.
Flush(i, old, new) ==
    LET dirty == {f \in DOMAIN old : new[f] # old[f]} IN
    IF Stored(i)
    THEN [conn EXCEPT ![i] = [f \in DOMAIN @ |-> IF f \in dirty THEN new[f] ELSE @[f]]]
    ELSE conn

Update(i, old, new) == Commit(Flush(i, old, new), credential, preset, job)

Free(r)  == req[r] = Idle
Is(r, k) == req[r].kind = k
Done(r)  == req' = [req EXCEPT ![r] = Idle]

-----------------------------------------------------------------------------
(* Loading. *)

\* What a handler looks at and writes of the row it loads.
Columns(kind) ==
    CASE kind = "test" -> {"place", "keys", "trusted", "capabilities"}
      [] kind = "edit" -> {"place", "credential", "capabilities"}
      [] OTHER         -> {"keys", "trusted"}

Copy(kind, i) == [f \in Columns(kind) |-> conn[i][f]]

\* A handler of one connection: it reads the row and goes off to do its work,
\* waiting for the form or for rclone.
Load(r) ==
    /\ Free(r)
    /\ \E i \in Ids, k \in {"test", "forget"} :
          /\ Stored(i)
          /\ req' = [req EXCEPT ![r] = [kind |-> k, id |-> i, copy |-> Copy(k, i)]]
    /\ UNCHANGED tables

\* The operator approves a key that has been shown, whatever is recorded by now.
LoadTrust(r) ==
    /\ Free(r)
    /\ \E i \in Ids, f \in Keys :
          /\ Stored(i)
          /\ req' = [req EXCEPT ![r] = [kind |-> "trust", id |-> i,
                                        copy |-> Copy("trust", i), fingerprint |-> f]]
    /\ UNCHANGED tables

LoadEdit(r) ==
    /\ Free(r)
    /\ \E i \in Ids, p \in Places, k \in Credentials \cup {None} :
          /\ Stored(i)
          /\ req' = [req EXCEPT ![r] = [kind |-> "edit", id |-> i, copy |-> Copy("edit", i),
                                        place |-> p, credential |-> k]]
    /\ UNCHANGED tables

\* A delete goes on only when nothing uses the row at that time; the user is
\* told by what it is used otherwise.
LoadDelete(r) ==
    /\ Free(r)
    /\ \E i \in Ids : /\ Stored(i) /\ Users(i) = {}
                     /\ req' = [req EXCEPT ![r] = [kind |-> "drop", id |-> i]]
    /\ UNCHANGED tables

LoadDeleteCredential(r) ==
    /\ Free(r)
    /\ \E k \in credential : /\ UsersOfCredential(k) = {}
                            /\ req' = [req EXCEPT ![r] = [kind |-> "dropCredential", id |-> k]]
    /\ UNCHANGED tables

LoadDeletePreset(r) ==
    /\ Free(r)
    /\ \E p \in preset : /\ UsersOfPreset(p) = {}
                        /\ req' = [req EXCEPT ![r] = [kind |-> "dropPreset", id |-> p]]
    /\ UNCHANGED tables

\* create_job and update_job: the connection and the presets are looked up
\* before the job is written.
LoadJob(r) ==
    /\ Free(r)
    /\ \E j \in Jobs, i \in Ids, ps \in SUBSET preset :
          /\ Stored(i)
          /\ req' = [req EXCEPT ![r] = [kind |-> "job", id |-> j, connection |-> i,
                                        presets |-> ps, copy |-> job[j]]]
    /\ UNCHANGED tables

\* import_document: the credentials, and the names there are, are read before
\* anything is written.  The session does not flush by itself, so the presets
\* the document brings are not among those its jobs are linked to.
LoadImport(r) ==
    /\ Free(r)
    /\ req' = [req EXCEPT ![r] = [kind |-> "import", connections |-> {i \in Ids : Stored(i)},
                                  credentials |-> credential, presets |-> preset]]
    /\ UNCHANGED tables

-----------------------------------------------------------------------------
(* Finishing. *)

\* known_hosts_content: the keys that rclone is given to check the server with.
Pinned(row) == IF row.trusted THEN row.keys ELSE {}

\* Whether rclone gets through: of a pinned server only with a pinned key.
\* Nothing pinned, nothing checked.
Reaches(row) ==
    \/ ~Sftp(row.place) \/ Pinned(row) = {}
    \/ \E s \in Offered[row.place] : s \cap Pinned(row) # {}

\* Keys are recorded when they are shown and not trusted before they are approved.
Scanned(row, s) == [row EXCEPT !.keys = s, !.trusted = FALSE]

\* probe.test_connection: an SFTP server that is not trusted yet is asked for
\* its keys and no more; any other endpoint is listed and probed.
Tested(row) ==
    IF Sftp(row.place) /\ ~row.trusted
    THEN {Scanned(row, s) : s \in Offered[row.place]}
    ELSE {new \in {[row EXCEPT !.capabilities = row.place]} : Reaches(row)}

Test(r) ==
    /\ Is(r, "test")
    /\ \/ \E new \in Tested(req[r].copy) : Update(req[r].id, req[r].copy, new)
       \/ UNCHANGED tables                \* unreachable, or no answer from the scan
    /\ Done(r)

\* trust_host_key: the fingerprint has to be one of those in the copy.
Trust(r) ==
    /\ Is(r, "trust")
    /\ LET row == req[r].copy IN
       \/ /\ req[r].fingerprint \in row.keys
          /\ Update(req[r].id, row, [row EXCEPT !.trusted = TRUE])
       \/ /\ req[r].fingerprint \notin row.keys
          /\ UNCHANGED tables
    /\ Done(r)

\* Mutant: the mark stays with the connection.
ForgottenKeys(row) == [row EXCEPT !.keys = {}]

Forgotten(row) == [row EXCEPT !.keys = {}, !.trusted = FALSE]

Forget(r) ==
    /\ Is(r, "forget")
    /\ Update(req[r].id, req[r].copy, Forgotten(req[r].copy))
    /\ Done(r)

\* Mutant: before and after are both taken once the fields are set.
EditedOnly(row, p, k) == [row EXCEPT !.place = p, !.credential = k]

\* update_connection: the fields of the form, and the probe goes when the
\* connection points somewhere else.  The host keys stay.
Edited(row, p, k) ==
    LET probe == IF Identity[p] # Identity[row.place] THEN None ELSE row.capabilities
    IN [row EXCEPT !.place = p, !.credential = k, !.capabilities = probe]

Edit(r) ==
    /\ Is(r, "edit")
    /\ LET row == req[r].copy IN
       Update(req[r].id, row, Edited(row, req[r].place, req[r].credential))
    /\ Done(r)

Drop(r) ==
    /\ Is(r, "drop")
    /\ Commit([conn EXCEPT ![req[r].id] = None], credential, preset, job)
    /\ Done(r)

DropCredential(r) ==
    /\ Is(r, "dropCredential")
    /\ Commit(conn, credential \ {req[r].id}, preset, job)
    /\ Done(r)

DropPreset(r) ==
    /\ Is(r, "dropPreset")
    /\ Commit(conn, credential, preset \ {req[r].id}, job)
    /\ Done(r)

\* An insert of a name that is taken and an update of a row that is gone fail,
\* and so does one whose links have changed: only the differences are written,
\* and a link that is there already or no longer is an error.
SaveJob(r) ==
    /\ Is(r, "job")
    /\ LET j     == req[r].id
           old   == req[r].copy
           new   == [connection |-> req[r].connection, presets |-> req[r].presets]
           fresh == IF old = None THEN job[j] = None
                    ELSE /\ job[j] # None
                         /\ (new.presets \ old.presets) \cap job[j].presets = {}
                         /\ old.presets \ new.presets \subseteq job[j].presets
           kept  == IF old = None THEN {} ELSE job[j].presets \ (old.presets \ new.presets)
           added == IF old = None THEN new.presets ELSE new.presets \ old.presets
       IN \/ /\ fresh
             /\ Commit(conn, credential, preset,
                       [job EXCEPT ![j] = [new EXCEPT !.presets = kept \cup added]])
          \/ ~fresh /\ UNCHANGED tables
    /\ Done(r)

\* The import writes its rows in one transaction: what was there by name when
\* it looked is skipped, what has come since makes all of it fail.
Imported(r, i, p, k, j) ==
    [c |-> IF i \in req[r].connections THEN conn
           ELSE [conn EXCEPT ![i] = Blank(p, IF k \in req[r].credentials THEN k ELSE None)],
     p |-> preset \cup (Presets \ req[r].presets),
     j |-> IF job[j] # None THEN job
           ELSE [job EXCEPT ![j] = [connection |-> i, presets |-> req[r].presets]]]

\* The document lists one connection with its credential, one job and every preset.
Import(r) ==
    /\ Is(r, "import")
    /\ \E i \in Ids, p \in Places, k \in Credentials, j \in Jobs :
          LET new == Imported(r, i, p, k, j)
              clash == \/ i \notin req[r].connections /\ Stored(i)
                       \/ (Presets \ req[r].presets) \cap preset # {}
              \* a job whose connection is not there is refused, the rest imported
              linked == IF new.c[i] = None THEN job ELSE new.j
          IN \/ ~clash /\ Commit(new.c, credential, new.p, linked)
             \/ clash /\ UNCHANGED tables
    /\ Done(r)

-----------------------------------------------------------------------------
(* Requests that read nothing they rely on. *)

\* Of two requests of one name the second is refused.
CreateConnection(i, p, k) ==
    /\ ~Stored(i)
    /\ Commit([conn EXCEPT ![i] = Blank(p, k)], credential, preset, job)
    /\ UNCHANGED req

CreateCredential(k) ==
    /\ k \notin credential
    /\ Commit(conn, credential \cup {k}, preset, job)
    /\ UNCHANGED req

CreatePreset(p) ==
    /\ p \notin preset
    /\ Commit(conn, credential, preset \cup {p}, job)
    /\ UNCHANGED req

DeleteJob(j) ==
    /\ job[j] # None
    /\ Commit(conn, credential, preset, [job EXCEPT ![j] = None])
    /\ UNCHANGED req

Next ==
    \/ \E r \in Requests :
          \/ Load(r) \/ LoadTrust(r) \/ LoadEdit(r) \/ LoadJob(r) \/ LoadImport(r)
          \/ LoadDelete(r) \/ LoadDeleteCredential(r) \/ LoadDeletePreset(r)
          \/ Test(r) \/ Trust(r) \/ Forget(r) \/ Edit(r) \/ Drop(r)
          \/ DropCredential(r) \/ DropPreset(r) \/ SaveJob(r) \/ Import(r)
    \/ \E i \in Ids, p \in Places, k \in Credentials \cup {None} : CreateConnection(i, p, k)
    \/ \E k \in Credentials : CreateCredential(k)
    \/ \E p \in Presets : CreatePreset(p)
    \/ \E j \in Jobs : DeleteJob(j)

Spec == Init /\ [][Next]_vars

-----------------------------------------------------------------------------
(* Correctness. *)

ConnectionKinds == {"test", "trust", "forget", "edit"}

\* Rows, references and what requests hold are of their kind; a request that
\* works on a connection has a copy of a row.
TypeOK ==
    /\ conn \in [Ids -> Row \cup {None}]
    /\ credential \subseteq Credentials
    /\ preset \subseteq Presets
    /\ job \in [Jobs -> JobRow \cup {None}]
    /\ \A r \in Requests : req[r].kind \in ConnectionKinds
          => /\ req[r].id \in Ids
             /\ DOMAIN req[r].copy = Columns(req[r].kind)

\* A request r finishes on a copy that is out of date: somebody else has
\* committed to the connection, deleted it or made another with its id.
ActsOnOldCopy(r, i) ==
    /\ req[r].kind \in ConnectionKinds /\ req[r].id = i
    /\ req'[r] = Idle
    /\ ~Stored(i) \/ req[r].copy # Copy(req[r].kind, i)

Approved(r, i) ==
    /\ Is(r, "trust") /\ req[r].id = i /\ req'[r] = Idle
    /\ req[r].fingerprint \in conn'[i].keys

\* Keys a connection trusts are keys somebody approved: they become trusted by
\* an approval of one of them, and change while they are trusted only through
\* a request that began before the approval and knows nothing of it (a test
\* that was still scanning, a forget crossing an approval).
PinnedAsReviewed ==
    [][\A i \in Ids :
          (conn'[i] # None /\ conn'[i].trusted)
          => \/ Stored(i) /\ conn[i].trusted /\ conn[i].keys = conn'[i].keys
             \/ \E r \in Requests : Approved(r, i) \/ ActsOnOldCopy(r, i)]_vars

Fits(row) == row = None \/ row.capabilities = None
             \/ Identity[row.capabilities] = Identity[row.place]

\* What a connection is said to support was probed at what it points at, which
\* decides what jobs may do with it; only a request that crosses an edit of
\* the connection can leave it with the probe of another place.
ProbeOfThisPlace ==
    [][\A i \in Ids :
          Fits(conn[i]) /\ ~Fits(conn'[i]) => \E r \in Requests : ActsOnOldCopy(r, i)]_vars

\* Whatever is deleted while something else starts to use it: no job is left
\* without its connection or a preset, no connection without its credential.
NoDanglingReference ==
    /\ \A j \in Jobs : job[j] # None => Stored(job[j].connection) /\ job[j].presets \subseteq preset
    /\ \A i \in Ids : Stored(i) => conn[i].credential \in credential \cup {None}

\* Violated: a job that an import creates has the presets its document lists,
\* the ones that came with the same document included.
ImportedWithPresets ==
    [][\A r \in Requests, j \in Jobs :
          (Is(r, "import") /\ req'[r] = Idle /\ job[j] = None /\ job'[j] # None)
          => job'[j].presets = Presets]_vars
=============================================================================
