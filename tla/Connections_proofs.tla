------------------------- MODULE Connections_proofs -------------------------
(***************************************************************************)
(* Theorems about Connections, for any sets of connections, places, keys,  *)
(* credentials, presets, jobs and requests.                                *)
(***************************************************************************)
EXTENDS Connections, TLAPS

Fields == {"place", "credential", "keys", "trusted", "capabilities"}

Kinds == ConnectionKinds \cup {"idle", "drop", "dropCredential", "dropPreset", "job", "import"}

\* A copy of a row has the columns its kind of request works on.
CopyOK(kind, c) ==
    /\ c = [f \in Columns(kind) |-> c[f]]
    /\ "place" \in Columns(kind) => c.place \in Places
    /\ "credential" \in Columns(kind) => c.credential \in Credentials \cup {None}
    /\ "keys" \in Columns(kind) => c.keys \in SUBSET Keys
    /\ "trusted" \in Columns(kind) => c.trusted \in BOOLEAN
    /\ "capabilities" \in Columns(kind) => c.capabilities \in Places \cup {None}

\* What a request holds.
RequestOK(q) ==
    /\ q.kind \in Kinds
    /\ q.kind \in ConnectionKinds => q.id \in Ids /\ CopyOK(q.kind, q.copy)
    /\ q.kind = "edit" => q.place \in Places /\ q.credential \in Credentials \cup {None}
    /\ q.kind = "job" => /\ q.id \in Jobs /\ q.connection \in Ids
                         /\ q.presets \in SUBSET Presets /\ q.copy \in JobRow \cup {None}
    /\ q.kind = "drop" => q.id \in Ids
    /\ q.kind = "import" => q.credentials \in SUBSET Credentials /\ q.presets \in SUBSET Presets

Typed ==
    /\ conn \in [Ids -> Row \cup {None}]
    /\ credential \in SUBSET Credentials
    /\ preset \in SUBSET Presets
    /\ job \in [Jobs -> JobRow \cup {None}]
    /\ req = [r \in Requests |-> req[r]]
    /\ \A r \in Requests : RequestOK(req[r])

-----------------------------------------------------------------------------
(* Rows. *)

LEMMA RowFields ==
  ASSUME NEW row \in Row
  PROVE  /\ row = [f \in Fields |-> row[f]]
         /\ row.place \in Places /\ row.credential \in Credentials \cup {None}
         /\ row.keys \in SUBSET Keys /\ row.trusted \in BOOLEAN
         /\ row.capabilities \in Places \cup {None}
  BY DEF Row, Fields

LEMMA RowOfFields ==
  ASSUME NEW row, row = [f \in Fields |-> row[f]],
         row.place \in Places, row.credential \in Credentials \cup {None},
         row.keys \in SUBSET Keys, row.trusted \in BOOLEAN,
         row.capabilities \in Places \cup {None}
  PROVE  row \in Row
  <1>1. row = [place |-> row.place, credential |-> row.credential, keys |-> row.keys,
               trusted |-> row.trusted, capabilities |-> row.capabilities]
    BY DEF Fields
  <1> QED
    BY <1>1 DEF Row

LEMMA BlankRow ==
  ASSUME NEW p \in Places, NEW k \in Credentials \cup {None}
  PROVE  Blank(p, k) \in Row
  BY DEF Blank, Row

LEMMA CopyTyped ==
  ASSUME Typed, NEW i \in Ids, Stored(i), NEW kind \in ConnectionKinds
  PROVE  CopyOK(kind, Copy(kind, i))
  <1>1. conn[i] \in Row
    BY DEF Typed, Stored
  <1>2. Columns(kind) \subseteq Fields
    BY DEF ConnectionKinds, Columns, Fields
  <1>3. Copy(kind, i) = [f \in Columns(kind) |-> Copy(kind, i)[f]]
        /\ \A f \in Columns(kind) : Copy(kind, i)[f] = conn[i][f]
    BY DEF Copy
  <1> QED
    BY <1>1, <1>3, RowFields DEF CopyOK

\* What an UPDATE writes over a row: the columns in which the request's copy
\* has changed.
Merge(row, old, new) ==
    [f \in DOMAIN row |-> IF f \in DOMAIN old /\ new[f] # old[f] THEN new[f] ELSE row[f]]

LEMMA FlushMerges ==
  ASSUME NEW i \in Ids, NEW old, NEW new, Stored(i), conn = [n \in Ids |-> conn[n]]
  PROVE  Flush(i, old, new) = [conn EXCEPT ![i] = Merge(conn[i], old, new)]
  BY DEF Flush, Merge

-----------------------------------------------------------------------------
(* What a step does to a connection. *)

\* What request r makes of its copy.
Makes(r, new) ==
    \/ Is(r, "test") /\ new \in Tested(req[r].copy)
    \/ /\ Is(r, "trust") /\ req[r].fingerprint \in req[r].copy.keys
       /\ new = [req[r].copy EXCEPT !.trusted = TRUE]
    \/ Is(r, "forget") /\ new = Forgotten(req[r].copy)
    \/ Is(r, "edit") /\ new = Edited(req[r].copy, req[r].place, req[r].credential)

\* A connection is left alone, goes, comes as a blank row, or is updated by a
\* request that is done with that.
Left(i)    == conn'[i] = conn[i]
Gone(i)    == conn'[i] = None
Created(i) == ~Stored(i) /\ \E p \in Places, k \in Credentials \cup {None} : conn'[i] = Blank(p, k)
Updated(i) ==
    \E r \in Requests :
        /\ req[r].kind \in ConnectionKinds /\ req[r].id = i /\ req' = [req EXCEPT ![r] = Idle]
        /\ Stored(i)
        /\ \E new : Makes(r, new) /\ conn'[i] = Merge(conn[i], req[r].copy, new)
Effect(i) == Left(i) \/ Gone(i) \/ Created(i) \/ Updated(i)

LEMMA UpdateEffect ==
  ASSUME Typed, NEW r \in Requests, req[r].kind \in ConnectionKinds,
         NEW new, Makes(r, new),
         Update(req[r].id, req[r].copy, new), req' = [req EXCEPT ![r] = Idle]
  PROVE  \A i \in Ids : Effect(i)
  <1>1. req[r].id \in Ids /\ conn = [n \in Ids |-> conn[n]]
    BY DEF Typed, RequestOK
  <1>2. CASE conn' = conn
    BY <1>2 DEF Effect, Left
  <1>3. CASE conn' = Flush(req[r].id, req[r].copy, new) /\ ~Stored(req[r].id)
    BY <1>3 DEF Effect, Left, Flush
  <1>4. CASE conn' = Flush(req[r].id, req[r].copy, new) /\ Stored(req[r].id)
    <2> SUFFICES ASSUME NEW i \in Ids PROVE Effect(i)
      OBVIOUS
    <2>1. conn' = [conn EXCEPT ![req[r].id] = Merge(conn[req[r].id], req[r].copy, new)]
      BY <1>1, <1>4, FlushMerges
    <2>2. CASE i = req[r].id
      <3>1. conn'[i] = Merge(conn[i], req[r].copy, new)
        BY <1>1, <2>1, <2>2
      <3> QED
        BY <1>4, <2>2, <3>1 DEF Effect, Updated
    <2>3. CASE i # req[r].id
      BY <1>1, <2>1, <2>3 DEF Effect, Left
    <2> QED
      BY <2>2, <2>3
  <1> QED
    BY <1>2, <1>3, <1>4 DEF Update, Commit, tables

\* A transaction is done or not.
LEMMA CommitOrNot ==
  ASSUME NEW c, NEW k, NEW p, NEW j, Commit(c, k, p, j)
  PROVE  \/ conn' = c /\ credential' = k /\ preset' = p /\ job' = j /\ ForeignKeys(c, k, p, j)
         \/ UNCHANGED tables
  BY DEF Commit

\* Every step does one of these to each connection.
LEMMA ConnectionStep ==
  ASSUME Typed, [Next]_vars
  PROVE  \A i \in Ids : Effect(i)
<1> USE DEF Effect, Left
<1>1. ASSUME UNCHANGED tables PROVE \A i \in Ids : Effect(i)
  BY <1>1 DEF tables
<1>2. ASSUME NEW r \in Requests,
             \/ Load(r) \/ LoadTrust(r) \/ LoadEdit(r) \/ LoadJob(r) \/ LoadImport(r)
             \/ LoadDelete(r) \/ LoadDeleteCredential(r) \/ LoadDeletePreset(r)
      PROVE  \A i \in Ids : Effect(i)
  <2>1. UNCHANGED tables
    BY <1>2 DEF Load, LoadTrust, LoadEdit, LoadJob, LoadImport, LoadDelete, LoadDeleteCredential,
                LoadDeletePreset
  <2> QED
    BY <1>1, <2>1
<1>3. ASSUME NEW r \in Requests, Test(r) PROVE \A i \in Ids : Effect(i)
  <2>1. CASE UNCHANGED tables
    BY <1>1, <2>1
  <2>2. ASSUME NEW new \in Tested(req[r].copy), Update(req[r].id, req[r].copy, new)
        PROVE  \A i \in Ids : Effect(i)
    BY <1>3, <2>2, UpdateEffect DEF Test, Done, Makes, Is, ConnectionKinds
  <2> QED
    BY <1>3, <2>1, <2>2 DEF Test
<1>4. ASSUME NEW r \in Requests, Trust(r) PROVE \A i \in Ids : Effect(i)
  <2>1. CASE UNCHANGED tables
    BY <1>1, <2>1
  <2>2. CASE /\ req[r].fingerprint \in req[r].copy.keys
             /\ Update(req[r].id, req[r].copy, [req[r].copy EXCEPT !.trusted = TRUE])
    BY <1>4, <2>2, UpdateEffect DEF Trust, Done, Makes, Is, ConnectionKinds
  <2> QED
    BY <1>4, <2>1, <2>2 DEF Trust
<1>5. ASSUME NEW r \in Requests, Forget(r) PROVE \A i \in Ids : Effect(i)
  BY <1>5, UpdateEffect DEF Forget, Done, Makes, Is, ConnectionKinds
<1>6. ASSUME NEW r \in Requests, Edit(r) PROVE \A i \in Ids : Effect(i)
  BY <1>6, UpdateEffect DEF Edit, Done, Makes, Is, ConnectionKinds
<1>7. ASSUME NEW r \in Requests, Drop(r) PROVE \A i \in Ids : Effect(i)
  <2>1. conn' = [conn EXCEPT ![req[r].id] = None] \/ UNCHANGED tables
    BY <1>7, CommitOrNot DEF Drop
  <2> QED
    BY <1>1, <2>1 DEF Gone, Typed
<1>8. ASSUME NEW r \in Requests, DropCredential(r) \/ DropPreset(r) \/ SaveJob(r)
      PROVE  \A i \in Ids : Effect(i)
  <2>1. conn' = conn
    BY <1>8, CommitOrNot DEF DropCredential, DropPreset, SaveJob, tables
  <2> QED
    BY <2>1
<1>9. ASSUME NEW r \in Requests, Import(r) PROVE \A i \in Ids : Effect(i)
  <2>1. PICK n \in Ids, p \in Places, k \in Credentials, j \in Jobs :
            \/ UNCHANGED tables
            \/ /\ conn' = Imported(r, n, p, k, j).c
               /\ ~(n \notin req[r].connections /\ Stored(n))
    BY <1>9, CommitOrNot DEF Import
  <2>2. CASE conn' = conn \/ UNCHANGED tables
    BY <1>1, <2>2
  <2>3. CASE /\ n \notin req[r].connections /\ ~Stored(n)
             /\ conn' = [conn EXCEPT ![n] = Blank(p, IF k \in req[r].credentials THEN k ELSE None)]
    BY <2>3 DEF Created, Typed
  <2> QED
    BY <2>1, <2>2, <2>3 DEF Imported
<1>10. ASSUME NEW n \in Ids, NEW p \in Places, NEW k \in Credentials \cup {None},
              CreateConnection(n, p, k)
       PROVE  \A i \in Ids : Effect(i)
  <2>1. conn' = [conn EXCEPT ![n] = Blank(p, k)] \/ UNCHANGED tables
    BY <1>10, CommitOrNot DEF CreateConnection
  <2> QED
    BY <1>1, <1>10, <2>1 DEF Created, Typed, CreateConnection
<1>11. ASSUME \/ \E k \in Credentials : CreateCredential(k)
              \/ \E p \in Presets : CreatePreset(p)
              \/ \E j \in Jobs : DeleteJob(j)
       PROVE  \A i \in Ids : Effect(i)
  <2>1. conn' = conn
    BY <1>11, CommitOrNot DEF CreateCredential, CreatePreset, DeleteJob, tables
  <2> QED
    BY <2>1
<1>12. CASE UNCHANGED vars
  BY <1>12 DEF vars
<1> QED
  BY <1>2, <1>3, <1>4, <1>5, <1>6, <1>7, <1>8, <1>9, <1>10, <1>11, <1>12 DEF Next

-----------------------------------------------------------------------------
(* Types. *)

\* What a request makes of its copy has the columns of the copy.
LEMMA MadeTyped ==
  ASSUME Typed, NEW r \in Requests, NEW new, Makes(r, new)
  PROVE  CopyOK(req[r].kind, new)
  <1> DEFINE c == req[r].copy
  <1>1. req[r].kind \in ConnectionKinds /\ CopyOK(req[r].kind, c)
    BY DEF Typed, RequestOK, Makes, Is, ConnectionKinds
  <1>2. CASE Is(r, "test")
    <2>1. c = [f \in {"place", "keys", "trusted", "capabilities"} |-> c[f]]
          /\ c.place \in Places /\ c.keys \in SUBSET Keys /\ c.trusted \in BOOLEAN
          /\ c.capabilities \in Places \cup {None}
      BY <1>1, <1>2 DEF Is, Columns, CopyOK
    <2>2. \/ \E s \in Offered[c.place] : new = [c EXCEPT !.keys = s, !.trusted = FALSE]
          \/ new = [c EXCEPT !.capabilities = c.place]
      BY <1>2 DEF Makes, Tested, Scanned, Is
    <2>3. \A s \in Offered[c.place] : s \in SUBSET Keys
      BY <2>1, ConstantsAssumption
    <2> HIDE DEF c
    <2>4. new = [f \in {"place", "keys", "trusted", "capabilities"} |-> new[f]]
          /\ new.place \in Places /\ new.keys \in SUBSET Keys /\ new.trusted \in BOOLEAN
          /\ new.capabilities \in Places \cup {None}
      BY <2>1, <2>2, <2>3
    <2> QED
      BY <1>2, <2>4 DEF Is, Columns, CopyOK
  <1>3. CASE Is(r, "trust") \/ Is(r, "forget")
    <2>1. c = [f \in {"keys", "trusted"} |-> c[f]] /\ c.keys \in SUBSET Keys /\ c.trusted \in BOOLEAN
      BY <1>1, <1>3 DEF Is, Columns, CopyOK
    <2>2. new = [c EXCEPT !.trusted = TRUE] \/ new = [c EXCEPT !.keys = {}, !.trusted = FALSE]
      BY <1>3 DEF Makes, Forgotten, Is
    <2> HIDE DEF c
    <2>3. new = [f \in {"keys", "trusted"} |-> new[f]] /\ new.keys \in SUBSET Keys
          /\ new.trusted \in BOOLEAN
      BY <2>1, <2>2
    <2> QED
      BY <1>3, <2>3 DEF Is, Columns, CopyOK
  <1>4. CASE Is(r, "edit")
    <2>1. c = [f \in {"place", "credential", "capabilities"} |-> c[f]]
          /\ c.place \in Places /\ c.credential \in Credentials \cup {None}
          /\ c.capabilities \in Places \cup {None}
      BY <1>1, <1>4 DEF Is, Columns, CopyOK
    <2> DEFINE p == req[r].place
               k == req[r].credential
               a == IF Identity[p] # Identity[c.place] THEN None ELSE c.capabilities
    <2>2. /\ p \in Places /\ k \in Credentials \cup {None} /\ a \in Places \cup {None}
          /\ new = [c EXCEPT !.place = p, !.credential = k, !.capabilities = a]
      <3>1. p \in Places /\ k \in Credentials \cup {None}
        BY <1>4 DEF Is, Typed, RequestOK
      <3>2. new = Edited(c, p, k)
        BY <1>4 DEF Makes, Is
      <3> QED
        BY <2>1, <3>1, <3>2 DEF Edited
    <2> HIDE DEF c, p, k, a
    <2>3. new = [f \in {"place", "credential", "capabilities"} |-> new[f]]
          /\ new.place \in Places /\ new.credential \in Credentials \cup {None}
          /\ new.capabilities \in Places \cup {None}
      BY <2>1, <2>2
    <2> QED
      BY <1>4, <2>3 DEF Is, Columns, CopyOK
  <1> QED
    BY <1>2, <1>3, <1>4 DEF Makes

\* The columns of a row after an update.
LEMMA MergeFields ==
  ASSUME NEW row \in Row, NEW kind \in ConnectionKinds, NEW old, NEW new,
         CopyOK(kind, old)
  PROVE  /\ Merge(row, old, new) = [f \in Fields |-> Merge(row, old, new)[f]]
         /\ \A f \in Fields :
               Merge(row, old, new)[f] =
                  IF f \in Columns(kind) /\ new[f] # old[f] THEN new[f] ELSE row[f]
  <1>1. DOMAIN row = Fields /\ DOMAIN old = Columns(kind)
    BY RowFields DEF CopyOK
  <1> QED
    BY <1>1 DEF Merge

LEMMA MergeTyped ==
  ASSUME NEW row \in Row, NEW kind \in ConnectionKinds, NEW old, NEW new,
         CopyOK(kind, old), CopyOK(kind, new)
  PROVE  Merge(row, old, new) \in Row
  <1> DEFINE m == Merge(row, old, new)
  <1>1. m = [f \in Fields |-> m[f]]
        /\ \A f \in Fields : m[f] = row[f] \/ (f \in Columns(kind) /\ m[f] = new[f])
    BY MergeFields
  <1> HIDE DEF m
  <1>2. /\ m.place \in Places /\ m.credential \in Credentials \cup {None}
        /\ m.keys \in SUBSET Keys /\ m.trusted \in BOOLEAN
        /\ m.capabilities \in Places \cup {None}
    BY <1>1, RowFields DEF Fields, CopyOK
  <1>3. m \in Row
    BY <1>1, <1>2, RowOfFields
  <1> QED
    BY <1>3 DEF m

LEMMA ConnTyped ==
  ASSUME Typed, [Next]_vars, conn' = [i \in Ids |-> conn'[i]]
  PROVE  conn' \in [Ids -> Row \cup {None}]
  <1> SUFFICES ASSUME NEW i \in Ids PROVE conn'[i] \in Row \cup {None}
    OBVIOUS
  <1>1. Effect(i)
    BY ConnectionStep
  <1>2. CASE Left(i) \/ Gone(i)
    BY <1>2 DEF Left, Gone, Typed
  <1>3. CASE Created(i)
    BY <1>3, BlankRow DEF Created
  <1>4. CASE Updated(i)
    <2>1. PICK r \in Requests : /\ req[r].kind \in ConnectionKinds /\ Stored(i)
                                 /\ \E new : Makes(r, new) /\ conn'[i] = Merge(conn[i], req[r].copy, new)
      BY <1>4 DEF Updated
    <2>2. PICK new : Makes(r, new) /\ conn'[i] = Merge(conn[i], req[r].copy, new)
      BY <2>1
    <2>3. conn[i] \in Row /\ CopyOK(req[r].kind, req[r].copy)
      BY <2>1 DEF Typed, Stored, RequestOK
    <2>4. CopyOK(req[r].kind, new)
      BY <2>2, MadeTyped
    <2>5. Merge(conn[i], req[r].copy, new) \in Row
      BY <2>1, <2>3, <2>4, MergeTyped
    <2> QED
      BY <2>2, <2>5
  <1> QED
    BY <1>1, <1>2, <1>3, <1>4 DEF Effect

\* A request that is done holds nothing.
LEMMA DoneTyped ==
  ASSUME Typed, NEW r \in Requests, Done(r) \/ UNCHANGED req
  PROVE  req' = [q \in Requests |-> req'[q]] /\ \A q \in Requests : RequestOK(req'[q])
  <1>1. RequestOK(Idle)
    BY DEF RequestOK, Idle, Kinds, ConnectionKinds
  <1> QED
    BY <1>1 DEF Typed, Done

LEMMA WithPresets ==
  ASSUME NEW c, NEW a, NEW b
  PROVE  [[connection |-> c, presets |-> a] EXCEPT !.presets = b] = [connection |-> c, presets |-> b]
  OBVIOUS

\* The other three tables after a transaction.
LEMMA OthersTyped ==
  ASSUME Typed, [Next]_vars
  PROVE  /\ credential' \in SUBSET Credentials /\ preset' \in SUBSET Presets
         /\ job' \in [Jobs -> JobRow \cup {None}] /\ conn' = [i \in Ids |-> conn'[i]]
<1> DEFINE P == /\ credential' \in SUBSET Credentials /\ preset' \in SUBSET Presets
                /\ job' \in [Jobs -> JobRow \cup {None}] /\ conn' = [i \in Ids |-> conn'[i]]
<1>1. ASSUME UNCHANGED tables PROVE P
  BY <1>1 DEF tables, Typed
<1>2. ASSUME NEW r \in Requests,
             \/ Load(r) \/ LoadTrust(r) \/ LoadEdit(r) \/ LoadJob(r) \/ LoadImport(r)
             \/ LoadDelete(r) \/ LoadDeleteCredential(r) \/ LoadDeletePreset(r)
      PROVE  P
  <2>1. UNCHANGED tables
    BY <1>2 DEF Load, LoadTrust, LoadEdit, LoadJob, LoadImport, LoadDelete, LoadDeleteCredential,
                LoadDeletePreset
  <2> QED
    BY <1>1, <2>1
<1>3. ASSUME NEW i, NEW old, NEW new, Update(i, old, new) PROVE P
  <2>1. UNCHANGED tables \/ (conn' = Flush(i, old, new) /\ UNCHANGED <<credential, preset, job>>)
    BY <1>3, CommitOrNot DEF Update
  <2>2. Flush(i, old, new) = [n \in Ids |-> Flush(i, old, new)[n]]
    BY DEF Flush, Typed
  <2> QED
    BY <1>1, <2>1, <2>2 DEF Typed
<1>4. ASSUME NEW r \in Requests, Test(r) \/ Trust(r) \/ Forget(r) \/ Edit(r) PROVE P
  <2>1. UNCHANGED tables \/ \E i, old, new : Update(i, old, new)
    BY <1>4 DEF Test, Trust, Forget, Edit
  <2> QED
    BY <1>1, <1>3, <2>1
<1>5. ASSUME NEW r \in Requests, Drop(r) \/ DropCredential(r) \/ DropPreset(r) PROVE P
  <2>1. \/ UNCHANGED tables
        \/ conn' = [conn EXCEPT ![req[r].id] = None] /\ UNCHANGED <<credential, preset, job>>
        \/ credential' = credential \ {req[r].id} /\ UNCHANGED <<conn, preset, job>>
        \/ preset' = preset \ {req[r].id} /\ UNCHANGED <<conn, credential, job>>
    BY <1>5, CommitOrNot DEF Drop, DropCredential, DropPreset
  <2> QED
    BY <1>1, <2>1 DEF Typed
<1>6. ASSUME NEW r \in Requests, SaveJob(r) PROVE P
  <2>1. /\ req[r].id \in Jobs /\ req[r].connection \in Ids
        /\ req[r].presets \in SUBSET Presets /\ req[r].copy \in JobRow \cup {None}
    BY <1>6 DEF SaveJob, Is, Typed, RequestOK
  <2>2. \/ UNCHANGED tables
        \/ /\ UNCHANGED <<conn, credential, preset>>
           /\ \E ps \in SUBSET Presets :
                 job' = [job EXCEPT ![req[r].id] = [connection |-> req[r].connection, presets |-> ps]]
    <3> DEFINE old   == req[r].copy
               new   == [connection |-> req[r].connection, presets |-> req[r].presets]
               kept  == IF old = None THEN {} ELSE job[req[r].id].presets \ (old.presets \ new.presets)
               added == IF old = None THEN new.presets ELSE new.presets \ old.presets
    <3>1. \/ UNCHANGED tables
          \/ /\ old # None => job[req[r].id] # None
             /\ Commit(conn, credential, preset,
                       [job EXCEPT ![req[r].id] = [new EXCEPT !.presets = kept \cup added]])
      BY <1>6 DEF SaveJob
    <3>2. [new EXCEPT !.presets = kept \cup added]
             = [connection |-> req[r].connection, presets |-> kept \cup added]
      BY WithPresets
    <3>3. ASSUME old # None => job[req[r].id] # None PROVE kept \cup added \in SUBSET Presets
      <4>1. added \in SUBSET Presets
        BY <2>1
      <4>2. old # None => job[req[r].id] \in JobRow
        BY <2>1, <3>3 DEF Typed
      <4>3. old # None => job[req[r].id].presets \in SUBSET Presets
        BY <4>2 DEF JobRow
      <4>4. kept \in SUBSET Presets
        BY <4>3
      <4> QED
        BY <4>1, <4>4
    <3>4. \/ UNCHANGED tables
          \/ /\ old # None => job[req[r].id] # None
             /\ UNCHANGED <<conn, credential, preset>>
             /\ job' = [job EXCEPT ![req[r].id] =
                            [connection |-> req[r].connection, presets |-> kept \cup added]]
      BY <3>1, <3>2, CommitOrNot
    <3> HIDE DEF old, new, kept, added
    <3> QED
      BY <3>3, <3>4
  <2>3. \A ps \in SUBSET Presets : [connection |-> req[r].connection, presets |-> ps] \in JobRow
    BY <2>1 DEF JobRow
  <2> QED
    BY <1>1, <2>1, <2>2, <2>3 DEF Typed
<1>7. ASSUME NEW r \in Requests, Import(r) PROVE P
  <2>1. PICK i \in Ids, p \in Places, k \in Credentials, j \in Jobs :
            \/ UNCHANGED tables
            \/ /\ conn' = Imported(r, i, p, k, j).c
               /\ credential' = credential /\ preset' = Imported(r, i, p, k, j).p
               /\ job' \in {job, Imported(r, i, p, k, j).j}
    BY <1>7, CommitOrNot DEF Import
  <2>2. req[r].presets \in SUBSET Presets
    BY <1>7 DEF Import, Is, Typed, RequestOK
  <2>3. CASE UNCHANGED tables
    BY <1>1, <2>3
  <2>4. CASE /\ conn' = Imported(r, i, p, k, j).c
             /\ credential' = credential /\ preset' = Imported(r, i, p, k, j).p
             /\ job' \in {job, Imported(r, i, p, k, j).j}
    <3>1. conn' = [n \in Ids |-> conn'[n]] /\ preset' \in SUBSET Presets
      BY <2>2, <2>4 DEF Imported, Typed
    <3>2. job' \in [Jobs -> JobRow \cup {None}]
      BY <2>2, <2>4 DEF Imported, Typed, JobRow
    <3> QED
      BY <2>4, <3>1, <3>2 DEF Typed
  <2> QED
    BY <2>1, <2>3, <2>4
<1>8. ASSUME NEW i \in Ids, NEW p \in Places, NEW k \in Credentials \cup {None},
             CreateConnection(i, p, k)
      PROVE  P
  <2>1. \/ UNCHANGED tables
        \/ conn' = [conn EXCEPT ![i] = Blank(p, k)] /\ UNCHANGED <<credential, preset, job>>
    BY <1>8, CommitOrNot DEF CreateConnection
  <2> QED
    BY <1>1, <2>1 DEF Typed
<1>9. ASSUME \/ \E k \in Credentials : CreateCredential(k)
             \/ \E p \in Presets : CreatePreset(p)
             \/ \E j \in Jobs : DeleteJob(j)
      PROVE  P
  <2>1. \/ UNCHANGED tables
        \/ \E k \in Credentials : credential' = credential \cup {k} /\ UNCHANGED <<conn, preset, job>>
        \/ \E p \in Presets : preset' = preset \cup {p} /\ UNCHANGED <<conn, credential, job>>
        \/ \E j \in Jobs : job' = [job EXCEPT ![j] = None] /\ UNCHANGED <<conn, credential, preset>>
    BY <1>9, CommitOrNot DEF CreateCredential, CreatePreset, DeleteJob
  <2> QED
    BY <1>1, <2>1 DEF Typed
<1>10. CASE UNCHANGED vars
  BY <1>1, <1>10 DEF vars, tables
<1> QED
  BY <1>2, <1>4, <1>5, <1>6, <1>7, <1>8, <1>9, <1>10 DEF Next

\* What requests hold stays of its kind.
LEMMA RequestsTyped ==
  ASSUME Typed, [Next]_vars
  PROVE  req' = [q \in Requests |-> req'[q]] /\ \A q \in Requests : RequestOK(req'[q])
<1> DEFINE P == req' = [q \in Requests |-> req'[q]] /\ \A q \in Requests : RequestOK(req'[q])
<1>1. ASSUME NEW r \in Requests, NEW q, RequestOK(q), req' = [req EXCEPT ![r] = q] PROVE P
  BY <1>1 DEF Typed
<1>2. ASSUME NEW r \in Requests, Load(r) PROVE P
  <2>1. PICK i \in Ids, k \in {"test", "forget"} :
            Stored(i) /\ req' = [req EXCEPT ![r] = [kind |-> k, id |-> i, copy |-> Copy(k, i)]]
    BY <1>2 DEF Load
  <2>2. RequestOK([kind |-> k, id |-> i, copy |-> Copy(k, i)])
    BY <2>1, CopyTyped DEF RequestOK, Kinds, ConnectionKinds
  <2> QED
    BY <1>1, <2>1, <2>2
<1>3. ASSUME NEW r \in Requests, LoadTrust(r) PROVE P
  <2>1. PICK i \in Ids, f \in Keys :
            Stored(i) /\ req' = [req EXCEPT ![r] = [kind |-> "trust", id |-> i,
                                                    copy |-> Copy("trust", i), fingerprint |-> f]]
    BY <1>3 DEF LoadTrust
  <2>2. RequestOK([kind |-> "trust", id |-> i, copy |-> Copy("trust", i), fingerprint |-> f])
    BY <2>1, CopyTyped DEF RequestOK, Kinds, ConnectionKinds
  <2> QED
    BY <1>1, <2>1, <2>2
<1>4. ASSUME NEW r \in Requests, LoadEdit(r) PROVE P
  <2>1. PICK i \in Ids, p \in Places, k \in Credentials \cup {None} :
            Stored(i) /\ req' = [req EXCEPT ![r] = [kind |-> "edit", id |-> i, copy |-> Copy("edit", i),
                                                    place |-> p, credential |-> k]]
    BY <1>4 DEF LoadEdit
  <2>2. RequestOK([kind |-> "edit", id |-> i, copy |-> Copy("edit", i),
                   place |-> p, credential |-> k])
    BY <2>1, CopyTyped DEF RequestOK, Kinds, ConnectionKinds
  <2> QED
    BY <1>1, <2>1, <2>2
<1>5. ASSUME NEW r \in Requests, LoadDelete(r) \/ LoadDeleteCredential(r) \/ LoadDeletePreset(r) PROVE P
  <2>1. \E k \in {"drop", "dropCredential", "dropPreset"} :
           \E x : (k = "drop" => x \in Ids) /\ req' = [req EXCEPT ![r] = [kind |-> k, id |-> x]]
    BY <1>5 DEF LoadDelete, LoadDeleteCredential, LoadDeletePreset
  <2>2. ASSUME NEW k \in {"drop", "dropCredential", "dropPreset"}, NEW x, k = "drop" => x \in Ids
        PROVE  RequestOK([kind |-> k, id |-> x])
    BY <2>2 DEF RequestOK, Kinds, ConnectionKinds
  <2> QED
    BY <1>1, <2>1, <2>2
<1>6. ASSUME NEW r \in Requests, LoadJob(r) PROVE P
  <2>1. PICK j \in Jobs, i \in Ids, ps \in SUBSET preset :
            req' = [req EXCEPT ![r] = [kind |-> "job", id |-> j, connection |-> i,
                                       presets |-> ps, copy |-> job[j]]]
    BY <1>6 DEF LoadJob
  <2>2. RequestOK([kind |-> "job", id |-> j, connection |-> i, presets |-> ps, copy |-> job[j]])
    BY DEF RequestOK, Kinds, ConnectionKinds, Typed
  <2> QED
    BY <1>1, <2>1, <2>2
<1>7. ASSUME NEW r \in Requests, LoadImport(r) PROVE P
  <2>1. RequestOK([kind |-> "import", connections |-> {i \in Ids : Stored(i)},
                   credentials |-> credential, presets |-> preset])
    BY DEF RequestOK, Kinds, ConnectionKinds, Typed
  <2> QED
    BY <1>1, <1>7, <2>1 DEF LoadImport
<1>8. ASSUME NEW r \in Requests,
             \/ Test(r) \/ Trust(r) \/ Forget(r) \/ Edit(r) \/ Drop(r)
             \/ DropCredential(r) \/ DropPreset(r) \/ SaveJob(r) \/ Import(r)
      PROVE  P
  <2>1. Done(r)
    BY <1>8 DEF Test, Trust, Forget, Edit, Drop, DropCredential, DropPreset, SaveJob, Import
  <2> QED
    BY <2>1, DoneTyped
<1>9. ASSUME UNCHANGED req PROVE P
  BY <1>9 DEF Typed
<1>10. ASSUME \/ \E i \in Ids, p \in Places, k \in Credentials \cup {None} : CreateConnection(i, p, k)
              \/ \E k \in Credentials : CreateCredential(k)
              \/ \E p \in Presets : CreatePreset(p)
              \/ \E j \in Jobs : DeleteJob(j)
              \/ UNCHANGED vars
       PROVE  P
  <2>1. UNCHANGED req
    BY <1>10 DEF CreateConnection, CreateCredential, CreatePreset, DeleteJob, vars
  <2> QED
    BY <1>9, <2>1
<1> QED
  BY <1>2, <1>3, <1>4, <1>5, <1>6, <1>7, <1>8, <1>10 DEF Next

LEMMA TypedStep == Typed /\ [Next]_vars => Typed'
  <1> SUFFICES ASSUME Typed, [Next]_vars PROVE Typed'
    OBVIOUS
  <1>1. /\ credential' \in SUBSET Credentials /\ preset' \in SUBSET Presets
        /\ job' \in [Jobs -> JobRow \cup {None}] /\ conn' = [i \in Ids |-> conn'[i]]
    BY OthersTyped
  <1>2. conn' \in [Ids -> Row \cup {None}]
    BY <1>1, ConnTyped
  <1>3. req' = [q \in Requests |-> req'[q]] /\ \A q \in Requests : RequestOK(req'[q])
    BY RequestsTyped
  <1>4. \A q \in Requests : RequestOK(req[q])'
    BY <1>3 DEF RequestOK, CopyOK
  <1> QED
    BY <1>1, <1>2, <1>3, <1>4 DEF Typed

LEMMA TypedInit == Init => Typed
  <1>1. RequestOK(Idle)
    BY DEF RequestOK, Idle, Kinds, ConnectionKinds
  <1>2. Init => req = [r \in Requests |-> req[r]] /\ \A r \in Requests : req[r] = Idle
    BY DEF Init
  <1>3. Init => /\ conn \in [Ids -> Row \cup {None}] /\ credential \in SUBSET Credentials
                /\ preset \in SUBSET Presets /\ job \in [Jobs -> JobRow \cup {None}]
    BY DEF Init
  <1> QED
    BY <1>1, <1>2, <1>3 DEF Init, Typed

\* Rows, references and requests are always of their kind.
THEOREM TypeCorrect == Spec => []TypeOK
  <1>1. Typed => TypeOK
    BY DEF Typed, TypeOK, RequestOK, CopyOK
  <1> QED
    BY <1>1, TypedInit, TypedStep, PTL DEF Spec

-----------------------------------------------------------------------------
(* References. *)

\* Every step is a transaction the database accepts, or leaves the tables alone.
LEMMA StepsCommit ==
  ASSUME [Next]_vars
  PROVE  UNCHANGED tables \/ ForeignKeys(conn, credential, preset, job)'
<1> DEFINE P == UNCHANGED tables \/ ForeignKeys(conn, credential, preset, job)'
<1>1. ASSUME NEW c, NEW k, NEW p, NEW j, Commit(c, k, p, j) PROVE P
  BY <1>1 DEF Commit, ForeignKeys
<1>2. ASSUME NEW r \in Requests,
             \/ Load(r) \/ LoadTrust(r) \/ LoadEdit(r) \/ LoadJob(r) \/ LoadImport(r)
             \/ LoadDelete(r) \/ LoadDeleteCredential(r) \/ LoadDeletePreset(r)
      PROVE  P
  BY <1>2 DEF Load, LoadTrust, LoadEdit, LoadJob, LoadImport, LoadDelete, LoadDeleteCredential,
              LoadDeletePreset
<1>3. ASSUME NEW r \in Requests, Test(r) \/ Trust(r) \/ Forget(r) \/ Edit(r) PROVE P
  <2>1. UNCHANGED tables \/ \E c, k, p, j : Commit(c, k, p, j)
    BY <1>3 DEF Test, Trust, Forget, Edit, Update
  <2> QED
    BY <1>1, <2>1
<1>4. ASSUME NEW r \in Requests, Drop(r) \/ DropCredential(r) \/ DropPreset(r) PROVE P
  BY <1>1, <1>4 DEF Drop, DropCredential, DropPreset
<1>5. ASSUME NEW r \in Requests, SaveJob(r) \/ Import(r) PROVE P
  <2>1. UNCHANGED tables \/ \E c, k, p, j : Commit(c, k, p, j)
    BY <1>5 DEF SaveJob, Import
  <2> QED
    BY <1>1, <2>1
<1>6. ASSUME \/ \E i \in Ids, p \in Places, k \in Credentials \cup {None} : CreateConnection(i, p, k)
             \/ \E k \in Credentials : CreateCredential(k)
             \/ \E p \in Presets : CreatePreset(p)
             \/ \E j \in Jobs : DeleteJob(j)
      PROVE  P
  BY <1>1, <1>6 DEF CreateConnection, CreateCredential, CreatePreset, DeleteJob
<1>7. CASE UNCHANGED vars
  BY <1>7 DEF vars, tables
<1> QED
  BY <1>2, <1>3, <1>4, <1>5, <1>6, <1>7 DEF Next

\* Whatever is deleted while something else starts to use it, no job is left
\* without its connection or a preset, no connection without its credential:
\* every handler that writes goes through the foreign keys, the deletes that
\* checked for users long ago included.
THEOREM ReferencesWhole == Spec => []NoDanglingReference
  <1>1. Init => NoDanglingReference
    BY DEF Init, NoDanglingReference, Stored
  <1>2. NoDanglingReference /\ [Next]_vars => NoDanglingReference'
    <2> SUFFICES ASSUME NoDanglingReference, [Next]_vars PROVE NoDanglingReference'
      OBVIOUS
    <2>1. CASE UNCHANGED tables
      BY <2>1 DEF tables, NoDanglingReference, Stored
    <2>2. CASE ForeignKeys(conn, credential, preset, job)'
      BY <2>2 DEF ForeignKeys, NoDanglingReference, Stored
    <2> QED
      BY <2>1, <2>2, StepsCommit
  <1> QED
    BY <1>1, <1>2, PTL DEF Spec

-----------------------------------------------------------------------------
(* Reviewed keys, and probes of the place a connection points at. *)

\* What an update leaves of a row whose columns are still those of the copy:
\* what the request made of them, and the rest as it was.
LEMMA CurrentMerge ==
  ASSUME Typed, NEW i \in Ids, Stored(i), NEW r \in Requests, NEW new,
         req[r].kind \in ConnectionKinds, Makes(r, new), req[r].copy = Copy(req[r].kind, i),
         conn'[i] = Merge(conn[i], req[r].copy, new)
  PROVE  \A f \in Fields :
            conn'[i][f] = IF f \in Columns(req[r].kind) THEN new[f] ELSE conn[i][f]
  <1>1. conn[i] \in Row /\ CopyOK(req[r].kind, req[r].copy)
    BY DEF Typed, Stored, RequestOK
  <1>2. \A f \in Columns(req[r].kind) : req[r].copy[f] = conn[i][f]
    BY DEF Copy
  <1>3. \A f \in Fields : conn'[i][f] =
            IF f \in Columns(req[r].kind) /\ new[f] # req[r].copy[f] THEN new[f] ELSE conn[i][f]
    BY <1>1, MergeFields
  <1> QED
    BY <1>2, <1>3

\* A request that finishes on columns nobody else has changed leaves the keys of
\* a trusted connection alone, or approves one of them.
LEMMA CurrentPins ==
  ASSUME Typed, NEW i \in Ids, Stored(i), NEW r \in Requests, NEW new,
         req[r].kind \in ConnectionKinds, req[r].id = i, req' = [req EXCEPT ![r] = Idle],
         Makes(r, new), req[r].copy = Copy(req[r].kind, i),
         conn'[i] = Merge(conn[i], req[r].copy, new), conn'[i].trusted
  PROVE  (conn[i].trusted /\ conn[i].keys = conn'[i].keys) \/ Approved(r, i)
  <1> DEFINE c == req[r].copy
  <1>1. \A f \in Fields : conn'[i][f] = IF f \in Columns(req[r].kind) THEN new[f] ELSE conn[i][f]
    BY CurrentMerge
  <1>2. \A f \in Columns(req[r].kind) : c[f] = conn[i][f]
    BY DEF Copy
  <1>3. c = [f \in Columns(req[r].kind) |-> c[f]]
    BY DEF Typed, RequestOK, CopyOK
  <1>4. CASE Is(r, "test")
    <2>1. "keys" \in Columns(req[r].kind) /\ "trusted" \in Columns(req[r].kind)
      BY <1>4 DEF Is, Columns
    <2>2. conn'[i].keys = new.keys /\ conn'[i].trusted = new.trusted
          /\ c.keys = conn[i].keys /\ c.trusted = conn[i].trusted
      BY <1>1, <1>2, <2>1 DEF Fields
    <2>3. \/ \E s : new = [c EXCEPT !.keys = s, !.trusted = FALSE]
          \/ new = [c EXCEPT !.capabilities = c.place]
      BY <1>4 DEF Makes, Tested, Scanned, Is
    <2> HIDE DEF c
    <2>4. new = [c EXCEPT !.capabilities = c.place]
      BY <1>3, <2>1, <2>2, <2>3
    <2> QED
      BY <1>3, <2>1, <2>2, <2>4
  <1>5. CASE Is(r, "trust")
    <2>1. "keys" \in Columns(req[r].kind) /\ "keys" \in Fields
      BY <1>5 DEF Is, Columns, Fields
    <2>2. req[r].fingerprint \in c.keys /\ new = [c EXCEPT !.trusted = TRUE]
      BY <1>5 DEF Makes, Is
    <2> HIDE DEF c
    <2>3. new.keys = c.keys
      BY <1>3, <2>1, <2>2
    <2>4. req[r].fingerprint \in conn'[i].keys
      BY <1>1, <2>1, <2>2, <2>3
    <2>5. req'[r] = Idle
      BY DEF Typed
    <2> QED
      BY <1>5, <2>4, <2>5 DEF Approved
  <1>6. CASE Is(r, "forget")
    <2>1. "trusted" \in Columns(req[r].kind) /\ "trusted" \in Fields
      BY <1>6 DEF Is, Columns, Fields
    <2>2. new = [c EXCEPT !.keys = {}, !.trusted = FALSE]
      BY <1>6 DEF Makes, Is, Forgotten
    <2> HIDE DEF c
    <2>3. new.trusted = FALSE
      BY <1>3, <2>1, <2>2
    <2> QED
      BY <1>1, <2>1, <2>3
  <1>7. CASE Is(r, "edit")
    <2>1. "keys" \notin Columns(req[r].kind) /\ "trusted" \notin Columns(req[r].kind)
      BY <1>7 DEF Is, Columns
    <2> QED
      BY <1>1, <2>1 DEF Fields
  <1> QED
    BY <1>4, <1>5, <1>6, <1>7 DEF Makes

\* Keys a connection trusts are keys somebody approved, unless a request that
\* began before crossed the approval.
THEOREM KeysReviewed == Spec => PinnedAsReviewed
  <1>1. ASSUME Typed, [Next]_vars, NEW i \in Ids, conn'[i] # None, conn'[i].trusted
        PROVE  \/ Stored(i) /\ conn[i].trusted /\ conn[i].keys = conn'[i].keys
               \/ \E r \in Requests : Approved(r, i) \/ ActsOnOldCopy(r, i)
    <2>1. Effect(i)
      BY <1>1, ConnectionStep
    <2>2. CASE Left(i)
      BY <1>1, <2>2 DEF Left, Stored
    <2>3. CASE Gone(i)
      BY <1>1, <2>3 DEF Gone
    <2>4. CASE Created(i)
      BY <1>1, <2>4 DEF Created, Blank
    <2>5. CASE Updated(i)
      <3>1. PICK r \in Requests :
              /\ req[r].kind \in ConnectionKinds /\ req[r].id = i /\ req' = [req EXCEPT ![r] = Idle]
              /\ Stored(i)
              /\ \E new : Makes(r, new) /\ conn'[i] = Merge(conn[i], req[r].copy, new)
        BY <2>5 DEF Updated
      <3>2. CASE req[r].copy = Copy(req[r].kind, i)
        BY <1>1, <3>1, <3>2, CurrentPins
      <3>3. CASE req[r].copy # Copy(req[r].kind, i)
        BY <1>1, <3>1, <3>3 DEF ActsOnOldCopy, Typed
      <3> QED
        BY <3>2, <3>3
    <2> QED
      BY <2>1, <2>2, <2>3, <2>4, <2>5 DEF Effect
  <1>2. Typed /\ [Next]_vars =>
          [\A i \in Ids :
              (conn'[i] # None /\ conn'[i].trusted)
              => \/ Stored(i) /\ conn[i].trusted /\ conn[i].keys = conn'[i].keys
                 \/ \E r \in Requests : Approved(r, i) \/ ActsOnOldCopy(r, i)]_vars
    BY <1>1
  <1> QED
    BY <1>2, TypedInit, TypedStep, PTL DEF Spec, PinnedAsReviewed

\* A request that finishes on columns nobody else has changed leaves the probe
\* of the place the connection points at, or none.
LEMMA CurrentFits ==
  ASSUME Typed, NEW i \in Ids, Stored(i), NEW r \in Requests, NEW new,
         req[r].kind \in ConnectionKinds, Makes(r, new), req[r].copy = Copy(req[r].kind, i),
         conn'[i] = Merge(conn[i], req[r].copy, new), Fits(conn[i])
  PROVE  Fits(conn'[i])
  <1> DEFINE c == req[r].copy
  <1>1. \A f \in Fields : conn'[i][f] = IF f \in Columns(req[r].kind) THEN new[f] ELSE conn[i][f]
    BY CurrentMerge
  <1>2. \A f \in Columns(req[r].kind) : c[f] = conn[i][f]
    BY DEF Copy
  <1>3. c = [f \in Columns(req[r].kind) |-> c[f]]
    BY DEF Typed, RequestOK, CopyOK
  <1>4. conn[i].capabilities = None \/ Identity[conn[i].capabilities] = Identity[conn[i].place]
    BY DEF Fits, Stored
  <1>5. CASE Is(r, "test")
    <2>1. {"place", "capabilities"} \subseteq Columns(req[r].kind)
      BY <1>5 DEF Is, Columns
    <2>2. /\ conn'[i].place = new.place /\ conn'[i].capabilities = new.capabilities
          /\ c.place = conn[i].place /\ c.capabilities = conn[i].capabilities
      BY <1>1, <1>2, <2>1 DEF Fields
    <2>3. \/ \E s : new = [c EXCEPT !.keys = s, !.trusted = FALSE]
          \/ new = [c EXCEPT !.capabilities = c.place]
      BY <1>5 DEF Makes, Tested, Scanned, Is
    <2> HIDE DEF c
    <2>4. new.place = c.place /\ new.capabilities \in {c.capabilities, c.place}
      BY <1>3, <2>1, <2>3
    <2> QED
      BY <1>4, <2>2, <2>4 DEF Fits
  <1>6. CASE Is(r, "trust") \/ Is(r, "forget")
    <2>1. "place" \notin Columns(req[r].kind) /\ "capabilities" \notin Columns(req[r].kind)
      BY <1>6 DEF Is, Columns
    <2>2. conn'[i].place = conn[i].place /\ conn'[i].capabilities = conn[i].capabilities
      BY <1>1, <2>1 DEF Fields
    <2> QED
      BY <1>4, <2>2 DEF Fits
  <1>7. CASE Is(r, "edit")
    <2>1. {"place", "capabilities"} \subseteq Columns(req[r].kind)
      BY <1>7 DEF Is, Columns
    <2>2. /\ conn'[i].place = new.place /\ conn'[i].capabilities = new.capabilities
          /\ c.place = conn[i].place /\ c.capabilities = conn[i].capabilities
      BY <1>1, <1>2, <2>1 DEF Fields
    <2> DEFINE p == req[r].place
               k == req[r].credential
               a == IF Identity[p] # Identity[c.place] THEN None ELSE c.capabilities
    <2>3. new = [c EXCEPT !.place = p, !.credential = k, !.capabilities = a]
      BY <1>7 DEF Makes, Edited, Is
    <2>4. a = None \/ (a = c.capabilities /\ Identity[p] = Identity[c.place])
      OBVIOUS
    <2> HIDE DEF c, p, k, a
    <2>5. new.place = p /\ new.capabilities = a
      BY <1>3, <2>1, <2>3
    <2> QED
      BY <1>4, <2>2, <2>4, <2>5 DEF Fits
  <1> QED
    BY <1>5, <1>6, <1>7 DEF Makes

\* What a connection is said to support was probed at what it points at; only a
\* request that crosses an edit can leave it with the probe of another place.
THEOREM ProbesFit == Spec => ProbeOfThisPlace
  <1>1. ASSUME Typed, [Next]_vars, NEW i \in Ids, Fits(conn[i]), ~Fits(conn'[i])
        PROVE  \E r \in Requests : ActsOnOldCopy(r, i)
    <2>1. Effect(i)
      BY <1>1, ConnectionStep
    <2>2. ~Left(i) /\ ~Gone(i)
      BY <1>1 DEF Left, Gone, Fits
    <2>3. ~Created(i)
      <3>1. conn'[i].capabilities # None
        BY <1>1 DEF Fits
      <3>2. \A p, k : Blank(p, k).capabilities = None
        BY DEF Blank
      <3> QED
        BY <3>1, <3>2 DEF Created
    <2>4. PICK r \in Requests :
              /\ req[r].kind \in ConnectionKinds /\ req[r].id = i /\ req' = [req EXCEPT ![r] = Idle]
              /\ Stored(i)
              /\ \E new : Makes(r, new) /\ conn'[i] = Merge(conn[i], req[r].copy, new)
      BY <2>1, <2>2, <2>3 DEF Effect, Updated
    <2>5. req[r].copy # Copy(req[r].kind, i)
      BY <1>1, <2>4, CurrentFits
    <2> QED
      BY <1>1, <2>4, <2>5 DEF ActsOnOldCopy, Typed
  <1>2. Typed /\ [Next]_vars =>
          [\A i \in Ids :
              Fits(conn[i]) /\ ~Fits(conn'[i]) => \E r \in Requests : ActsOnOldCopy(r, i)]_vars
    BY <1>1
  <1> QED
    BY <1>2, TypedInit, TypedStep, PTL DEF Spec, ProbeOfThisPlace
=============================================================================
