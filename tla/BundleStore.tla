---------------------------- MODULE BundleStore ----------------------------
(***************************************************************************)
(* The transactional project bundle of crates/project-store.  Handles are  *)
(* independent processes (or connections) on one bundle directory, which   *)
(* holds content-addressed artifact files, one SQLite database in rollback *)
(* journal mode, and manifest.json, a redundant projection of the manifest *)
(* that the database holds.                                                *)
(*                                                                         *)
(* Every mutation has one protocol.  Artifact bytes are written and synced *)
(* first.  An IMMEDIATE transaction takes the only writer lock and makes   *)
(* all its checks; the projection is replaced while the lock is held; then *)
(* the transaction commits, unless a reader keeps it from doing so.  A     *)
(* process can die between any two of these steps.                         *)
(*                                                                         *)
(* A blob stands for artifact bytes and for their SHA-256.  An artifact    *)
(* entry is abstracted to its kind.  An Option is a set with at most one   *)
(* element.                                                                *)
(***************************************************************************)
EXTENDS Integers, Sequences, FiniteSets

CONSTANTS
    Handles,        \* open or openable Bundle handles, one per process
    Requests,       \* the calls handles may make
    Members,        \* chunk blob -> the observation ids it contains
    MaxOperations,  \* MAX_OPERATION_COUNT
    MaxSnapshots,   \* MAX_SURVEY_SNAPSHOTS
    Replays(_)      \* validate_replay_semantics's verdict on a set of
                    \* operations (OperationLog)

(* put_artifact takes any kind but those that have their own publication.  *)
PutKinds == {"Raw", "MapSource", "Snapshot"}

IsRequest(r) ==
    \/ /\ r.kind = "Put"
       /\ r.utc \in Nat
       /\ r.entry \in PutKinds
    \/ /\ r.kind = "Append"
       /\ r.expected \subseteq Nat
       /\ r.budgeted \in BOOLEAN
    \/ /\ r.kind = "Snapshot"
       /\ r.utc \in Nat
       /\ r.expected \subseteq Nat
    \/ /\ r.kind = "Chunk"
       /\ r.utc \in Nat
       /\ r.blob \in DOMAIN Members
    \/ r.kind \in {"Recover", "Verify"}

ASSUME RequestsAreCalls == \A r \in Requests : IsRequest(r)

ASSUME LimitsAreCounts == MaxOperations \in Nat /\ MaxSnapshots \in Nat

VARIABLES
    files,          \* blobs present and synced under artifacts/
    db,             \* the committed content of project.sqlite
    projection,     \* manifest.json, an Option of a manifest
    hot,            \* a crash inside a commit left a hot rollback journal
    stage,          \* handle -> how far its current call has come
    request,        \* handle -> its current or last call
    work,           \* handle -> database content its transaction sees
    reply           \* handle -> what its last call returned

vars == <<files, db, projection, hot, stage, request, work, reply>>

EmptyMap == [x \in {} |-> 0]

Set(f, k, v) == [x \in DOMAIN f \cup {k} |-> IF x = k THEN v ELSE f[x]]

(* What create commits: revision 0 and empty tables.                       *)
NewDb ==
    [revision |-> 0, updated |-> 0, artifacts |-> EmptyMap,
     rows |-> EmptyMap, opRevision |-> 0, snapshots |-> EmptyMap, chunks |-> EmptyMap]

(* The part of the database the projection repeats.                        *)
Manifest(d) == [revision |-> d.revision, updated |-> d.updated, artifacts |-> d.artifacts]

NoCall == [kind |-> "None"]
Silent == [tag |-> "None", request |-> NoCall, revision |-> 0]

(* create has committed its transaction and not yet written a projection;  *)
(* it holds no lock while it does.                                         *)
Init ==
    /\ files = {}
    /\ db = NewDb
    /\ projection = {}
    /\ hot = FALSE
    /\ \E creator \in Handles :
        stage = [h \in Handles |-> IF h = creator THEN "Creating" ELSE "Closed"]
    /\ request = [h \in Handles |-> NoCall]
    /\ work = [h \in Handles |-> NewDb]
    /\ reply = [h \in Handles |-> Silent]
-----------------------------------------------------------------------------
(* The in-transaction half of each call, as a function of the database the *)
(* transaction sees.                                                       *)

Stale(expected, current) == \E e \in expected : e # current

Stored(d, r) == r.op.id \in DOMAIN d.rows

(* The call finds its own effect already committed and is answered without *)
(* a change.  An artifact that is already registered is not in this class: *)
(* put_artifact writes the manifest and the projection again.              *)
IsDuplicate(d, r) ==
    \/ r.kind = "Append" /\ Stored(d, r) /\ d.rows[r.op.id].op = r.op
    \/ /\ r.kind = "Snapshot"
       /\ ~ Stale(r.expected, d.revision)
       /\ r.utc >= d.updated
       /\ r.id \in DOMAIN d.snapshots
       /\ d.snapshots[r.id].blob = r.blob
    \/ r.kind = "Chunk" /\ r.blob \in DOMAIN d.chunks

OtherEntry(d, blob, entry) == blob \in DOMAIN d.artifacts /\ d.artifacts[blob] # entry

AcceptsPut(d, r) == r.utc >= d.updated /\ ~ OtherEntry(d, r.blob, r.entry)

(* The operations of a content.                                            *)
OperationsOf(d) == {d.rows[id].op : id \in DOMAIN d.rows}

(* The map sources of an operation are registered as such; their files are *)
(* hashed again, and are there (NoDanglingArtifact).                       *)
NamesMapSources(d, op) ==
    \A b \in op.sources : b \in DOMAIN d.artifacts /\ d.artifacts[b] = "MapSource"

AcceptsAppend(d, r) ==
    /\ ~ Stored(d, r)
    /\ ~ Stale(r.expected, d.opRevision)
    /\ Cardinality(DOMAIN d.rows) < MaxOperations
    /\ r.op.parents \subseteq DOMAIN d.rows
    /\ Replays(OperationsOf(d) \cup {r.op})
    /\ \A op \in OperationsOf(d) \cup {r.op} : NamesMapSources(d, op)

AcceptsSnapshot(d, r) ==
    /\ ~ Stale(r.expected, d.revision)
    /\ r.utc >= d.updated
    /\ r.id \notin DOMAIN d.snapshots
    /\ Cardinality(DOMAIN d.snapshots) < MaxSnapshots
    /\ ~ OtherEntry(d, r.blob, "Snapshot")

(* Mutant of AcceptsChunk: an observation may be in two chunks.            *)
AcceptsOverlappingChunk(d, r) ==
    r.blob \notin DOMAIN d.artifacts /\ r.utc >= d.updated

(* The member index has the observation id as its key.                     *)
AcceptsChunk(d, r) ==
    /\ r.blob \notin DOMAIN d.artifacts
    /\ r.utc >= d.updated
    /\ \A c \in DOMAIN d.chunks : Members[c] \cap Members[r.blob] = {}

Accepts(d, r) ==
    \/ r.kind = "Put" /\ AcceptsPut(d, r)
    \/ r.kind = "Append" /\ AcceptsAppend(d, r)
    \/ r.kind = "Snapshot" /\ AcceptsSnapshot(d, r)
    \/ r.kind = "Chunk" /\ AcceptsChunk(d, r)
    \/ r.kind = "Recover"

Register(d, blob, entry, utc) ==
    [d EXCEPT !.artifacts = Set(@, blob, entry), !.revision = @ + 1, !.updated = utc]

AfterPut(d, r) ==
    IF r.blob \in DOMAIN d.artifacts THEN d ELSE Register(d, r.blob, r.entry, r.utc)

(* The manifest's wall time is left alone.                                 *)
AfterAppend(d, r) ==
    [d EXCEPT !.rows = Set(@, r.op.id, [op |-> r.op, revision |-> d.opRevision + 1]),
              !.opRevision = @ + 1,
              !.revision = @ + 1]

AfterSnapshot(d, r) ==
    [Register(d, r.blob, "Snapshot", r.utc) EXCEPT
        !.snapshots = Set(@, r.id, [blob |-> r.blob, revision |-> d.revision + 1])]

AfterChunk(d, r) ==
    [Register(d, r.blob, "Chunk", r.utc) EXCEPT
        !.chunks = Set(@, r.blob, d.revision + 1)]

After(d, r) ==
    CASE r.kind = "Put" -> AfterPut(d, r)
      [] r.kind = "Append" -> AfterAppend(d, r)
      [] r.kind = "Snapshot" -> AfterSnapshot(d, r)
      [] r.kind = "Chunk" -> AfterChunk(d, r)
      [] OTHER -> d

(* The revision a receipt names.  A duplicate found by the budgeted append *)
(* is answered with the log's revision instead of the row's.               *)
ReceiptRevision(d, r, tag) ==
    CASE r.kind = "Append" ->
            IF tag = "Duplicate" /\ r.budgeted THEN d.opRevision
            ELSE d.rows[r.op.id].revision
      [] r.kind = "Snapshot" -> d.snapshots[r.id].revision
      [] r.kind = "Chunk" -> d.chunks[r.blob]
      [] OTHER -> 0

Receipt(d, r, tag) ==
    [tag |-> tag, request |-> r, revision |-> ReceiptRevision(d, r, tag)]

Failure(r, tag) == [tag |-> tag, request |-> r, revision |-> 0]
-----------------------------------------------------------------------------
Replayable(d) == DOMAIN d.rows = {} \/ Replays(OperationsOf(d))

(* What verify checks of the tables.  The operation inventory: as many     *)
(* rows as the project revision says, numbered without a gap, in a graph   *)
(* that can be replayed.                                                   *)
OperationsSound(d) ==
    /\ Replayable(d)
    /\ {d.rows[id].revision : id \in DOMAIN d.rows} = 1 .. d.opRevision
    /\ \A a, b \in DOMAIN d.rows : d.rows[a].revision = d.rows[b].revision => a = b
    /\ \A id \in DOMAIN d.rows : d.rows[id].op.parents \subseteq DOMAIN d.rows

(* The snapshot inventory: an index row is not ahead of the manifest and   *)
(* names an artifact of its kind.                                          *)
SnapshotsSound(d) ==
    \A s \in DOMAIN d.snapshots :
        /\ d.snapshots[s].revision \in 1 .. d.revision
        /\ d.snapshots[s].blob \in DOMAIN d.artifacts
        /\ d.artifacts[d.snapshots[s].blob] = "Snapshot"

(* The chunk inventory: descriptors and normalized-observation artifacts   *)
(* correspond one to one, and none is ahead of the manifest.  (That the    *)
(* chunk decodes too is the subject of ObservationReads.)                  *)
ChunksSound(d) ==
    /\ DOMAIN d.chunks = {b \in DOMAIN d.artifacts : d.artifacts[b] = "Chunk"}
    /\ \A b \in DOMAIN d.chunks : d.chunks[b] \in 1 .. d.revision

TablesSound(d) == OperationsSound(d) /\ SnapshotsSound(d) /\ ChunksSound(d)
-----------------------------------------------------------------------------
Writers == {h \in Handles : stage[h] \in {"Prepared", "Projected"}}
Readers == {h \in Handles : stage[h] = "Verifying"}

WritesFile(r) == r.kind \in {"Put", "Snapshot", "Chunk"}

Goto(h, s) == stage' = [stage EXCEPT ![h] = s]

(* The call ends: its transaction is gone and the caller has the answer.   *)
End(h, s, answer) ==
    /\ Goto(h, s)
    /\ request' = [request EXCEPT ![h] = NoCall]
    /\ work' = [work EXCEPT ![h] = NewDb]
    /\ reply' = [reply EXCEPT ![h] = answer]

Return(h, answer) == End(h, "Idle", answer)
Die(h) == End(h, "Closed", Silent)

(* create publishes the projection of the new manifest.                    *)
FinishCreate(h) ==
    /\ stage[h] = "Creating"
    /\ projection' = {Manifest(NewDb)}
    /\ Goto(h, "Idle")
    /\ UNCHANGED <<files, db, hot, request, work, reply>>

(* open: the read-only probe and the schema and manifest checks.  The      *)
(* probe cannot read a database with a hot journal.                        *)
Open(h) ==
    /\ stage[h] = "Closed"
    /\ ~ hot
    /\ Goto(h, "Idle")
    /\ UNCHANGED <<files, db, projection, hot, request, work, reply>>

OpenRefused(h) ==
    /\ stage[h] = "Closed"
    /\ hot
    /\ reply' = [reply EXCEPT ![h] = Failure(NoCall, "Refused")]
    /\ UNCHANGED <<files, db, projection, hot, stage, request, work>>

Call(h, r) ==
    /\ stage[h] = "Idle"
    /\ request' = [request EXCEPT ![h] = r]
    /\ reply' = [reply EXCEPT ![h] = Silent]
    /\ Goto(h, IF WritesFile(r) THEN "File" ELSE IF r.kind = "Verify" THEN "Read" ELSE "Lock")
    /\ UNCHANGED <<files, db, projection, hot, work>>

(* Mutant of WriteFile: bytes are left for after the transaction.          *)
WriteFileLater(h) ==
    /\ stage[h] = "File"
    /\ Goto(h, "Lock")
    /\ UNCHANGED <<files, db, projection, hot, request, work, reply>>

(* write_artifact_file: a temporary file, synced, renamed without          *)
(* replacing, directory synced; an existing file has the same bytes.       *)
WriteFile(h) ==
    /\ stage[h] = "File"
    /\ files' = files \cup {request[h].blob}
    /\ Goto(h, "Lock")
    /\ UNCHANGED <<db, projection, hot, request, work, reply>>

(* Mutant of LockFree: transactions begin DEFERRED.                        *)
LockNeverHeld == TRUE

(* BEGIN IMMEDIATE succeeds when no other transaction holds the lock; a    *)
(* writable connection first rolls a hot journal back.                     *)
LockFree == Writers = {}

AnswerDuplicate(h) ==
    /\ stage[h] = "Lock"
    /\ LockFree
    /\ IsDuplicate(db, request[h])
    /\ hot' = FALSE
    /\ Return(h, Receipt(db, request[h], "Duplicate"))
    /\ UNCHANGED <<files, db, projection>>

Refuse(h) ==
    /\ stage[h] = "Lock"
    /\ LockFree
    /\ ~ IsDuplicate(db, request[h])
    /\ ~ Accepts(db, request[h])
    /\ hot' = FALSE
    /\ Return(h, Failure(request[h], "Refused"))
    /\ UNCHANGED <<files, db, projection>>

(* All checks pass; the tables are changed inside the transaction.         *)
Prepare(h) ==
    /\ stage[h] = "Lock"
    /\ LockFree
    /\ ~ IsDuplicate(db, request[h])
    /\ Accepts(db, request[h])
    /\ hot' = FALSE
    /\ work' = [work EXCEPT ![h] = After(db, request[h])]
    /\ Goto(h, "Prepared")
    /\ UNCHANGED <<files, db, projection, request, reply>>

(* Mutant of LockTimeout: the caller waits for the lock for ever.          *)
LockWaits(h) == FALSE /\ UNCHANGED vars

(* busy_timeout expires while another writer holds the lock.               *)
LockTimeout(h) ==
    /\ stage[h] = "Lock"
    /\ ~ LockFree
    /\ Return(h, Failure(request[h], "Busy"))
    /\ UNCHANGED <<files, db, projection, hot>>

(* A cancellation, an interrupted query, an I/O error: the call fails      *)
(* before it has touched the projection and its transaction rolls back.    *)
Abort(h) ==
    /\ stage[h] \in {"File", "Lock", "Prepared"}
    /\ Return(h, Failure(request[h], "Failed"))
    /\ UNCHANGED <<files, db, projection, hot>>

(* atomic_projection: temporary file, sync, rename, directory sync.        *)
Project(h) ==
    /\ stage[h] = "Prepared"
    /\ projection' = {Manifest(work[h])}
    /\ Goto(h, "Projected")
    /\ UNCHANGED <<files, db, hot, request, work, reply>>

(* The directory sync after the rename fails: the transaction rolls back   *)
(* and the new projection stays.                                           *)
ProjectUnsynced(h) ==
    /\ stage[h] = "Prepared"
    /\ projection' = {Manifest(work[h])}
    /\ Return(h, Failure(request[h], "Failed"))
    /\ UNCHANGED <<files, db, hot>>

(* Mutant of CanCommit: readers do not hold writers up.                    *)
CanCommitOverReaders(h) == TRUE

(* A transaction that changed a page needs the exclusive lock to commit;   *)
(* the one of recover_manifest changed none.                               *)
CanCommit(h) == Readers = {} \/ request[h].kind = "Recover"

Commit(h) ==
    /\ stage[h] = "Projected"
    /\ CanCommit(h)
    /\ db' = work[h]
    /\ Return(h, Receipt(work[h], request[h], "Done"))
    /\ UNCHANGED <<files, projection, hot>>

(* busy_timeout expires while a reader holds its lock: rollback, and the   *)
(* projection stays ahead of the database.                                 *)
CommitTimeout(h) ==
    /\ stage[h] = "Projected"
    /\ ~ CanCommit(h)
    /\ Return(h, Failure(request[h], "Busy"))
    /\ UNCHANGED <<files, db, projection, hot>>

(* verify opens a deferred transaction and reads the manifest.             *)
VerifyRead(h) ==
    /\ stage[h] = "Read"
    /\ hot' = FALSE
    /\ work' = [work EXCEPT ![h] = db]
    /\ Goto(h, "Verifying")
    /\ UNCHANGED <<files, db, projection, request, reply>>

(* It compares manifest.json and every registered artifact with what it    *)
(* read, and ends the transaction.                                         *)
VerifyCompare(h) ==
    /\ stage[h] = "Verifying"
    /\ LET current == projection = {Manifest(work[h])}
           complete == DOMAIN work[h].artifacts \subseteq files
       IN  Goto(h, IF current /\ complete THEN "Compared" ELSE "Suspect")
    /\ UNCHANGED <<files, db, projection, hot, request, work, reply>>

(* The snapshot, operation and chunk checks follow in transactions of      *)
(* their own, on what is committed by then.                                *)
VerifyReport(h) ==
    /\ stage[h] \in {"Compared", "Suspect"}
    /\ hot' = FALSE
    /\ Return(h, Failure(request[h],
          IF stage[h] = "Compared" /\ TablesSound(db) THEN "Sound" ELSE "Unsound"))
    /\ UNCHANGED <<files, db, projection>>

(* The process dies; SQLite's locks die with it.                           *)
Crash(h) ==
    /\ stage[h] # "Closed"
    /\ Die(h)
    /\ UNCHANGED <<files, db, projection, hot>>

(* It dies inside COMMIT, after the journal is synced and before it is     *)
(* deleted: the old content is what a rollback restores.                   *)
CrashInCommit(h) ==
    /\ stage[h] = "Projected"
    /\ Readers = {}
    /\ request[h].kind # "Recover"
    /\ hot' = TRUE
    /\ Die(h)
    /\ UNCHANGED <<files, db, projection>>

(* It dies after COMMIT and before the caller has the receipt.             *)
CrashAfterCommit(h) ==
    /\ stage[h] = "Projected"
    /\ CanCommit(h)
    /\ db' = work[h]
    /\ Die(h)
    /\ UNCHANGED <<files, projection, hot>>

(* The steps a live process takes by itself.                               *)
Step(h) ==
    \/ FinishCreate(h)
    \/ WriteFile(h)
    \/ AnswerDuplicate(h) \/ Refuse(h) \/ Prepare(h) \/ LockTimeout(h)
    \/ Project(h)
    \/ Commit(h) \/ CommitTimeout(h)
    \/ VerifyRead(h) \/ VerifyCompare(h) \/ VerifyReport(h)

Next ==
    \E h \in Handles :
        \/ Step(h)
        \/ Open(h) \/ OpenRefused(h)
        \/ \E r \in Requests : Call(h, r)
        \/ Abort(h) \/ ProjectUnsynced(h)
        \/ Crash(h) \/ CrashInCommit(h) \/ CrashAfterCommit(h)

Spec == Init /\ [][Next]_vars

(* A running process goes on with the call it has begun.                   *)
FairSpec == Spec /\ \A h \in Handles : WF_vars(Step(h))
-----------------------------------------------------------------------------
Blobs == {r.blob : r \in {q \in Requests : WritesFile(q)}}
Operations == {r.op : r \in {q \in Requests : q.kind = "Append"}}
SnapshotIds == {r.id : r \in {q \in Requests : q.kind = "Snapshot"}}
Entries == {"Raw", "MapSource", "Snapshot", "Chunk"}
Tags == {"None", "Done", "Duplicate", "Refused", "Failed", "Busy", "Sound", "Unsound"}
Stages == {"Closed", "Creating", "Idle", "File", "Lock", "Prepared", "Projected",
           "Read", "Verifying", "Compared", "Suspect"}

IsMap(f, S, T) == DOMAIN f \subseteq S /\ f \in [DOMAIN f -> T]

IsDb(d) ==
    /\ d \in [revision : Nat, updated : Nat, artifacts : {d.artifacts},
              rows : {d.rows}, opRevision : Nat,
              snapshots : {d.snapshots}, chunks : {d.chunks}]
    /\ IsMap(d.artifacts, Blobs, Entries)
    /\ IsMap(d.rows, {op.id : op \in Operations}, [op : Operations, revision : Nat])
    /\ IsMap(d.snapshots, SnapshotIds, [blob : Blobs, revision : Nat])
    /\ IsMap(d.chunks, Blobs, Nat)

(* The type of the bundle and of its handles.                              *)
TypeOK ==
    /\ files \subseteq Blobs
    /\ IsDb(db)
    /\ \A m \in projection :
        m.revision \in Nat /\ m.updated \in Nat /\ IsMap(m.artifacts, Blobs, Entries)
    /\ hot \in BOOLEAN
    /\ stage \in [Handles -> Stages]
    /\ request \in [Handles -> Requests \cup {NoCall}]
    /\ DOMAIN work = Handles /\ \A h \in Handles : IsDb(work[h])
    /\ DOMAIN reply = Handles
    /\ \A h \in Handles : reply[h].tag \in Tags

(* Whatever crashes, a registered artifact has its bytes on disk.          *)
NoDanglingArtifact == DOMAIN db.artifacts \subseteq files

RegistersEvidence(d) ==
    /\ \A id \in DOMAIN d.rows : NamesMapSources(d, d.rows[id].op)
    /\ \A s \in DOMAIN d.snapshots :
        /\ d.snapshots[s].blob \in DOMAIN d.artifacts
        /\ d.artifacts[d.snapshots[s].blob] = "Snapshot"
    /\ DOMAIN d.chunks = {b \in DOMAIN d.artifacts : d.artifacts[b] = "Chunk"}

(* Every row has its evidence registered under the right kind: the map     *)
(* sources an operation imports, the bytes of a snapshot, and exactly the  *)
(* normalized-observation artifacts have a chunk descriptor.               *)
EvidenceRegistered == RegistersEvidence(db)

DisjointChunks(d) ==
    \A b, c \in DOMAIN d.chunks : b # c => Members[b] \cap Members[c] = {}

(* An observation is in at most one committed chunk, whoever publishes it. *)
ObservationInOneChunk == DisjointChunks(db)

(* Crashes, rolled back commits and busy readers leave manifest.json equal *)
(* to the committed manifest or one revision ahead of it, never behind and *)
(* never different at the same revision.  The one older manifest it can    *)
(* hold is the initial one: create writes it without holding the lock.     *)
ProjectionExactOrAhead ==
    \A m \in projection :
        \/ m = Manifest(db)
        \/ m.revision = db.revision + 1
        \/ m = Manifest(NewDb)

Contiguous(d) ==
    /\ \A id \in DOMAIN d.rows : d.rows[id].op.id = id
    /\ {d.rows[id].revision : id \in DOMAIN d.rows} = 1 .. d.opRevision
    /\ \A a, b \in DOMAIN d.rows : d.rows[a].revision = d.rows[b].revision => a = b
    /\ \A id \in DOMAIN d.rows : \A p \in d.rows[id].op.parents :
        p \in DOMAIN d.rows /\ d.rows[p].revision < d.rows[id].revision

(* The operation rows are numbered 1 .. project_revision without gap or    *)
(* repetition, parents before children: the inventory check of the next    *)
(* reader never finds the log corrupt.                                     *)
RevisionsContiguous == Contiguous(db)

OneMutationEach(d) ==
    /\ \A s, t \in DOMAIN d.snapshots :
        d.snapshots[s].revision = d.snapshots[t].revision => s = t
    /\ \A b, c \in DOMAIN d.chunks : d.chunks[b] = d.chunks[c] => b = c
    /\ \A s \in DOMAIN d.snapshots, b \in DOMAIN d.chunks :
        d.snapshots[s].revision # d.chunks[b]
    /\ \A s \in DOMAIN d.snapshots : d.snapshots[s].revision \in 1 .. d.revision
    /\ \A b \in DOMAIN d.chunks : d.chunks[b] \in 1 .. d.revision

(* A snapshot and a chunk never record the same bundle revision, nor do    *)
(* two of a kind, and none is ahead of the manifest.                       *)
RevisionNamesOneMutation == OneMutationEach(db)

Granted(a) == a.tag \in {"Done", "Duplicate"}

(* The row an answer names is in database d at the revision it names.  The *)
(* budgeted append answers a duplicate with a revision at or after the     *)
(* row's.                                                                  *)
Holds(d, a) ==
    LET r == a.request
    IN  /\ r.kind = "Put" => r.blob \in DOMAIN d.artifacts
        /\ r.kind = "Append" =>
            /\ r.op.id \in DOMAIN d.rows
            /\ d.rows[r.op.id].op = r.op
            /\ d.rows[r.op.id].revision <= a.revision
            /\ a.revision <= d.opRevision
            /\ (a.tag = "Done" \/ ~ r.budgeted) => d.rows[r.op.id].revision = a.revision
        /\ r.kind = "Snapshot" =>
            /\ r.id \in DOMAIN d.snapshots
            /\ d.snapshots[r.id] = [blob |-> r.blob, revision |-> a.revision]
        /\ r.kind = "Chunk" => r.blob \in DOMAIN d.chunks /\ d.chunks[r.blob] = a.revision

(* A receipt stays true however many calls and crashes follow: the row it  *)
(* names is committed at the revision it names.                            *)
ReceiptsHold == \A h \in Handles : Granted(reply[h]) => Holds(db, reply[h])

(* Database e keeps everything d holds; if it differs it is one revision   *)
(* later.                                                                  *)
Extends(d, e) ==
    /\ \A b \in DOMAIN d.artifacts :
        b \in DOMAIN e.artifacts /\ e.artifacts[b] = d.artifacts[b]
    /\ \A id \in DOMAIN d.rows : id \in DOMAIN e.rows /\ e.rows[id] = d.rows[id]
    /\ \A s \in DOMAIN d.snapshots :
        s \in DOMAIN e.snapshots /\ e.snapshots[s] = d.snapshots[s]
    /\ \A b \in DOMAIN d.chunks : b \in DOMAIN e.chunks /\ e.chunks[b] = d.chunks[b]
    /\ e.updated >= d.updated
    /\ e = d \/ e.revision = d.revision + 1

(* Committed evidence is immutable: no commit removes or changes a row or  *)
(* an artifact entry, and one that changes anything takes exactly one new  *)
(* bundle revision.                                                        *)
CommitsOnlyAdd == [][Extends(db, db')]_vars

(* An append that names the project revision it was built on commits only  *)
(* on that revision, whatever other processes did since it was submitted.  *)
StaleAppendNeverCommits ==
    [][\A id \in DOMAIN db'.rows \ DOMAIN db.rows :
        \E h \in Handles :
            /\ request[h].kind = "Append"
            /\ request[h].op.id = id
            /\ \A e \in request[h].expected : e = db.opRevision]_vars

(* verify judges one committed state: when it finds manifest.json current, *)
(* it is the manifest committed at that moment, with all its bytes on      *)
(* disk, for no commit slips in between its two reads.  Commits between    *)
(* its transactions never make it find fault with the tables.              *)
SoundMeansCurrent ==
    [][\A h \in Handles :
        /\ (stage[h] = "Verifying" /\ stage'[h] = "Compared") =>
                projection = {Manifest(db)} /\ DOMAIN db.artifacts \subseteq files
        /\ (stage[h] = "Compared" /\ stage'[h] = "Idle") => reply'[h].tag = "Sound"]_vars

(* The operation rows as a journal.                                        *)
JournalOf(d) ==
    [i \in 1 .. d.opRevision |->
        d.rows[CHOOSE id \in DOMAIN d.rows : d.rows[id].revision = i].op]

OperationJournal == JournalOf(db)

J == INSTANCE Journal WITH Entry <- Operations, entries <- OperationJournal

(* Through every interleaving, crash and retry, the operation table is an  *)
(* append-only journal without repetition.                                 *)
ImplementsJournal == J!Spec

(* Every call returns: a handle is out of its calls again and again, for   *)
(* readers and writers wait for each other only as long as the busy        *)
(* timeout.                                                                *)
EveryCallReturns ==
    \A h \in Handles : []<>(stage[h] \in {"Closed", "Idle"})
=============================================================================
