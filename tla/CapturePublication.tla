------------------------- MODULE CapturePublication -------------------------
(***************************************************************************)
(* Durable publication of native captures: crates/observation-pipeline     *)
(* (ingest, persist_capture, persist_acquisition) over the capture tables  *)
(* of crates/project-store.  One publication is a chain of separate        *)
(* transactions: the manifest artifact, its publication row, the raw       *)
(* records, the observation chunk, the link to it, the survey snapshot and *)
(* the link to that.  A capture session record can be registered for what  *)
(* is published.  A process can fail or die between any two transactions,  *)
(* and several work on one bundle.                                         *)
(*                                                                         *)
(* A transaction is one step here; BundleStore shows that it behaves so.   *)
(* Artifacts are content-addressed: a manifest is named by its capture, a  *)
(* chunk by the observations it holds.  An Option is a set with at most    *)
(* one element.                                                            *)
(***************************************************************************)
EXTENDS Integers, Sequences, FiniteSets

CONSTANTS
    Handles,    \* processes with the bundle open
    Captures,   \* capture -> [obs, ok, raw]: observation ids, status ok, retained records
    Requests,   \* the calls handles may make
    MaxDecodedRows, \* the rows of a chunk the decoder's memory allowance admits
    MaxFaults   \* bound on failures and crashes

IsCapture(c) == c.ok \in BOOLEAN /\ c.raw \in Seq(Nat) /\ IsFiniteSet(c.obs)

ASSUME CapturesAreManifests == \A c \in DOMAIN Captures : IsCapture(Captures[c])

IsRequest(r) ==
    \/ r.kind \in {"Ingest", "Spool"} /\ r.cap \in DOMAIN Captures /\ r.utc \in Nat
    \/ r.kind = "Session" /\ r.cap \in DOMAIN Captures
    \/ r.kind = "Other" /\ r.utc \in Nat

ASSUME RequestsAreCalls == \A r \in Requests : IsRequest(r)

ASSUME FaultsAreCounted == MaxFaults \in Nat

VARIABLES
    db,         \* committed bundle content
    stage,      \* handle -> the next transaction of its call
    request,    \* handle -> its current call
    progress,   \* handle -> receipts collected so far
    preflight,  \* handle -> the Option chunk link_capture_snapshot read first
    reply,      \* handle -> the answer to its last call
    faults      \* failures and crashes so far

vars == <<db, stage, request, progress, preflight, reply, faults>>

EmptyMap == [x \in {} |-> 0]
Set(f, k, v) == [x \in DOMAIN f \cup {k} |-> IF x = k THEN v ELSE f[x]]

NoCall == [kind |-> "None"]
NoProgress == [manifest |-> 0, raw |-> 0, chunk |-> {}, snapshot |-> {}]

Init ==
    /\ db = [revision |-> 0, updated |-> 0, artifacts |-> EmptyMap, pubs |-> EmptyMap,
             chunks |-> EmptyMap, snapshots |-> EmptyMap, sessions |-> EmptyMap]
    /\ stage = [h \in Handles |-> "Idle"]
    /\ request = [h \in Handles |-> NoCall]
    /\ progress = [h \in Handles |-> NoProgress]
    /\ preflight = [h \in Handles |-> {}]
    /\ reply = [h \in Handles |-> "None"]
    /\ faults = 0
-----------------------------------------------------------------------------
Obs(c) == Captures[c].obs

(* A capture that failed, is partial or saw nothing.                       *)
Terminal(c) == ~ Captures[c].ok \/ Obs(c) = {}

ManifestBlob(c) == <<"manifest", c>>
RawBlob(n) == <<"raw", n>>

(* The survey of a request: the one its caller created or loaded from a    *)
(* committed snapshot, with the batch associated.                          *)
BaseOf(d, r) == UNION {d.snapshots[s].assoc : s \in r.base}
SurveyOf(d, r) == BaseOf(d, r) \cup Obs(r.cap)

(* put_artifact.                                                           *)
AcceptsPut(d, blob, prov, utc) ==
    utc >= d.updated /\ (blob \in DOMAIN d.artifacts => d.artifacts[blob] = prov)

AfterPut(d, blob, prov, utc) ==
    IF blob \in DOMAIN d.artifacts THEN d
    ELSE [d EXCEPT !.artifacts = Set(@, blob, prov), !.revision = @ + 1, !.updated = utc]

(* Mutant of NewRow: a partial capture is filed like a good one.           *)
NewRowAlwaysManifest(d, c) ==
    [chunk |-> {}, snapshot |-> {}, status |-> "Manifest", revision |-> d.revision]

NewRow(d, c) ==
    [chunk |-> {}, snapshot |-> {}, revision |-> d.revision,
     status |-> IF Terminal(c) THEN "Terminal" ELSE "Manifest"]

(* An output link that is set can only be set again to the same value.     *)
Linked(row, field, v) == row[field] \subseteq {v}

WithChunk(row, obs) ==
    [row EXCEPT !.chunk = {obs},
                !.status = IF @ = "Manifest" THEN "Chunk" ELSE @]

WithSnapshot(row, s) ==
    [row EXCEPT !.snapshot = {s},
                !.status = IF @ = "Terminal" THEN @ ELSE "Complete"]

(* validate_record_shape.                                                  *)
ShapeHolds(c, row) ==
    CASE row.status = "Manifest" -> row.chunk = {} /\ row.snapshot = {}
      [] row.status = "Chunk" -> row.chunk # {} /\ row.snapshot = {}
      [] row.status = "Complete" -> row.chunk # {} /\ row.snapshot # {}
      [] row.status = "Terminal" ->
            /\ Obs(c) = {} => row.chunk = {}
            /\ (Obs(c) # {} /\ row.snapshot # {}) => row.chunk # {}

(* decode refuses a chunk of more rows than its allowance covers, though   *)
(* publish_observation_chunk accepts it (ChunkCodec); and to read one      *)
(* chunk is to decode every chunk of the bundle (inventory).               *)
ChunkDecodes(obs) == Cardinality(obs) <= MaxDecodedRows
InventoryDecodes(d) == \A obs \in DOMAIN d.chunks : ChunkDecodes(obs)

(* What capture_publication compares in a row with what the bundle holds.  *)
RowAgrees(d, c) ==
    LET row == d.pubs[c]
    IN  /\ ManifestBlob(c) \in DOMAIN d.artifacts
        /\ ShapeHolds(c, row)
        /\ row.status = IF Terminal(c) THEN "Terminal"
                        ELSE IF row.snapshot # {} THEN "Complete"
                        ELSE IF row.chunk # {} THEN "Chunk"
                        ELSE "Manifest"
        /\ \A obs \in row.chunk : obs \in DOMAIN d.chunks /\ obs = Obs(c)
        /\ \A s \in row.snapshot :
            /\ s \in DOMAIN d.snapshots
            /\ Obs(c) \subseteq d.snapshots[s].assoc
            /\ Obs(c) # {} => row.chunk # {}

(* capture_publication: a row with a chunk is read with the chunk.         *)
Readable(d, c) == RowAgrees(d, c) /\ (d.pubs[c].chunk # {} => InventoryDecodes(d))
-----------------------------------------------------------------------------
Idle(h) == stage[h] = "Idle"

(* The call returns (or its process ends) and forgets what it held.        *)
Return(h, tag) ==
    /\ reply' = [reply EXCEPT ![h] = tag]
    /\ stage' = [stage EXCEPT ![h] = "Idle"]
    /\ request' = [request EXCEPT ![h] = NoCall]
    /\ progress' = [progress EXCEPT ![h] = NoProgress]
    /\ preflight' = [preflight EXCEPT ![h] = {}]

Go(h, to) ==
    /\ stage' = [stage EXCEPT ![h] = to]
    /\ UNCHANGED <<request, reply>>

(* A call that leaves the store alone: refused, or contradicted by it.     *)
Refuse(h) == Return(h, "Refused") /\ UNCHANGED <<db, faults>>
Contradict(h) == Return(h, "Corrupt") /\ UNCHANGED <<db, faults>>

FirstStage(kind) ==
    CASE kind \in {"Ingest", "Spool"} -> "Manifest"
      [] kind = "Session" -> "SessionRead"
      [] kind = "Other" -> "Other"

(* An ingest works on a survey that was loaded from a committed snapshot.  *)
Call(h, r) ==
    /\ Idle(h)
    /\ r.kind = "Ingest" => r.base \subseteq DOMAIN db.snapshots
    /\ request' = [request EXCEPT ![h] = r]
    /\ reply' = [reply EXCEPT ![h] = "None"]
    /\ stage' = [stage EXCEPT ![h] =
            IF r.kind = "Ingest" THEN "Associate" ELSE FirstStage(r.kind)]
    /\ UNCHANGED <<db, progress, preflight, faults>>

(* ingest associates every observation in memory before it writes.         *)
Associate(h) ==
    /\ stage[h] = "Associate"
    /\ \/ /\ Obs(request[h].cap) \cap BaseOf(db, request[h]) = {}
          /\ Go(h, FirstStage("Ingest"))
          /\ UNCHANGED <<db, progress, preflight, faults>>
       \/ /\ Obs(request[h].cap) \cap BaseOf(db, request[h]) # {}
          /\ Refuse(h)

(* persist_capture_manifest, first transaction.                            *)
PutManifest(h) ==
    LET r == request[h]
        blob == ManifestBlob(r.cap)
    IN  /\ stage[h] = "Manifest"
        /\ \/ /\ AcceptsPut(db, blob, r.prov, r.utc)
              /\ db' = AfterPut(db, blob, r.prov, r.utc)
              /\ Go(h, "Row")
              /\ UNCHANGED <<progress, preflight, faults>>
           \/ ~ AcceptsPut(db, blob, r.prov, r.utc) /\ Refuse(h)

AfterRaw(r, count) ==
    IF count < Len(Captures[r.cap].raw) THEN "Raw"
    ELSE IF Obs(r.cap) # {} THEN "Chunk"
    ELSE IF r.kind = "Ingest" THEN "Snapshot"
    ELSE "Spooled"

(* Mutant of InsertRow: a row found is written afresh.                     *)
InsertRowAfresh(h) ==
    LET r == request[h]
    IN  /\ stage[h] = "Row"
        /\ db' = [db EXCEPT !.pubs = Set(@, r.cap, NewRow(db, r.cap))]
        /\ progress' = [progress EXCEPT ![h].manifest = db.revision]
        /\ Go(h, AfterRaw(r, 0))
        /\ UNCHANGED <<preflight, faults>>

(* Mutant of InsertRow: a row found is an error.                           *)
InsertRowOnce(h) ==
    LET r == request[h]
    IN  /\ stage[h] = "Row"
        /\ \/ /\ r.cap \notin DOMAIN db.pubs
              /\ db' = [db EXCEPT !.pubs = Set(@, r.cap, NewRow(db, r.cap))]
              /\ progress' = [progress EXCEPT ![h].manifest = db.revision]
              /\ Go(h, AfterRaw(r, 0))
              /\ UNCHANGED <<preflight, faults>>
           \/ r.cap \in DOMAIN db.pubs /\ Contradict(h)

(* persist_capture_manifest, second transaction.                           *)
InsertRow(h) ==
    LET r == request[h]
        row == IF r.cap \in DOMAIN db.pubs THEN db.pubs[r.cap] ELSE NewRow(db, r.cap)
        same == r.cap \in DOMAIN db.pubs =>
                    ShapeHolds(r.cap, row) /\ (row.status = "Terminal") = Terminal(r.cap)
    IN  /\ stage[h] = "Row"
        /\ \/ /\ same
              /\ db' = [db EXCEPT !.pubs = Set(@, r.cap, row)]
              /\ progress' = [progress EXCEPT ![h].manifest = row.revision]
              /\ Go(h, AfterRaw(r, 0))
              /\ UNCHANGED <<preflight, faults>>
           \/ ~ same /\ Contradict(h)

(* One retained record of persist_evidence's loop.                         *)
PutRaw(h) ==
    LET r == request[h]
        n == progress[h].raw + 1
        blob == RawBlob(Captures[r.cap].raw[n])
    IN  /\ stage[h] = "Raw"
        /\ \/ /\ AcceptsPut(db, blob, r.prov, r.utc)
              /\ db' = AfterPut(db, blob, r.prov, r.utc)
              /\ progress' = [progress EXCEPT ![h].raw = n]
              /\ Go(h, AfterRaw(r, n))
              /\ UNCHANGED <<preflight, faults>>
           \/ ~ AcceptsPut(db, blob, r.prov, r.utc) /\ Refuse(h)

(* publish_observation_chunk: an existing chunk is returned before the     *)
(* clock is looked at, and no observation is a member of two chunks.       *)
PublishChunk(h) ==
    LET r == request[h]
        obs == Obs(r.cap)
        published == obs \in DOMAIN db.chunks
        fresh == r.utc >= db.updated /\ \A o \in DOMAIN db.chunks : o \cap obs = {}
        chunk == IF published THEN db.chunks[obs]
                 ELSE [prov |-> r.prov, revision |-> db.revision + 1]
    IN  /\ stage[h] = "Chunk"
        /\ \/ /\ IF published THEN chunk.prov = r.prov ELSE fresh
              /\ db' = IF published THEN db
                       ELSE [db EXCEPT !.chunks = Set(@, obs, chunk),
                                       !.revision = @ + 1, !.updated = r.utc]
              /\ progress' = [progress EXCEPT ![h].chunk = {chunk.revision}]
              /\ Go(h, "LinkChunk")
              /\ UNCHANGED <<preflight, faults>>
           \/ published /\ chunk.prov # r.prov /\ Contradict(h)
           \/ ~ published /\ ~ fresh /\ Refuse(h)

(* link_capture_chunk.                                                     *)
LinkChunk(h) ==
    LET r == request[h]
        obs == Obs(r.cap)
        agrees == /\ ManifestBlob(r.cap) \in DOMAIN db.artifacts
                  /\ r.cap \in DOMAIN db.pubs
                  /\ ShapeHolds(r.cap, db.pubs[r.cap])
                  /\ obs \in DOMAIN db.chunks /\ InventoryDecodes(db)
                  /\ Linked(db.pubs[r.cap], "chunk", obs)
    IN  /\ stage[h] = "LinkChunk"
        /\ \/ /\ agrees
              /\ db' = [db EXCEPT !.pubs[r.cap] = WithChunk(@, obs)]
              /\ Go(h, IF r.kind = "Ingest" THEN "Snapshot" ELSE "Spooled")
              /\ UNCHANGED <<progress, preflight, faults>>
           \/ ~ agrees /\ Contradict(h)

(* AcquisitionSpoolOutcome::new.                                           *)
Spooled(h) ==
    LET p == progress[h]
        valid == /\ p.snapshot = {}
                 /\ p.raw = Len(Captures[request[h].cap].raw)
                 /\ (p.chunk = {}) <=> (Obs(request[h].cap) = {})
    IN  /\ stage[h] = "Spooled"
        /\ Return(h, IF valid THEN "Done" ELSE "Inconsistent")
        /\ UNCHANGED <<db, faults>>

(* save_survey_snapshot: the clock is looked at before the identity.       *)
SaveSnapshot(h) ==
    LET r == request[h]
        saved == r.snap \in DOMAIN db.snapshots
        snap == IF saved THEN db.snapshots[r.snap]
                ELSE [assoc |-> SurveyOf(db, r), revision |-> db.revision + 1]
        accepts == r.utc >= db.updated /\ snap.assoc = SurveyOf(db, r)
    IN  /\ stage[h] = "Snapshot"
        /\ \/ /\ accepts
              /\ db' = IF saved THEN db
                       ELSE [db EXCEPT !.snapshots = Set(@, r.snap, snap),
                                       !.revision = @ + 1, !.updated = r.utc]
              /\ progress' = [progress EXCEPT ![h].snapshot = {snap.revision}]
              /\ Go(h, "Preflight")
              /\ UNCHANGED <<preflight, faults>>
           \/ ~ accepts /\ Refuse(h)

(* link_capture_snapshot before its transaction: the snapshot is loaded    *)
(* and compared, the row is read and its chunk remembered.                 *)
Preflight(h) ==
    LET r == request[h]
        agrees == /\ ManifestBlob(r.cap) \in DOMAIN db.artifacts
                  /\ r.snap \in DOMAIN db.snapshots
                  /\ db.snapshots[r.snap].assoc = SurveyOf(db, r)
                  /\ Obs(r.cap) \subseteq db.snapshots[r.snap].assoc
                  /\ r.cap \in DOMAIN db.pubs
                  /\ Readable(db, r.cap)
                  /\ Obs(r.cap) # {} => db.pubs[r.cap].chunk # {}
    IN  /\ stage[h] = "Preflight"
        /\ \/ /\ agrees
              /\ preflight' = [preflight EXCEPT ![h] = db.pubs[r.cap].chunk]
              /\ Go(h, "LinkSnapshot")
              /\ UNCHANGED <<db, progress, faults>>
           \/ ~ agrees /\ Contradict(h)

(* The receipts ingest accepts from its port.                              *)
ReceiptsAgree(r, p) ==
    /\ p.manifest > 0
    /\ p.raw = Len(Captures[r.cap].raw)
    /\ (p.chunk = {}) <=> (Obs(r.cap) = {})
    /\ \A c \in p.chunk : c >= p.manifest
    /\ \E s \in p.snapshot : s >= p.manifest /\ \A c \in p.chunk : s >= c

(* link_capture_snapshot's transaction, and ingest's look at the receipts. *)
LinkSnapshot(h) ==
    LET r == request[h]
        agrees == /\ r.cap \in DOMAIN db.pubs
                  /\ ShapeHolds(r.cap, db.pubs[r.cap])
                  /\ db.pubs[r.cap].chunk = preflight[h]
                  /\ Obs(r.cap) # {} => preflight[h] # {}
                  /\ r.snap \in DOMAIN db.snapshots
                  /\ Linked(db.pubs[r.cap], "snapshot", r.snap)
    IN  /\ stage[h] = "LinkSnapshot"
        /\ \/ /\ agrees
              /\ db' = [db EXCEPT !.pubs[r.cap] = WithSnapshot(@, r.snap)]
              /\ Return(h, IF ReceiptsAgree(r, progress[h]) THEN "Done" ELSE "Inconsistent")
              /\ UNCHANGED faults
           \/ ~ agrees /\ Contradict(h)
-----------------------------------------------------------------------------
(* load_manifest_observations: what a session's evidence must look like,   *)
(* and that it can be read.                                                *)
EvidenceAgrees(d, c) ==
    /\ ManifestBlob(c) \in DOMAIN d.artifacts
    /\ c \in DOMAIN d.pubs
    /\ RowAgrees(d, c)
    /\ (d.pubs[c].chunk = {}) <=> (Obs(c) = {})

HasEvidence(d, c) == EvidenceAgrees(d, c) /\ Readable(d, c)

(* register_capture_session reads its evidence outside the transaction.    *)
SessionRead(h) ==
    /\ stage[h] = "SessionRead"
    /\ \/ /\ HasEvidence(db, request[h].cap)
          /\ Go(h, "SessionWrite")
          /\ UNCHANGED <<db, progress, preflight, faults>>
       \/ ~ HasEvidence(db, request[h].cap) /\ Contradict(h)

(* Mutant of FreeForSession: only the session id is looked up.             *)
FreeForSessionById(d, sid, c) == sid \in DOMAIN d.sessions => d.sessions[sid] = c

(* The id is new or holds this record, and the manifest has no other owner.*)
FreeForSession(d, sid, c) ==
    /\ sid \in DOMAIN d.sessions => d.sessions[sid] = c
    /\ \A s \in DOMAIN d.sessions : d.sessions[s] = c => s = sid

SessionWrite(h) ==
    LET r == request[h]
    IN  /\ stage[h] = "SessionWrite"
        /\ \/ /\ FreeForSession(db, r.session, r.cap)
              /\ db' = [db EXCEPT !.sessions = Set(@, r.session, r.cap)]
              /\ Go(h, "SessionReadback")
              /\ UNCHANGED <<progress, preflight, faults>>
           \/ ~ FreeForSession(db, r.session, r.cap) /\ Refuse(h)

SessionReadback(h) ==
    LET r == request[h]
        agrees == /\ r.session \in DOMAIN db.sessions
                  /\ db.sessions[r.session] = r.cap
                  /\ HasEvidence(db, r.cap)
    IN  /\ stage[h] = "SessionReadback"
        /\ \/ agrees /\ Return(h, "Done") /\ UNCHANGED <<db, faults>>
           \/ ~ agrees /\ Contradict(h)

(* Any other client of put_artifact.                                       *)
PutOther(h) ==
    LET r == request[h]
    IN  /\ stage[h] = "Other"
        /\ \/ /\ AcceptsPut(db, r.blob, r.prov, r.utc)
              /\ db' = AfterPut(db, r.blob, r.prov, r.utc)
              /\ Return(h, "Done")
              /\ UNCHANGED faults
           \/ ~ AcceptsPut(db, r.blob, r.prov, r.utc) /\ Refuse(h)

(* A cancellation seen, or an error returned, between two transactions.    *)
Fail(h) ==
    /\ ~ Idle(h) /\ faults < MaxFaults
    /\ Return(h, IF progress[h].manifest > 0 THEN "Partial" ELSE "Failed")
    /\ faults' = faults + 1
    /\ UNCHANGED db

Crash(h) ==
    /\ ~ Idle(h) /\ faults < MaxFaults
    /\ Return(h, "Crashed")
    /\ faults' = faults + 1
    /\ UNCHANGED db

Step(h) ==
    \/ Associate(h) \/ PutManifest(h) \/ InsertRow(h) \/ PutRaw(h)
    \/ PublishChunk(h) \/ LinkChunk(h) \/ Spooled(h)
    \/ SaveSnapshot(h) \/ Preflight(h) \/ LinkSnapshot(h)
    \/ SessionRead(h) \/ SessionWrite(h) \/ SessionReadback(h)
    \/ PutOther(h)

Next ==
    \E h \in Handles : (\E r \in Requests : Call(h, r)) \/ Step(h) \/ Fail(h) \/ Crash(h)

Spec == Init /\ [][Next]_vars

-----------------------------------------------------------------------------
(* Every publication row agrees with what the bundle holds in every point  *)
(* capture_publication compares, whatever calls raced, failed or died half *)
(* way, so that it can be read as long as every chunk can be decoded.  The *)
(* evidence of a registered session stays in place, and no manifest has    *)
(* two sessions, although the evidence was read before the transaction     *)
(* that inserts it.                                                        *)
RowsReadable ==
    /\ \A c \in DOMAIN db.pubs : RowAgrees(db, c)
    /\ \A s \in DOMAIN db.sessions :
        /\ EvidenceAgrees(db, db.sessions[s])
        /\ \A t \in DOMAIN db.sessions : db.sessions[s] = db.sessions[t] => s = t

(* The receipts a call has collected, which it reports when it fails half  *)
(* way, are the revisions the store holds.                                 *)
ReceiptsDurable ==
    \A h \in Handles :
        progress[h] # NoProgress =>
            LET c == request[h].cap
            IN  /\ c \in DOMAIN db.pubs /\ db.pubs[c].revision = progress[h].manifest
                /\ \A n \in 1..progress[h].raw :
                    RawBlob(Captures[c].raw[n]) \in DOMAIN db.artifacts
                /\ \A v \in progress[h].chunk : db.chunks[Obs(c)].revision = v
                /\ \A v \in progress[h].snapshot : db.snapshots[request[h].snap].revision = v

(* What entitles the store to contradict a call: the capture is linked to  *)
(* another snapshot, its chunk has another provenance, a session is asked  *)
(* for a capture whose evidence is not published, or the bundle holds a    *)
(* chunk, of this capture or of any other, that cannot be decoded.         *)
Contradicted(d, r) ==
    \/ ~ InventoryDecodes(d)
    \/ r.kind = "Session" /\ ~ EvidenceAgrees(d, r.cap)
    \/ /\ r.kind # "Session"
       /\ \/ r.kind = "Ingest" /\ ~ Linked(d.pubs[r.cap], "snapshot", r.snap)
          \/ Obs(r.cap) \in DOMAIN d.chunks /\ d.chunks[Obs(r.cap)].prov # r.prov

(* No interleaving, failure or crash makes the store report corruption:    *)
(* it does so only to a call that disagrees with what is stored, or where  *)
(* a chunk beyond the decode allowance was accepted for publication.       *)
CorruptIsReal ==
    [][\A h \in Handles :
        (~ Idle(h) /\ reply'[h] = "Corrupt") => Contradicted(db, request[h])]_vars

(* native-observation-pipeline.md: "The caller can diagnose that state and *)
(* retry the same request."  The manifest step never refuses a request     *)
(* whose manifest is stored as that request would store it.                *)
RetryAccepted ==
    [][\A h \in Handles :
        (stage[h] = "Manifest" /\ reply'[h] = "Refused") =>
            LET r == request[h]
            IN  ~ (ManifestBlob(r.cap) \in DOMAIN db.artifacts
                   /\ db.artifacts[ManifestBlob(r.cap)] = r.prov)]_vars

(* An ingest is fully linked.                                             *)
Published(r) ==
    /\ r.cap \in DOMAIN db.pubs
    /\ db.pubs[r.cap].snapshot = {r.snap}
    /\ db.pubs[r.cap].status \in {"Complete", "Terminal"}
=============================================================================
