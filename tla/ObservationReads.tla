--------------------------- MODULE ObservationReads ---------------------------
(***************************************************************************)
(* The readers of the observation chunks of a bundle, running against a    *)
(* writer that publishes chunks and against one damaged cell or file.      *)
(*                                                                         *)
(* An envelope is [id, source, session, wall], wall -1 when the wall clock *)
(* is unknown.  The hash of a chunk is the sequence of envelopes its bytes *)
(* encode.  What a file decodes to is the subject of ChunkCodec; here the  *)
(* decoder gives the rows back, or refuses a file of more rows than its    *)
(* memory allowance admits, which publication does not look at.  A reader  *)
(* works in several transactions: the index first, then one chunk at a     *)
(* time against what the database says by then.                            *)
(***************************************************************************)
EXTENDS Integers, Sequences, FiniteSets, SequencesExt, TLC

CONSTANTS Batches,       \* what a writer may publish: sequences of envelopes
          Provenances,
          Requests,      \* what a caller may select: sequences of ids
          MAX_OBSERVATION_CHUNK_ROWS, MAX_OBSERVATION_QUERY_IDS,
          MAX_OBSERVATION_QUERY_CHUNKS, MAX_OBSERVATION_QUERY_BYTES,
          MAX_OBSERVATION_QUERY_DECODED_ROWS, MAX_OBSERVATIONS_PER_READ,
          MaxDecodedRows,  \* the rows MAX_DECODED_ARROW_BYTES has room for
          MaxRevision

VARIABLES db,            \* [revision, artifacts, chunks, members]
          files,         \* encoded chunk by hash
          published,     \* what every commit published, in order
          hurt,          \* a cell or a file was damaged
          job, answer, cancelled

vars == <<db, files, published, hurt, job, answer, cancelled>>

Unknown == -1
Idle == [kind |-> "idle"]
NoAnswer == [status |-> "none"]
Stop(status) == [status |-> status]

\* A reader that finds a chunk it cannot verify says which.
Corrupt(j, hash) == [status |-> "corrupt", kind |-> j.kind, ids |-> j.ids, chunk |-> hash]

Init ==
    /\ db = [revision |-> 0, artifacts |-> <<>>, chunks |-> <<>>, members |-> <<>>]
    /\ files = <<>> /\ published = <<>> /\ hurt = FALSE
    /\ job = Idle /\ answer = NoAnswer /\ cancelled = FALSE

-----------------------------------------------------------------------------
(* Publication                                                             *)

Ids(rows) == {rows[i].id : i \in DOMAIN rows}
KnownWall(rows) == {i \in DOMAIN rows : rows[i].wall # Unknown}

\* The bounds a descriptor states, computed from the rows.
RangesOf(rows) ==
    LET walls == {rows[i].wall : i \in KnownWall(rows)}
        sources == {r.source : r \in ToSet(rows)}
        sessions == {r.session : r \in ToSet(rows)}
    IN [known_utc_count |-> Cardinality(KnownWall(rows)),
        first_utc |-> IF walls = {} THEN Unknown ELSE Min(walls),
        last_utc |-> IF walls = {} THEN Unknown ELSE Max(walls),
        first_source |-> Min(sources), last_source |-> Max(sources),
        first_session |-> Min(sessions), last_session |-> Max(sessions)]

CanonicalObservations(batch) == SortSeq(batch, LAMBDA a, b : a.id < b.id)

Acceptable(batch) ==
    /\ Len(batch) \in 1..MAX_OBSERVATION_CHUNK_ROWS
    /\ Cardinality(Ids(batch)) = Len(batch)

\* A file is a header and its rows; a row with a wall clock is longer.
EncodeChunk(rows) == [header |-> 2, rows |-> rows]
ByteLength(file) == 1 + Len(file.rows) + Cardinality(KnownWall(file.rows))
Decodes(file) == file.header = 2 /\ Len(file.rows) <= MaxDecodedRows

Descriptor(rows, provenance, revision) ==
    [hash |-> rows, bytes |-> ByteLength(EncodeChunk(rows)), codec |-> 2, row_count |-> Len(rows),
     first_id |-> rows[1].id, last_id |-> rows[Len(rows)].id,
     ranges |-> RangesOf(rows), provenance |-> provenance, revision |-> revision]

ChunkArtifactEntry(d) == [bytes |-> d.bytes, provenance |-> d.provenance]

MembersOf(rows) ==
    [id \in Ids(rows) |->
       LET i == CHOOSE k \in DOMAIN rows : rows[k].id = id
       IN [chunk |-> rows, source |-> rows[i].source, session |-> rows[i].session,
           ordinal |-> i - 1]]

\* The bytes are on disk before the transaction starts; until it commits no
\* reader looks at them, so the publication is one step here.  A chunk that
\* is already described changes nothing.
Publish ==
    \E batch \in Batches, provenance \in Provenances :
      LET rows == CanonicalObservations(batch)
          d == Descriptor(rows, provenance, db.revision + 1)
      IN /\ Acceptable(batch)
         /\ db.revision < MaxRevision
         /\ rows \notin DOMAIN db.chunks /\ rows \notin DOMAIN db.artifacts
         /\ Ids(rows) \cap DOMAIN db.members = {}
         /\ db' = [revision |-> d.revision,
                   artifacts |-> (rows :> ChunkArtifactEntry(d)) @@ db.artifacts,
                   chunks |-> (rows :> d) @@ db.chunks,
                   members |-> MembersOf(rows) @@ db.members]
         /\ files' = (rows :> EncodeChunk(rows)) @@ files
         /\ published' = Append(published, d)
         /\ UNCHANGED <<hurt, job, answer, cancelled>>

-----------------------------------------------------------------------------
(* Verification of one chunk                                               *)

ValidateDescriptor(d) ==
    /\ d.bytes > 0 /\ d.codec = 2
    /\ d.row_count \in 1..MAX_OBSERVATION_CHUNK_ROWS
    /\ d.revision # 0
    /\ d.first_id <= d.last_id
    /\ d.ranges.first_source <= d.ranges.last_source
    /\ d.ranges.first_session <= d.ranges.last_session
    /\ d.ranges.known_utc_count <= d.row_count
    /\ IF d.ranges.known_utc_count = 0
         THEN d.ranges.first_utc = Unknown /\ d.ranges.last_utc = Unknown
         ELSE /\ d.ranges.first_utc # Unknown /\ d.ranges.last_utc # Unknown
              /\ d.ranges.first_utc <= d.ranges.last_utc

\* The index rows of a chunk, in ordinal order, are its envelopes.
VerifyMembers(d, rows) ==
    LET mine == {id \in DOMAIN db.members : db.members[id].chunk = d.hash}
    IN /\ Cardinality(mine) = d.row_count /\ Len(rows) = d.row_count
       /\ \A i \in DOMAIN rows :
            /\ rows[i].id \in mine
            /\ db.members[rows[i].id] = MembersOf(rows)[rows[i].id]

ArtifactReads(hash, entry) ==
    /\ hash \in DOMAIN files
    /\ files[hash] = EncodeChunk(hash) /\ ByteLength(files[hash]) = entry.bytes

VerifyDescriptor(d) ==
    LET rows == files[d.hash].rows
    IN  /\ ValidateDescriptor(d)
        /\ d.revision <= db.revision
        /\ d.hash \in DOMAIN db.artifacts
        /\ db.artifacts[d.hash] = ChunkArtifactEntry(d)
        /\ ArtifactReads(d.hash, db.artifacts[d.hash])
        /\ ByteLength(files[d.hash]) = d.bytes /\ Decodes(files[d.hash])
        /\ Len(rows) = d.row_count
        /\ rows[1].id = d.first_id /\ Last(rows).id = d.last_id
        /\ RangesOf(rows) = d.ranges
        /\ VerifyMembers(d, rows)

-----------------------------------------------------------------------------
(* Readers.  A job lists the chunks still to verify; those marked collect  *)
(* contribute their envelopes to the answer.                               *)

ByRevision(chunks) == SetToSortSeq(Range(chunks), LAMBDA a, b : a.revision < b.revision)

\* The manifest, the descriptors and the index name the same chunks.
Bijective ==
    /\ DOMAIN db.artifacts = DOMAIN db.chunks
    /\ {db.members[id].chunk : id \in DOMAIN db.members} = DOMAIN db.chunks

Tasks(ds, collect) == [i \in DOMAIN ds |-> [d |-> ds[i], collect |-> collect]]

Reply(j, observations) ==
    [status |-> "ok", kind |-> j.kind, ids |-> j.ids, observations |-> observations,
     revision |-> j.revision, receipt |-> j.receipt, current |-> db.revision]

Accept(j) == job' = j /\ answer' = NoAnswer
Refuse(status) == job' = Idle /\ answer' = Stop(status)
CallCorrupt(j, hash) == job' = Idle /\ answer' = Corrupt(j, hash)

\* list_observation_chunks, read_observation_chunk and read_observations
\* verify every chunk of the inventory before the ones they return.
StartInventory ==
    /\ job = Idle
    /\ cancelled' = FALSE
    /\ \E kind \in {"list", "chunk", "all"}, hash \in {d.hash : d \in ToSet(published)} \cup {<<>>} :
         LET ds == ByRevision(db.chunks)
             wanted == CASE kind = "list" -> <<>>
                         [] kind = "chunk" -> SelectSeq(ds, LAMBDA d : d.hash = hash)
                         [] kind = "all" -> ds
         IN /\ kind # "chunk" => hash = <<>>
            /\ IF ~Bijective THEN CallCorrupt([kind |-> kind, ids |-> <<>>], <<>>)
               ELSE Accept([kind |-> kind, ids |-> <<>>, revision |-> db.revision,
                            missing |-> kind = "chunk" /\ wanted = <<>>,
                            todo |-> Tasks(ds, FALSE) \o Tasks(wanted, TRUE),
                            got |-> <<>>, receipt |-> ds])
    /\ UNCHANGED <<db, files, published, hurt>>

\* read_observation_chunk_parquet looks only at the one chunk.
StartExport ==
    /\ job = Idle
    /\ cancelled' = FALSE
    /\ \E hash \in {d.hash : d \in ToSet(published)} :
         IF hash \notin DOMAIN db.chunks THEN Refuse("invalid")
         ELSE Accept([kind |-> "export", ids |-> <<>>, revision |-> db.revision, missing |-> FALSE,
                      todo |-> Tasks(<<db.chunks[hash]>>, TRUE),
                      got |-> <<>>, receipt |-> <<db.chunks[hash]>>])
    /\ UNCHANGED <<db, files, published, hurt>>

SumRows(chunks) == FoldSet(LAMBDA c, n : db.chunks[c].row_count + n, 0, chunks)
SumBytes(chunks) == FoldSet(LAMBDA c, n : db.chunks[c].bytes + n, 0, chunks)

ChunksBefore(ids, k) ==
    {db.members[ids[i]].chunk : i \in {j \in 1..(k - 1) : ids[j] \in DOMAIN db.members}}

\* What stops the lookup at the k-th id, if anything; an id that is not
\* indexed is only noted.
LookupError(ids, k) ==
    IF ids[k] \notin DOMAIN db.members THEN "none"
    ELSE LET chunk == db.members[ids[k]].chunk
             before == ChunksBefore(ids, k)
         IN IF chunk \in before THEN "none"
            ELSE IF Cardinality(before) >= MAX_OBSERVATION_QUERY_CHUNKS THEN "invalid"
            ELSE IF chunk \notin DOMAIN db.chunks THEN "corrupt"
            ELSE IF ~ValidateDescriptor(db.chunks[chunk]) THEN "corrupt" ELSE "none"

\* The index pass: the first lookup error, then ids that are not there, then
\* more bytes or more rows than the decoder may be given.
SelectionError(ids) ==
    LET errors == SelectSeq([k \in DOMAIN ids |-> LookupError(ids, k)], LAMBDA e : e # "none")
        chunks == ChunksBefore(ids, Len(ids) + 1)
    IN IF errors # <<>> THEN errors[1]
       ELSE IF ~(ToSet(ids) \subseteq DOMAIN db.members) THEN "invalid"
       ELSE IF SumBytes(chunks) > MAX_OBSERVATION_QUERY_BYTES THEN "invalid"
       ELSE IF SumRows(chunks) > MAX_OBSERVATION_QUERY_DECODED_ROWS THEN "invalid"
       ELSE "none"

SelectedDescriptors(ids) ==
    ByRevision([c \in ChunksBefore(ids, Len(ids) + 1) |-> db.chunks[c]])

\* read_observation_selection_by_id_with_cancel, up to the end of its first
\* transaction.
StartSelection ==
    /\ job = Idle
    /\ cancelled' = FALSE
    /\ \E request \in Requests :
         LET ids == SortSeq(request, LAMBDA a, b : a < b)
         IN IF \/ Len(ids) > MAX_OBSERVATION_QUERY_IDS
               \/ Cardinality(ToSet(ids)) # Len(ids) THEN Refuse("invalid")
            ELSE IF ids = <<>> THEN
              /\ job' = Idle
              /\ answer' = Reply([kind |-> "select", ids |-> <<>>, revision |-> db.revision,
                                  receipt |-> <<>>], <<>>)
            ELSE IF SelectionError(ids) = "corrupt" THEN
              CallCorrupt([kind |-> "select", ids |-> ids], <<>>)
            ELSE IF SelectionError(ids) # "none" THEN Refuse(SelectionError(ids))
            ELSE Accept([kind |-> "select", ids |-> ids, revision |-> db.revision, missing |-> FALSE,
                         todo |-> Tasks(SelectedDescriptors(ids), TRUE),
                         got |-> <<>>, receipt |-> SelectedDescriptors(ids),
                         members |-> [i \in ToSet(ids) |-> db.members[i]]])
    /\ UNCHANGED <<db, files, published, hurt>>

\* Every selected member points at its own envelope in the chunk.
MembersPoint(d, rows) ==
    \A id \in DOMAIN job.members :
      job.members[id].chunk = d.hash =>
        /\ job.members[id].ordinal + 1 \in DOMAIN rows
        /\ LET row == rows[job.members[id].ordinal + 1]
           IN /\ row.id = id /\ row.source = job.members[id].source
              /\ row.session = job.members[id].session

\* A selection wants the descriptor unchanged since the index pass.
ChunkStands(d) ==
    /\ job.kind = "select" => d.hash \in DOMAIN db.chunks /\ db.chunks[d.hash] = d
    /\ VerifyDescriptor(d)
    /\ job.kind = "select" => MembersPoint(d, files[d.hash].rows)

TooMany(task) ==
    job.kind = "all" /\ task.collect /\ Len(job.got) + task.d.row_count > MAX_OBSERVATIONS_PER_READ

VerifyNext ==
    /\ job # Idle /\ job.todo # <<>>
    /\ LET task == Head(job.todo)
       IN IF cancelled THEN Refuse("cancelled")
          ELSE IF TooMany(task) THEN Refuse("invalid")
          ELSE IF ~ChunkStands(task.d) THEN CallCorrupt(job, task.d.hash)
          ELSE Accept([job EXCEPT !.todo = Tail(@),
                                  !.got = IF task.collect THEN @ \o files[task.d.hash].rows ELSE @])
    /\ UNCHANGED <<db, files, published, hurt, cancelled>>

\* The envelopes of a selection in id order.
Selected(ids, got) == SelectSeq(SortSeq(got, LAMBDA a, b : a.id < b.id),
                                LAMBDA row : row.id \in ToSet(ids))

RevisionHeldOrAdvanced == db.revision >= job.revision
RevisionHeld == db.revision = job.revision

\* The end of a reader: a selection wants the revision it started from, an
\* export the manifest entry, and reads the artifact once more.
Finish ==
    /\ job # Idle /\ job.todo = <<>>
    /\ job' = Idle
    /\ answer' =
         IF cancelled THEN Stop("cancelled")
         ELSE IF job.missing THEN Stop("invalid")
         ELSE IF job.kind = "select" THEN
           (IF ~RevisionHeld THEN Stop("invalid")
            ELSE Reply(job, Selected(job.ids, job.got)))
         ELSE IF job.kind = "export" THEN
           (LET d == job.receipt[1]
            IN IF \/ d.hash \notin DOMAIN db.artifacts
                  \/ db.artifacts[d.hash] # ChunkArtifactEntry(d)
                  \/ ~ArtifactReads(d.hash, db.artifacts[d.hash]) THEN Corrupt(job, d.hash)
               ELSE Reply(job, files[d.hash].rows))
         ELSE Reply(job, job.got)
    /\ UNCHANGED <<db, files, published, hurt, cancelled>>

Cancel ==
    /\ job # Idle /\ job.kind = "select" /\ ~cancelled
    /\ cancelled' = TRUE
    /\ UNCHANGED <<db, files, published, hurt, job, answer>>

-----------------------------------------------------------------------------
(* One cell, row or file of the bundle changes behind the program's back.  *)

Wrong(cell) == {v \in {0, 1, 3} : v # cell}

DamagedDescriptor(d) ==
    UNION {{[d EXCEPT ![f] = v] : v \in Wrong(d[f])} :
             f \in {"bytes", "codec", "row_count", "first_id", "last_id", "provenance", "revision"}}
    \cup
    UNION {{[d EXCEPT !.ranges[f] = v] : v \in Wrong(d.ranges[f])} : f \in DOMAIN d.ranges}

DamagedMember(m) ==
    UNION {{[m EXCEPT ![f] = v] : v \in Wrong(m[f])} : f \in {"source", "session", "ordinal"}}
    \cup {[m EXCEPT !.chunk = h] : h \in DOMAIN db.chunks \ {m.chunk}}

Without(f, x) == [y \in DOMAIN f \ {x} |-> f[y]]

Damage ==
    /\ ~hurt /\ hurt' = TRUE
    /\ \/ /\ \E h \in DOMAIN db.chunks :
               \/ \E d \in DamagedDescriptor(db.chunks[h]) : db' = [db EXCEPT !.chunks[h] = d]
               \/ db' = [db EXCEPT !.chunks = Without(@, h)]
               \/ db' = [db EXCEPT !.artifacts = Without(@, h)]
               \/ \E v \in Wrong(db.artifacts[h].bytes) : db' = [db EXCEPT !.artifacts[h].bytes = v]
          /\ UNCHANGED files
       \/ /\ \E id \in DOMAIN db.members :
               \/ \E m \in DamagedMember(db.members[id]) : db' = [db EXCEPT !.members[id] = m]
               \/ db' = [db EXCEPT !.members = Without(@, id)]
          /\ UNCHANGED files
       \/ /\ \E h \in DOMAIN files :
               \/ files' = Without(files, h)
               \/ files' = [files EXCEPT ![h].header = 0]
               \/ files' = [files EXCEPT ![h].rows[1].wall = 7]
               \/ files' = [files EXCEPT ![h].rows = Tail(@)]
          /\ UNCHANGED db
    /\ UNCHANGED <<published, job, answer, cancelled>>

Next ==
    \/ Publish \/ StartInventory \/ StartExport \/ StartSelection
    \/ VerifyNext \/ Finish \/ Cancel \/ Damage

Spec == Init /\ [][Next]_vars

-----------------------------------------------------------------------------
\* The publication revision is the one cell of a descriptor nothing else
\* repeats, so a reader cannot tell that it changed.
AsPublished(d) ==
    \E i \in DOMAIN published :
      IF hurt THEN [d EXCEPT !.revision = 0] = [published[i] EXCEPT !.revision = 0]
      ELSE d = published[i]

CommittedRows(revision) == UNION {ToSet(published[i].hash) : i \in 1..revision}

AnswerIsTrue ==
    LET rows == ToSet(answer.observations)
        chunks == ToSet(answer.receipt)
    IN /\ \A d \in chunks : AsPublished(d)
       /\ CASE answer.kind = "select" ->
                 /\ [i \in DOMAIN answer.observations |-> answer.observations[i].id] = answer.ids
                 /\ rows \subseteq CommittedRows(answer.revision)
                 /\ rows \subseteq UNION {ToSet(d.hash) : d \in chunks}
                 /\ \A d \in chunks : ToSet(d.hash) \cap rows # {}
                 /\ answer.revision = answer.current
            [] answer.kind = "all" ->
                 rows = CommittedRows(answer.revision)
            [] answer.kind = "list" ->
                 Cardinality(chunks) = answer.revision
            [] OTHER -> \E i \in DOMAIN published : published[i].hash = answer.observations

\* Whatever a reader of the chunk store answers is what writers published:
\* a selection holds exactly the requested envelopes in id order, with a
\* receipt naming the chunks that hold them and the revision that is still
\* current; a full read holds every committed envelope; and no answer mixes
\* in damaged rows.  An undamaged bundle is called corrupt only over a chunk
\* that was accepted for publication and is beyond the decoder's allowance,
\* and a selection only over one that holds an id it asked for.  (The index
\* is read in one transaction, each chunk in a later one.)
ReadsAreTrue ==
    /\ answer.status = "ok" => AnswerIsTrue
    /\ answer.status = "corrupt" /\ ~hurt =>
         /\ \E i \in DOMAIN published : published[i].hash = answer.chunk
         /\ Len(answer.chunk) > MaxDecodedRows
         /\ answer.kind = "select" => Ids(answer.chunk) \cap ToSet(answer.ids) # {}
=============================================================================
