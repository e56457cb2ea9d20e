---------------------------- MODULE MCStoreReads ----------------------------
(***************************************************************************)
(* The readers of a bundle side by side: a behaviour reads observation     *)
(* chunks, pages through survey snapshots or capture sessions, verifies a  *)
(* materialized history, or encodes and decodes one chunk, as chosen at    *)
(* the start.                                                              *)
(***************************************************************************)
EXTENDS ChunkCodec

VARIABLES which, db, files, published, hurt, job, answer, cancelled,
          revision, artifacts, index, history, committed, walk, loaded,
          written, verdict, rows, stored, registered, spoiled

-----------------------------------------------------------------------------
(* Observation chunks: a batch may repeat an id inside it or across        *)
(* chunks, one batch is longer than the decoder admits, and a query may    *)
(* exceed each of its limits.                                              *)

Env(id, source, session, wall) ==
    [id |-> id, source |-> source, session |-> session, wall |-> wall]

O == INSTANCE ObservationReads WITH
       Batches <- {<<Env(2, 1, 1, 5), Env(1, 2, 1, -1)>>, <<Env(3, 1, 2, 4)>>, <<Env(1, 2, 2, -1)>>,
                   <<Env(5, 1, 1, -1), Env(4, 2, 1, -1), Env(6, 1, 1, -1)>>, <<Env(4, 1, 1, 1), Env(4, 1, 1, 1)>>, <<>>},
       Provenances <- {7},
       Requests <- {<<>>, <<3, 1>>, <<2>>, <<1, 1>>, <<1, 9>>, <<1, 2, 3, 4>>, <<2, 1>>,
                    <<4>>, <<4, 1>>},
       MAX_OBSERVATION_CHUNK_ROWS <- 3, MAX_OBSERVATION_QUERY_IDS <- 3,
       MAX_OBSERVATION_QUERY_CHUNKS <- 2, MAX_OBSERVATION_QUERY_BYTES <- 6,
       MAX_OBSERVATION_QUERY_DECODED_ROWS <- 3, MAX_OBSERVATIONS_PER_READ <- 2,
       MaxDecodedRows <- 2, MaxRevision <- 2

-----------------------------------------------------------------------------
(* Survey snapshots: two sessions, page limits that are just enough and    *)
(* one short.                                                              *)

Doc(s, i, n) == [session |-> s, input |-> i, size |-> n, body |-> "whole"]
PageLimit(items, bytes, work) == [items |-> items, bytes |-> bytes, work |-> work]

S == INSTANCE SnapshotPages WITH
       Documents <- {Doc("s1", "2", 1), Doc("s2", "v1", 2)},
       Names <- <<"b", "a", "c">>, Sessions <- {"s1", "s2"}, AnySession <- "any",
       MAX_SURVEY_SNAPSHOTS <- 3, MAX_PAGE_ITEMS <- 2, MAX_PAGE_BYTES <- 3,
       MAX_ARTIFACT_REGISTRY_ENTRIES <- 3, MAX_SNAPSHOT_LOOKUP_COMPARISONS <- 2,
       MaxRevision <- 3,
       PageLimits <- {PageLimit(2, 3, 24), PageLimit(1, 3, 24), PageLimit(3, 1, 24),
                      PageLimit(1, 1, 12)}

-----------------------------------------------------------------------------
(* Capture sessions: one of no observations, and two of one manifest.      *)

Rec(s, m, o) == [session |-> s, manifest |-> m, order |-> o, fields |-> s + 10]

C == INSTANCE SessionCatalog WITH
       Records <- {Rec(2, 21, <<4, 3>>), Rec(1, 22, <<>>), Rec(3, 23, <<5>>), Rec(4, 21, <<4, 3>>)},
       PageSizes <- {0, 1, 2, 3}, MAX_CAPTURE_SESSIONS_PER_PAGE <- 2,
       LongCapture <- Rec(5, 24, <<6, 7, 8>>), MaxDecodedRows <- 2

-----------------------------------------------------------------------------
(* Materialized history: two operations whose ids are not in causal order. *)

Op(i, parents, depth, time, value) ==
    [id |-> i, parents |-> parents, depth |-> depth, time |-> time, value |-> value]

H == INSTANCE StoredHistory WITH
       Project <- "p", Foreign <- "q",
       Appended <- <<Op(2, {}, 0, 3, 20), Op(1, {2}, 1, 4, 10)>>,
       BaselineProject <- [revision |-> 1, time |-> 2, schema |-> 2, values |-> {1}],
       OperationBytes <- 2, ProjectBytes <- 4, ManifestBytes <- 8, LibraryWork <- 3,
       Limits <- {0, 1200, 3000, 100000}, Patience <- {0, 8, 1000}, DefaultLimit <- 100000,
       MAX_OPERATION_COUNT <- 2, MAX_PUBLICATIONS <- 2

-----------------------------------------------------------------------------
(* Chunks: every payload kind, evidence known and unknown, up to two       *)
(* antenna chains, alone and beside a row of another shape; and chunks of  *)
(* one shape repeated up to the rows of a capture.                         *)

Chains == {<<>>, <<<<TRUE, FALSE>>>>, <<<<TRUE, FALSE>>, <<FALSE, TRUE>>>>,
           <<<<TRUE, TRUE>>, <<TRUE, FALSE>>>>}
Payloads(k) ==
    {Scan(k, c, s) : c \in Chains, s \in {<<>>, <<1>>}} \cup {Frame(k, c) : c \in Chains} \cup {Health(k)}
Envelopes(id) ==
    UNION {{Envelope(id, top, k, 9, q, p) :
              top \in BOOLEAN, q \in {<<>>, <<"partial_capture">>}, p \in Payloads(k)} : k \in BOOLEAN}
Others == {Envelope("e2", TRUE, FALSE, 1, <<>>, Health(TRUE)),
           Envelope("e2", FALSE, TRUE, 1, <<>>, Scan(TRUE, <<<<FALSE, TRUE>>>>, <<1>>))}

MixedBatches ==
    {[sample |-> <<e>>, copies |-> 1] : e \in Envelopes("e1")}
      \cup {[sample |-> <<e, f>>, copies |-> 1] : e \in Envelopes("e1"), f \in Others}
LongBatches ==
    {[sample |-> <<Envelope("e1", FALSE, FALSE, 1, <<>>, Scan(FALSE, <<>>, <<1>>))>>, copies |-> n] :
       n \in {1, 398, 399, 4096}}
EnvelopeRank == [e1 |-> 1, e2 |-> 2]

-----------------------------------------------------------------------------
observationVars == <<published, job, answer, cancelled>>
snapshotVars == <<revision, artifacts, index, history, committed, loaded>>
historyVars == <<written, verdict>>
sessionVars == <<rows, stored, registered, spoiled>>

NoCodec == batch = 0 /\ chunk = 0 /\ decoded = 0
NoObservations == published = 0 /\ job = 0 /\ answer = 0 /\ cancelled = 0
NoSnapshots ==
    revision = 0 /\ artifacts = 0 /\ index = 0 /\ history = 0 /\ committed = 0 /\ loaded = 0
NoHistory == written = 0 /\ verdict = 0
NoSessions == rows = 0 /\ stored = 0 /\ registered = 0 /\ spoiled = 0

ReadsInit ==
    \/ /\ which = "observations" /\ O!Init
       /\ NoCodec /\ NoSnapshots /\ NoHistory /\ NoSessions /\ walk = 0
    \/ /\ which = "snapshots" /\ S!Init
       /\ NoCodec /\ NoObservations /\ NoHistory /\ NoSessions /\ db = 0
    \/ /\ which = "history" /\ H!Init
       /\ NoCodec /\ NoObservations /\ NoSnapshots /\ NoSessions /\ walk = 0
    \/ /\ which = "sessions" /\ C!Init
       /\ NoCodec /\ NoObservations /\ NoSnapshots /\ NoHistory /\ db = 0 /\ files = 0 /\ hurt = 0
    \/ /\ which = "chunk" /\ CodecInit
       /\ NoObservations /\ NoSnapshots /\ NoHistory /\ NoSessions
       /\ db = 0 /\ files = 0 /\ hurt = 0 /\ walk = 0

ReadsNext ==
    /\ which' = which
    /\ \/ /\ which = "observations" /\ O!Next
          /\ UNCHANGED <<codecVars, snapshotVars, historyVars, sessionVars, walk>>
       \/ /\ which = "snapshots" /\ S!Next
          /\ UNCHANGED <<codecVars, observationVars, historyVars, sessionVars, db>>
       \/ /\ which = "history" /\ H!Next
          /\ UNCHANGED <<codecVars, observationVars, snapshotVars, sessionVars, walk>>
       \/ /\ which = "sessions" /\ C!Next
          /\ UNCHANGED <<codecVars, observationVars, snapshotVars, historyVars, db, files, hurt>>
       \/ /\ which = "chunk" /\ CodecNext
          /\ UNCHANGED <<observationVars, snapshotVars, historyVars, sessionVars, db, files, hurt, walk>>

readerVars == <<observationVars, snapshotVars, historyVars, sessionVars, hurt, walk>>
ReadsVars == <<which, codecVars, readerVars, db, files>>

ReadsSpec == ReadsInit /\ [][ReadsNext]_ReadsVars

\* The chunk codec alone.
LongSpec == ReadsInit /\ which = "chunk" /\ [][ReadsNext]_ReadsVars

-----------------------------------------------------------------------------
\* Whatever was damaged, an inventory, export or selection of observation chunks answers
\* with the published rows of one revision, the pages of a snapshot walk partition the
\* history it was pinned to and a load returns the document that was committed, and a
\* listing of capture sessions skips, repeats and alters none that was there when it
\* began; or the answer is an error there is a reason for (the readers of
\* observation_chunks.rs, survey_snapshot.rs and capture_sessions.rs).
ReadsAreTrue ==
    /\ which = "observations" => O!ReadsAreTrue
    /\ which = "snapshots" => S!SnapshotReadsAreTrue
    /\ which = "sessions" => C!ListingsAreTrue

\* Every answer about the materialized history is the true one or an error there is a
\* reason for (materialized_project.rs readers).
VerdictIsTrue == which = "history" => H!VerdictIsTrue

\* An encoded chunk reads back as the envelopes it was written from (parquet_codec.rs).
EncodingRoundTrips == which = "chunk" => ChunksRoundTrip

\* A batch that was accepted for publication can be decoded (parquet_codec.rs decode).
PublishedChunksDecode == which = "chunk" => AcceptedBatchesDecode
=============================================================================
