--------------------------- MODULE SessionCatalog ---------------------------
(***************************************************************************)
(* The capture-session rows of a bundle and their listing: a row repeats   *)
(* the fields of the canonical record it stores, a record is read only     *)
(* with its manifest and observation chunk, and pages follow an exclusive  *)
(* session-id cursor while sessions are still being registered.            *)
(*                                                                         *)
(* A record is [session, manifest, order, fields]: its id, the manifest it *)
(* stems from, the observation ids in source order, and the other fields.  *)
(***************************************************************************)
EXTENDS Integers, Sequences, FiniteSets, SequencesExt, TLC

CONSTANTS Records, PageSizes, MAX_CAPTURE_SESSIONS_PER_PAGE,
          LongCapture,     \* a capture with more rows than the decoder admits
          MaxDecodedRows   \* the rows MAX_DECODED_ARROW_BYTES has room for

VARIABLES rows, stored, registered, spoiled, walk

vars == <<rows, stored, registered, spoiled, walk>>

CAPTURE_SESSION_ROW_REVISION == 1

NoWalk == [status |-> "none"]

Damaged == {-1}

\* Every capture is published: its manifest, and a chunk when it has rows.
\* chunk is what the publication links, file what the chunk's file decodes to.
Init ==
    /\ rows = <<>> /\ registered = <<>> /\ spoiled = FALSE /\ walk = NoWalk
    /\ stored = [m \in {r.manifest : r \in Records} |->
                   LET order == (CHOOSE r \in Records : r.manifest = m).order
                   IN [manifest |-> order, chunk |-> ToSet(order), file |-> ToSet(order),
                       published |-> TRUE]]

StoredSessionRow(r) ==
    [session |-> r.session, fields |-> r.fields, manifest |-> r.manifest, hash |-> <<r>>,
     count |-> Len(r.order), published |-> 5, revision |-> CAPTURE_SESSION_ROW_REVISION,
     canonical |-> r]

-----------------------------------------------------------------------------
(* Reading one row                                                         *)

ValidateProjection(row) ==
    /\ row.hash = <<row.canonical>>
    /\ row.revision = CAPTURE_SESSION_ROW_REVISION
    /\ row.session = row.canonical.session /\ row.fields = row.canonical.fields
    /\ row.manifest = row.canonical.manifest /\ row.count = Len(row.canonical.order)
    /\ row.published >= 0

LoadManifest(m) == m \in DOMAIN stored /\ stored[m].manifest # <<-1>>

\* To read one chunk is to verify and decode every chunk of the bundle.
InventoryReads ==
    \A m \in DOMAIN stored :
      stored[m].file # Damaged /\ Cardinality(stored[m].file) <= MaxDecodedRows

\* The chunk holds the manifest's observations, each once and no other.
OrderedObservations(m) == stored[m].chunk = ToSet(stored[m].manifest)

LoadManifestObservations(record) ==
    /\ LoadManifest(record.manifest) /\ stored[record.manifest].published
    /\ IF record.order = <<>> THEN stored[record.manifest].chunk = {}
       ELSE InventoryReads /\ OrderedObservations(record.manifest)
    /\ stored[record.manifest].manifest = record.order

RowReads(row) == ValidateProjection(row) /\ LoadManifestObservations(row.canonical)

\* A session is new, its manifest is bound to no other, and the row reads back.
Register ==
    /\ ~spoiled
    /\ \E r \in Records :
         /\ r.session \notin DOMAIN rows
         /\ \A s \in DOMAIN rows : rows[s].manifest # r.manifest
         /\ LoadManifestObservations(r)
         /\ rows' = (r.session :> StoredSessionRow(r)) @@ rows
         /\ registered' = (r.session :> r) @@ registered
    /\ UNCHANGED <<stored, spoiled, walk>>

\* A capture beyond the decoder's allowance is spooled: its manifest, its row
\* and its chunk are published, and linking the chunk fails.
SpoolLong ==
    /\ ~spoiled /\ LongCapture.manifest \notin DOMAIN stored
    /\ stored' = (LongCapture.manifest :>
                     [manifest |-> LongCapture.order, chunk |-> {},
                      file |-> ToSet(LongCapture.order), published |-> TRUE]) @@ stored
    /\ UNCHANGED <<rows, registered, spoiled, walk>>

-----------------------------------------------------------------------------
(* Listing                                                                 *)

Page(limit, after) ==
    LET later == SetToSortSeq({s \in DOMAIN rows : s > after}, <)
    IN SubSeq(later, 1, IF Len(later) < limit THEN Len(later) ELSE limit)

\* A page that fails on a row, or is cancelled, returns none of its rows.
ListPage(limit, after, read, since) ==
    LET page == Page(limit, after)
    IN walk' = IF limit \notin 1..MAX_CAPTURE_SESSIONS_PER_PAGE THEN [status |-> "invalid"]
               ELSE IF \E i \in DOMAIN page : ~RowReads(rows[page[i]]) THEN [status |-> "corrupt"]
               ELSE [status |-> IF page = <<>> THEN "done" ELSE "more", limit |-> limit,
                     read |-> read \o [i \in DOMAIN page |-> rows[page[i]].canonical],
                     since |-> since]

Start ==
    /\ walk.status # "more"
    /\ \/ \E limit \in PageSizes : ListPage(limit, 0, <<>>, registered)
       \/ walk' = [status |-> "cancelled"]
    /\ UNCHANGED <<rows, stored, registered, spoiled>>

Continue ==
    /\ walk.status = "more"
    /\ \/ ListPage(walk.limit, Last(walk.read).session, walk.read, walk.since)
       \/ walk' = [status |-> "cancelled"]
    /\ UNCHANGED <<rows, stored, registered, spoiled>>

-----------------------------------------------------------------------------
(* Damage                                                                  *)

Damage ==
    /\ ~spoiled /\ spoiled' = TRUE
    /\ \/ \E s \in DOMAIN rows : \E c \in DOMAIN rows[s] \ {"canonical", "session", "hash"} :
            /\ rows' = [rows EXCEPT ![s][c] = 7]
            /\ UNCHANGED stored
       \/ \E s \in DOMAIN rows, r \in Records :
            /\ rows' \in {[rows EXCEPT ![s].canonical = r], [rows EXCEPT ![s].hash = <<r>>]}
            /\ UNCHANGED stored
       \/ \E m \in DOMAIN stored :
            /\ stored' \in {[stored EXCEPT ![m].manifest = <<-1>>], [stored EXCEPT ![m].published = FALSE],
                            [stored EXCEPT ![m].file = Damaged], [stored EXCEPT ![m].chunk = {}], [stored EXCEPT ![m].chunk = @ \cup {9}]}
            /\ UNCHANGED rows
    /\ UNCHANGED <<registered, walk>>

Next == Register \/ SpoolLong \/ Start \/ Continue \/ Damage

Spec == Init /\ [][Next]_vars

-----------------------------------------------------------------------------
\* A listing returns each session at most once and exactly as it was registered,
\* a finished one leaves out none of the sessions that were registered before its
\* first page, whatever is registered between two pages; and only a bundle that is
\* damaged, or holds a chunk beyond the decoder's allowance, is called corrupt
\* (list_capture_sessions_with_cancel, validate_projection).
ListingsAreTrue ==
    /\ walk.status = "corrupt" /\ ~spoiled => LongCapture.manifest \in DOMAIN stored
    /\ walk.status \in {"more", "done"} =>
         /\ \A i, j \in DOMAIN walk.read : i < j => walk.read[i].session < walk.read[j].session
         /\ \A i \in DOMAIN walk.read : walk.read[i] = registered[walk.read[i].session]
    /\ walk.status = "done" =>
         \A s \in DOMAIN walk.since : \E i \in DOMAIN walk.read : walk.read[i].session = s
=============================================================================
