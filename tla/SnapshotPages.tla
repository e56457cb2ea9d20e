---------------------------- MODULE SnapshotPages ----------------------------
(***************************************************************************)
(* Reading the survey snapshots of a bundle: one snapshot by identity, and *)
(* the append-only history page by page, behind a cursor that pins the     *)
(* traversal to the revision of its first page, while snapshots are        *)
(* committed and after one damaged cell or file.                           *)
(*                                                                         *)
(* A survey document is [session, input, size, body]: the session it       *)
(* belongs to, the schema it was written in ("v1" or "2"), its length and  *)
(* the rest.  The hash of an artifact is the document.                     *)
(***************************************************************************)
EXTENDS Integers, Sequences, FiniteSets, SequencesExt, TLC

CONSTANTS Documents, Sessions, AnySession,
          Names,          \* the identities callers give their snapshots, in commit order
          PageLimits,     \* sets of [items, bytes, work] a caller may pass
          MAX_SURVEY_SNAPSHOTS, MAX_PAGE_ITEMS, MAX_PAGE_BYTES,
          MAX_ARTIFACT_REGISTRY_ENTRIES, MAX_SNAPSHOT_LOOKUP_COMPARISONS, MaxRevision

VARIABLES revision, artifacts, index, history, files, committed, hurt, walk, loaded

vars == <<revision, artifacts, index, history, files, committed, hurt, walk, loaded>>

MAX_PAGE_WORK_UNITS ==
    MAX_ARTIFACT_REGISTRY_ENTRIES
      + MAX_SURVEY_SNAPSHOTS * (2 + MAX_SNAPSHOT_LOOKUP_COMPARISONS + 1 + 1)
      + 1 + MAX_PAGE_ITEMS

DefaultLimits == [items |-> MAX_PAGE_ITEMS, bytes |-> MAX_PAGE_BYTES, work |-> MAX_PAGE_WORK_UNITS]

NoWalk == [status |-> "none", read |-> <<>>]
NoCursor == [after |-> -1]
Refused(why) == [status |-> why]

Init ==
    /\ revision = 0 /\ artifacts = <<>> /\ index = <<>> /\ history = <<>>
    /\ files = <<>> /\ committed = <<>> /\ hurt = FALSE
    /\ walk = NoWalk /\ loaded = Refused("none")

-----------------------------------------------------------------------------
(* Commits                                                                 *)

SnapshotEntry(document) == [bytes |-> document.size, input |-> document.input]

Record(snapshot, document) ==
    [snapshot |-> snapshot, project |-> "p", session |-> document.session,
     artifact |-> document, input |-> document.input, time |-> revision + 1,
     revision |-> revision + 1]

\* A document may be stored under several identities; an identity keeps its
\* document, and writing it again changes nothing.
Save ==
    \E document \in Documents :
      LET snapshot == Names[Len(committed) + 1]
          row == Record(snapshot, document)
      IN /\ revision < MaxRevision
         /\ snapshot \notin DOMAIN index
         /\ Cardinality(DOMAIN index) < MAX_SURVEY_SNAPSHOTS
         /\ Cardinality(DOMAIN artifacts \cup {document}) <= MAX_ARTIFACT_REGISTRY_ENTRIES
         /\ document \in DOMAIN artifacts => artifacts[document] = SnapshotEntry(document)
         /\ revision' = revision + 1
         /\ artifacts' = (document :> SnapshotEntry(document)) @@ artifacts
         /\ index' = (snapshot :> row) @@ index
         /\ history' = Append(history, row)
         /\ files' = (document :> document) @@ files
         /\ committed' = Append(committed, row)
         /\ UNCHANGED <<hurt, walk, loaded>>

-----------------------------------------------------------------------------
(* Validation                                                              *)

ValidHistory(h) == h.project = "p" /\ h.revision # 0 /\ h.time \in 0..revision

MatchesIndex(h, i) ==
    /\ ValidHistory(h)
    /\ i.project = "p" /\ i.revision \in 1..revision /\ i.time \in 0..revision
    /\ h = i

EntryFits(entry, row) == entry.input = row.input

\* Every history row has its index row and the other way round, and every
\* artifact of theirs is registered.
InventoryStands ==
    /\ Len(history) = Cardinality(DOMAIN index)
    /\ \A k \in DOMAIN history :
         LET h == history[k]
         IN /\ h.snapshot \in DOMAIN index
            /\ \A l \in 1..(k - 1) : history[l].snapshot # h.snapshot
            /\ MatchesIndex(h, index[h.snapshot])
            /\ h.artifact \in DOMAIN artifacts
            /\ EntryFits(artifacts[h.artifact], h)

\* One unit per registered artifact, two row scans, and the lookup and the
\* pairing of every row.
InventoryWork ==
    Cardinality(DOMAIN artifacts) + Cardinality(DOMAIN index)
      + Len(history) * (1 + MAX_SNAPSHOT_LOOKUP_COMPARISONS + 1)

ReadSnapshotBytes(hash, bytes) ==
    hash \in DOMAIN files /\ files[hash] = hash /\ files[hash].size = bytes

\* The bytes are read and replayed, and the row must describe the result.
Replays(row) ==
    /\ row.artifact \in DOMAIN artifacts
    /\ EntryFits(artifacts[row.artifact], row)
    /\ ReadSnapshotBytes(row.artifact, artifacts[row.artifact].bytes)
    /\ row.session = files[row.artifact].session
    /\ row.input = files[row.artifact].input

-----------------------------------------------------------------------------
(* load_survey_snapshot_with_cancel.  One caller loads or walks, and a     *)
(* load does not interrupt a walk.                                         *)

OnePair(row) ==
    /\ Cardinality({k \in DOMAIN history : history[k].snapshot = row.snapshot}) = 1
    /\ \A k \in DOMAIN history : history[k].snapshot = row.snapshot => MatchesIndex(history[k], row)

Load ==
    \E snapshot \in ToSet(Names), expected \in Sessions \cup {AnySession}, cancelled \in BOOLEAN :
      /\ walk.status # "more" /\ walk' = NoWalk
      /\ loaded' =
           IF cancelled THEN Refused("cancelled")
           ELSE IF ~InventoryStands THEN Refused("corrupt")
           ELSE IF snapshot \notin DOMAIN index THEN Refused("unregistered")
           ELSE IF expected \notin {AnySession, index[snapshot].session} THEN Refused("session")
           ELSE IF ~OnePair(index[snapshot]) \/ ~Replays(index[snapshot]) THEN Refused("corrupt")
           ELSE [status |-> "ok", record |-> index[snapshot],
                 survey |-> files[index[snapshot].artifact]]
      /\ UNCHANGED <<revision, artifacts, index, history, files, committed, hurt>>

-----------------------------------------------------------------------------
(* list_survey_snapshot_history_page                                       *)

InOrder == SortSeq(history, LAMBDA a, b : a.revision < b.revision)

\* The rows of the whole history that belong after the cursor, below the
\* pinned revision and to the session, in commit order.
Candidates(cursor, session) ==
    SelectSeq(InOrder, LAMBDA h : /\ h.revision > cursor.after
                                  /\ h.revision <= cursor.high
                                  /\ session \in {AnySession, h.session})

BytesOf(rows) == FoldLeft(LAMBDA n, h : n + artifacts[h.artifact].bytes, 0, rows)

\* As many of them as the item and the byte limit let on one page.
PageOf(rows, limits) ==
    LET fits == {k \in 0..Len(rows) : k <= limits.items /\ BytesOf(SubSeq(rows, 1, k)) <= limits.bytes}
    IN SubSeq(rows, 1, Max(fits))

\* The scan stops at the first row that no longer fits.
PageWork(rows, page) ==
    InventoryWork + Len(page)
      + (IF Len(page) < Len(rows)
           THEN Cardinality({k \in DOMAIN history : history[k].revision <= rows[Len(page) + 1].revision})
           ELSE Len(history))

LimitsAllowed(limits) ==
    /\ limits.items \in 1..MAX_PAGE_ITEMS
    /\ limits.bytes \in 1..MAX_PAGE_BYTES
    /\ limits.work \in 1..MAX_PAGE_WORK_UNITS

CursorFits(cursor, session) ==
    cursor # NoCursor =>
      /\ cursor.session = session
      /\ cursor.high <= revision
      /\ cursor.after <= cursor.high

\* Why a page is refused.  When several reasons apply the code names the one
\* it meets first; here any of them may be named.
PageErrors(cursor, session, limits, cancelled) ==
    LET rows == Candidates(cursor, session)
        page == PageOf(rows, limits)
    IN (IF cancelled THEN {"cancelled"} ELSE {})
       \cup (IF ~LimitsAllowed(limits) \/ ~CursorFits(cursor, session) THEN {"invalid"} ELSE {})
       \cup (IF ~InventoryStands THEN {"corrupt"}
             ELSE (IF PageWork(rows, page) > limits.work THEN {"limit"} ELSE {})
               \cup (IF page = <<>> /\ rows # <<>> THEN {"too_large"} ELSE {})
               \cup (IF \E k \in DOMAIN page : ~Replays(page[k]) THEN {"corrupt"} ELSE {}))

HighWater(cursor) == IF cursor = NoCursor THEN revision ELSE cursor.high

\* One page from the cursor of the last one; a refused page leaves the
\* cursor with its caller, who may try again with other limits.
Page ==
    \E session \in Sessions \cup {AnySession}, limits \in PageLimits, cancelled \in BOOLEAN :
      LET fresh == walk.status # "more"
          cursor == IF fresh THEN NoCursor ELSE walk.cursor
          from == [after |-> cursor.after, high |-> HighWater(cursor)]
          rows == Candidates(from, session)
          page == PageOf(rows, limits)
          errors == PageErrors(IF fresh THEN from @@ [session |-> session] ELSE cursor,
                               session, limits, cancelled)
          more == Len(page) < Len(rows)
      IN /\ cancelled => limits = DefaultLimits
         /\ IF errors # {}
              THEN \E why \in errors :
                     walk' = IF fresh THEN [status |-> why, read |-> <<>>, limits |-> limits]
                             ELSE [walk EXCEPT !.last = why]
              ELSE walk' =
                     [status |-> IF more THEN "more" ELSE "done",
                      read |-> (IF fresh THEN <<>> ELSE walk.read) \o page,
                      session |-> session, high |-> IF fresh THEN revision ELSE walk.high,
                      last |-> "ok",
                      cursor |-> [session |-> session, high |-> from.high,
                                  after |-> IF more THEN Last(page).revision ELSE cursor.after]]
         /\ loaded' = Refused("none")
         /\ UNCHANGED <<revision, artifacts, index, history, files, committed, hurt>>

-----------------------------------------------------------------------------
(* One cell, row or file changes behind the program's back.                *)

DamagedRow(row) ==
    {[row EXCEPT !.session = s] : s \in Sessions \ {row.session}}
      \cup {[row EXCEPT !.input = "other"], [row EXCEPT !.project = "q"]}
      \cup {[row EXCEPT !.time = 0], [row EXCEPT !.revision = 0], [row EXCEPT !.revision = @ + 1]}
      \cup {[row EXCEPT !.artifact = d] : d \in Documents \ {row.artifact}}

Damage ==
    /\ ~hurt /\ hurt' = TRUE
    /\ \/ /\ \E s \in DOMAIN index :
               \/ \E row \in DamagedRow(index[s]) : index' = [index EXCEPT ![s] = row]
               \/ index' = [t \in DOMAIN index \ {s} |-> index[t]]
          /\ UNCHANGED <<history, artifacts, files>>
       \/ /\ \E k \in DOMAIN history :
               \/ \E row \in DamagedRow(history[k]) : history' = [history EXCEPT ![k] = row]
               \/ history' = RemoveAt(history, k)
          /\ UNCHANGED <<index, artifacts, files>>
       \/ /\ \E d \in DOMAIN artifacts :
               \/ artifacts' = [artifacts EXCEPT ![d].bytes = @ + 1]
               \/ artifacts' = [e \in DOMAIN artifacts \ {d} |-> artifacts[e]]
          /\ UNCHANGED <<index, history, files>>
       \/ /\ \E d \in DOMAIN files :
               \/ files' = [e \in DOMAIN files \ {d} |-> files[e]]
               \/ files' = [files EXCEPT ![d].body = "damaged"]
          /\ UNCHANGED <<index, history, artifacts>>
    /\ UNCHANGED <<revision, committed, walk, loaded>>

Next == Save \/ Load \/ Page \/ Damage

Spec == Init /\ [][Next]_vars

-----------------------------------------------------------------------------
Matching(session, high) ==
    SelectSeq(committed, LAMBDA h : h.revision <= high /\ session \in {AnySession, h.session})

\* Walking the history by its cursor visits every snapshot of the session
\* committed up to the first page's revision, once, in commit order, however
\* many are committed between two pages and whatever limits each page has; a
\* damaged row or file stops the walk and never changes what it returns, a
\* whole bundle is never called corrupt, and its pages are never refused for
\* work under the default limits.
PagesPartitionHistory ==
    /\ walk.status = "more" => IsPrefix(walk.read, Matching(walk.session, walk.high))
    /\ walk.status = "done" => walk.read = Matching(walk.session, walk.high)
    /\ ~hurt => /\ walk.status # "corrupt"
                /\ walk.status = "limit" => walk.limits # DefaultLimits
                /\ walk.status = "more" => walk.last # "corrupt"

\* A snapshot that loads is the one committed under that identity, in the
\* schema it was written in, and only a damaged bundle is called corrupt.
LoadsAsCommitted ==
    /\ loaded.status = "ok" =>
         /\ loaded.record \in ToSet(committed)
         /\ loaded.survey = loaded.record.artifact
    /\ loaded.status = "corrupt" => hurt

\* Both readers of the snapshots return what was committed, or refuse.
SnapshotReadsAreTrue == PagesPartitionHistory /\ LoadsAsCommitted
=============================================================================
