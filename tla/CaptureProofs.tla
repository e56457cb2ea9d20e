--------------------------- MODULE CaptureProofs ---------------------------
(***************************************************************************)
(* Theorems about CapturePublication, for any number of processes, any     *)
(* captures and requests, and any number of failures and crashes between   *)
(* the transactions of a publication: every row stays readable, every      *)
(* receipt stays true, and the store reports corruption only to a call     *)
(* that disagrees with what it holds.                                      *)
(*                                                                         *)
(* The argument has two halves.  The store only grows (Grows): a commit    *)
(* adds artifacts, rows, chunks, snapshots and sessions, and changes of an *)
(* old row only links that were not set.  And what a call has learnt       *)
(* before one of its transactions (CallInv) is stable under growth, so it  *)
(* still holds when the transaction comes, whoever committed in between.   *)
(***************************************************************************)
EXTENDS CapturePublication, TLAPS

-----------------------------------------------------------------------------
(* The inductive invariant                                                 *)

SessionStages == {"SessionRead", "SessionWrite", "SessionReadback"}
SnapshotStages == {"Snapshot", "Preflight", "LinkSnapshot"}
RowStages == {"Raw", "Chunk", "LinkChunk", "Spooled"} \cup SnapshotStages
Stages == {"Idle", "Associate", "Manifest", "Row", "Other"} \cup SessionStages \cup RowStages

Statuses == {"Manifest", "Chunk", "Complete", "Terminal"}
ChunkIds == {Obs(c) : c \in DOMAIN Captures}
SnapshotIds == {r.snap : r \in Requests}
Row == [chunk : SUBSET ChunkIds, snapshot : SUBSET SnapshotIds, status : Statuses, revision : Nat]
Progress == [manifest : Nat, raw : Nat, chunk : SUBSET Nat, snapshot : SUBSET Nat]

\* The fields of the bundle and the numbers in them.
StoreTypeOK ==
    /\ db = [revision |-> db.revision, updated |-> db.updated, artifacts |-> db.artifacts,
             pubs |-> db.pubs, chunks |-> db.chunks, snapshots |-> db.snapshots,
             sessions |-> db.sessions]
    /\ db.revision \in Nat
    /\ db.pubs \in [DOMAIN db.pubs -> Row]
    /\ \A obs \in DOMAIN db.chunks : db.chunks[obs].revision \in Nat
    /\ \A s \in DOMAIN db.snapshots : db.snapshots[s].revision \in Nat

CallsTypeOK ==
    /\ stage \in [Handles -> Stages]
    /\ request \in [Handles -> Requests \cup {NoCall}]
    /\ progress \in [Handles -> Progress]
    /\ DOMAIN preflight = Handles /\ DOMAIN reply = Handles

\* The call a stage belongs to.
KindInv(h) ==
    /\ stage[h] # "Idle" => request[h] \in Requests /\ reply[h] # "Corrupt"
    /\ stage[h] \in {"Associate"} \cup SnapshotStages => request[h].kind = "Ingest"
    /\ stage[h] \in {"Manifest", "Row"} \cup RowStages => request[h].kind \in {"Ingest", "Spool"}
    /\ stage[h] \in SessionStages => request[h].kind = "Session"
    /\ stage[h] \notin RowStages => progress[h] = NoProgress

\* The receipts p of a call r and the row, records, chunk and snapshot they
\* name.
Holds(d, r, p) ==
    /\ ManifestBlob(r.cap) \in DOMAIN d.artifacts
    /\ r.cap \in DOMAIN d.pubs /\ d.pubs[r.cap].revision = p.manifest
    /\ \A n \in 1..p.raw : RawBlob(Captures[r.cap].raw[n]) \in DOMAIN d.artifacts
    /\ \A v \in p.chunk : Obs(r.cap) \in DOMAIN d.chunks /\ d.chunks[Obs(r.cap)].revision = v
    /\ \A v \in p.snapshot : r.snap \in DOMAIN d.snapshots /\ d.snapshots[r.snap].revision = v

Receipts(h) == Holds(db, request[h], progress[h])

\* What a call relies on at its next transaction.
CallInv(h) ==
    LET r == request[h]
    IN  /\ stage[h] \in {"Row"} \cup RowStages => ManifestBlob(r.cap) \in DOMAIN db.artifacts
        /\ stage[h] \in RowStages => Receipts(h)
        /\ stage[h] # "Idle" /\ r.kind = "Ingest" => r.base \subseteq DOMAIN db.snapshots
        /\ stage[h] \in {"Chunk", "LinkChunk"} => Obs(r.cap) # {}
        /\ stage[h] = "LinkChunk" => Obs(r.cap) \in DOMAIN db.chunks
        /\ stage[h] \in SnapshotStages => (Obs(r.cap) # {} => db.pubs[r.cap].chunk # {})
        /\ stage[h] \in {"Preflight", "LinkSnapshot"} =>
            r.snap \in DOMAIN db.snapshots /\ db.snapshots[r.snap].assoc = SurveyOf(db, r)
        /\ stage[h] = "LinkSnapshot" => preflight[h] = db.pubs[r.cap].chunk
        /\ stage[h] \in {"SessionWrite", "SessionReadback"} => EvidenceAgrees(db, r.cap)
        /\ stage[h] = "SessionReadback" =>
            r.session \in DOMAIN db.sessions /\ db.sessions[r.session] = r.cap

StoreInv == StoreTypeOK /\ RowsReadable

IInv == StoreInv /\ CallsTypeOK /\ \A h \in Handles : KindInv(h) /\ CallInv(h)

-----------------------------------------------------------------------------
(* The store only grows                                                    *)

Grows(d, e) ==
    /\ DOMAIN d.artifacts \subseteq DOMAIN e.artifacts
    /\ \A c \in DOMAIN d.pubs :
        /\ c \in DOMAIN e.pubs
        /\ e.pubs[c].revision = d.pubs[c].revision
        /\ \/ e.pubs[c].chunk = d.pubs[c].chunk
           \/ d.pubs[c].chunk = {} /\ e.pubs[c].chunk # {} /\ Obs(c) # {}
    /\ \A obs \in DOMAIN d.chunks : obs \in DOMAIN e.chunks /\ e.chunks[obs] = d.chunks[obs]
    /\ \A s \in DOMAIN d.snapshots : s \in DOMAIN e.snapshots /\ e.snapshots[s] = d.snapshots[s]
    /\ \A s \in DOMAIN d.sessions : s \in DOMAIN e.sessions /\ e.sessions[s] = d.sessions[s]

LEMMA GrowsItself == \A d : Grows(d, d)
BY DEF Grows

\* A row that was not touched stays readable when the store grows.
LEMMA RowKept ==
    ASSUME NEW d, NEW e, Grows(d, e), NEW c \in DOMAIN d.pubs, RowAgrees(d, c),
           e.pubs[c] = d.pubs[c]
    PROVE  RowAgrees(e, c)
BY DEF Grows, RowAgrees

\* The evidence of a session stays, because a row keeps its chunk.
LEMMA EvidenceKept ==
    ASSUME NEW d, NEW e, Grows(d, e), NEW c, EvidenceAgrees(d, c), RowAgrees(e, c)
    PROVE  EvidenceAgrees(e, c)
BY DEF Grows, EvidenceAgrees

LEMMA SurveyKept ==
    ASSUME NEW d, NEW e, Grows(d, e), NEW r, r.base \subseteq DOMAIN d.snapshots
    PROVE  SurveyOf(e, r) = SurveyOf(d, r)
<1>1. \A s \in r.base : e.snapshots[s].assoc = d.snapshots[s].assoc
  BY DEF Grows
<1>2. {e.snapshots[s].assoc : s \in r.base} = {d.snapshots[s].assoc : s \in r.base}
  BY <1>1
<1> QED BY <1>2, Zenon DEF SurveyOf, BaseOf

\* With the sessions untouched, readable rows are all there is to show.
LEMMA RowsKept ==
    ASSUME RowsReadable, Grows(db, db'), db'.sessions = db.sessions,
           \A c \in DOMAIN db'.pubs : RowAgrees(db', c)
    PROVE  RowsReadable'
<1>1. ASSUME NEW s \in DOMAIN db.sessions PROVE EvidenceAgrees(db', db.sessions[s])
  <2>1. EvidenceAgrees(db, db.sessions[s])
    BY DEF RowsReadable
  <2>2. db.sessions[s] \in DOMAIN db'.pubs
    BY <2>1 DEF EvidenceAgrees, Grows
  <2> QED BY <2>1, <2>2, EvidenceKept
<1> QED BY <1>1 DEF RowsReadable

-----------------------------------------------------------------------------
(* What a call relies on survives the commits of others                    *)

LEMMA ReceiptsKept ==
    ASSUME NEW d, NEW e, Grows(d, e), NEW r, NEW p, Holds(d, r, p)
    PROVE  Holds(e, r, p)
BY DEF Holds, Grows

LEMMA CallKept ==
    ASSUME IInv, NEW h \in Handles, Grows(db, db'), StoreInv',
           stage'[h] = stage[h], request'[h] = request[h], progress'[h] = progress[h],
           preflight'[h] = preflight[h], reply'[h] = reply[h]
    PROVE  KindInv(h)' /\ CallInv(h)'
<1> DEFINE r == request[h]
<1>1. KindInv(h) /\ CallInv(h)
  BY DEF IInv
<1>2. KindInv(h)'
  BY <1>1 DEF KindInv
<1>3. stage[h] \in RowStages => Receipts(h)'
  BY <1>1, ReceiptsKept DEF CallInv, Receipts
<1>4. stage[h] \in {"Row"} \cup RowStages => ManifestBlob(r.cap) \in DOMAIN db'.artifacts
  BY <1>1, Zenon DEF CallInv, Grows
<1>5. /\ stage[h] # "Idle" /\ r.kind = "Ingest" => r.base \subseteq DOMAIN db'.snapshots
      /\ stage[h] = "LinkChunk" => Obs(r.cap) \in DOMAIN db'.chunks
  BY <1>1, Zenon DEF CallInv, Grows
<1>6. /\ stage[h] \in SnapshotStages => (Obs(r.cap) # {} => db'.pubs[r.cap].chunk # {})
      /\ stage[h] = "LinkSnapshot" => preflight[h] = db'.pubs[r.cap].chunk
  <2>1. stage[h] \in SnapshotStages => r.cap \in DOMAIN db.pubs
    BY <1>1, Zenon DEF CallInv, Receipts, Holds, RowStages
  <2> QED BY <1>1, <2>1, Zenon DEF CallInv, Grows, SnapshotStages
<1>7. ASSUME stage[h] \in {"Preflight", "LinkSnapshot"}
      PROVE  r.snap \in DOMAIN db'.snapshots /\ db'.snapshots[r.snap].assoc = SurveyOf(db', r)
  <2>1. r.base \subseteq DOMAIN db.snapshots
    BY <1>1, <1>7, Zenon DEF CallInv, KindInv, SnapshotStages
  <2>2. SurveyOf(db', r) = SurveyOf(db, r)
    BY <2>1, SurveyKept
  <2> QED BY <1>1, <1>7, <2>2, Zenon DEF CallInv, Grows
<1>8. ASSUME stage[h] \in {"SessionWrite", "SessionReadback"} PROVE EvidenceAgrees(db', r.cap)
  <2>1. EvidenceAgrees(db, r.cap)
    BY <1>1, <1>8, Zenon DEF CallInv
  <2>2. RowAgrees(db', r.cap)
    BY <2>1, Zenon DEF EvidenceAgrees, Grows, StoreInv, RowsReadable
  <2> QED BY <2>1, <2>2, EvidenceKept
<1>9. stage[h] = "SessionReadback" => r.session \in DOMAIN db'.sessions /\ db'.sessions[r.session] = r.cap
  BY <1>1, Zenon DEF CallInv, Grows
<1>10. stage[h] \in {"Chunk", "LinkChunk"} => Obs(r.cap) # {}
  BY <1>1, Zenon DEF CallInv
<1>11. CallInv(h)'
  BY <1>3, <1>4, <1>5, <1>6, <1>7, <1>8, <1>9, <1>10 DEF CallInv
<1> QED BY <1>2, <1>11

\* One call moves; the store grows at most.
LEMMA MoveStep ==
    ASSUME IInv, NEW h \in Handles, Grows(db, db'), StoreInv', CallsTypeOK',
           KindInv(h)', CallInv(h)',
           \A g \in Handles \ {h} :
               /\ stage'[g] = stage[g] /\ request'[g] = request[g] /\ progress'[g] = progress[g]
               /\ preflight'[g] = preflight[g] /\ reply'[g] = reply[g]
    PROVE  IInv' /\ Grows(db, db')
<1>1. ASSUME NEW g \in Handles PROVE KindInv(g)' /\ CallInv(g)'
  BY CallKept
<1> QED BY <1>1 DEF IInv

LEMMA NoProgressType == NoProgress \in Progress
BY DEF NoProgress, Progress

LEMMA ReturnStep ==
    ASSUME IInv, NEW h \in Handles, NEW tag, Return(h, tag), Grows(db, db'), StoreInv'
    PROVE  IInv' /\ Grows(db, db')
<1>1. CallsTypeOK'
  BY NoProgressType DEF IInv, CallsTypeOK, Return, Stages
<1>2. stage'[h] = "Idle" /\ progress'[h] = NoProgress
  BY DEF IInv, CallsTypeOK, Return
<1>3. KindInv(h)' /\ CallInv(h)'
  BY <1>2 DEF KindInv, CallInv, SnapshotStages, SessionStages, RowStages
<1>4. \A g \in Handles \ {h} :
               /\ stage'[g] = stage[g] /\ request'[g] = request[g] /\ progress'[g] = progress[g]
               /\ preflight'[g] = preflight[g] /\ reply'[g] = reply[g]
  BY DEF IInv, CallsTypeOK, Return
<1> QED BY <1>1, <1>3, <1>4, MoveStep

\* A step to the next stage.
LEMMA GoStep ==
    ASSUME IInv, NEW h \in Handles, NEW to \in Stages, Go(h, to), Grows(db, db'), StoreInv',
           progress' \in [Handles -> Progress], DOMAIN preflight' = Handles,
           \A g \in Handles \ {h} : progress'[g] = progress[g] /\ preflight'[g] = preflight[g],
           KindInv(h)', CallInv(h)'
    PROVE  IInv' /\ Grows(db, db')
<1>1. CallsTypeOK'
  BY Zenon DEF IInv, CallsTypeOK, Go
<1>2. \A g \in Handles \ {h} :
               /\ stage'[g] = stage[g] /\ request'[g] = request[g] /\ progress'[g] = progress[g]
               /\ preflight'[g] = preflight[g] /\ reply'[g] = reply[g]
  BY DEF IInv, CallsTypeOK, Go
<1> QED BY <1>1, <1>2, MoveStep

LEMMA GoValues ==
    ASSUME CallsTypeOK, NEW h \in Handles, NEW to, Go(h, to)
    PROVE  stage'[h] = to /\ request'[h] = request[h] /\ reply'[h] = reply[h]
BY DEF CallsTypeOK, Go

LEMMA StoreUnchanged == ASSUME IInv, UNCHANGED db PROVE Grows(db, db') /\ StoreInv'
BY GrowsItself DEF IInv, StoreInv, StoreTypeOK, RowsReadable

LEMMA RefuseStep ==
    ASSUME IInv, NEW h \in Handles, NEW tag, Return(h, tag), UNCHANGED db
    PROVE  IInv' /\ Grows(db, db')
BY StoreUnchanged, ReturnStep

-----------------------------------------------------------------------------
(* The transactions                                                        *)

\* An artifact is added; nothing else of the bundle but its counters moves.
LEMMA PutKeeps ==
    ASSUME StoreInv, NEW blob, NEW prov, NEW utc, db' = AfterPut(db, blob, prov, utc)
    PROVE  /\ Grows(db, db') /\ StoreInv' /\ blob \in DOMAIN db'.artifacts
           /\ db'.pubs = db.pubs /\ db'.chunks = db.chunks /\ db'.snapshots = db.snapshots
           /\ db'.sessions = db.sessions
<1>1. CASE blob \in DOMAIN db.artifacts
  BY <1>1, GrowsItself DEF AfterPut, StoreInv, StoreTypeOK, RowsReadable
<1>2. CASE blob \notin DOMAIN db.artifacts
  <2> DEFINE arts == Set(db.artifacts, blob, prov)
  <2>1. db' = [db EXCEPT !.artifacts = arts, !.revision = @ + 1, !.updated = utc]
    BY <1>2 DEF AfterPut
  <2>2. DOMAIN arts = DOMAIN db.artifacts \cup {blob}
    BY DEF Set
  <2> HIDE DEF arts
  <2>3. /\ db'.artifacts = arts /\ db'.revision = db.revision + 1 /\ db'.updated = utc
        /\ db'.pubs = db.pubs /\ db'.chunks = db.chunks /\ db'.snapshots = db.snapshots
        /\ db'.sessions = db.sessions
        /\ db' = [revision |-> db'.revision, updated |-> db'.updated, artifacts |-> db'.artifacts,
                  pubs |-> db'.pubs, chunks |-> db'.chunks, snapshots |-> db'.snapshots,
                  sessions |-> db'.sessions]
    BY <2>1, Zenon DEF StoreInv, StoreTypeOK
  <2>4. StoreTypeOK'
    BY <2>3 DEF StoreInv, StoreTypeOK
  <2>5. Grows(db, db')
    BY <2>2, <2>3 DEF Grows
  <2>6. \A c \in DOMAIN db'.pubs : RowAgrees(db', c)
    BY <2>3, <2>5, RowKept DEF StoreInv, RowsReadable
  <2> QED BY <2>2, <2>3, <2>4, <2>5, <2>6, RowsKept DEF StoreInv
<1> QED BY <1>1, <1>2

\* One row is written: a new one, or an old one with its revision and with
\* its chunk as it was, or linked for the first time.
LEMMA RowKeeps ==
    ASSUME StoreInv, NEW c, NEW row \in Row, db'.pubs = Set(db.pubs, c, row),
           db' = [db EXCEPT !.pubs = db'.pubs],
           c \in DOMAIN db.pubs =>
               /\ row.revision = db.pubs[c].revision
               /\ \/ row.chunk = db.pubs[c].chunk
                  \/ db.pubs[c].chunk = {} /\ row.chunk # {} /\ Obs(c) # {},
           RowAgrees(db', c)
    PROVE  /\ Grows(db, db') /\ StoreInv' /\ c \in DOMAIN db'.pubs /\ db'.pubs[c] = row
           /\ db'.artifacts = db.artifacts /\ db'.chunks = db.chunks /\ db'.snapshots = db.snapshots
           /\ db'.sessions = db.sessions
<1>1. /\ DOMAIN db'.pubs = DOMAIN db.pubs \cup {c} /\ db'.pubs[c] = row
      /\ \A b \in DOMAIN db.pubs : b # c => db'.pubs[b] = db.pubs[b]
      /\ db'.pubs \in [DOMAIN db'.pubs -> Row]
  BY DEF Set, StoreInv, StoreTypeOK
<1>2. /\ db'.artifacts = db.artifacts /\ db'.revision = db.revision
      /\ db'.chunks = db.chunks /\ db'.snapshots = db.snapshots /\ db'.sessions = db.sessions
      /\ db' = [revision |-> db'.revision, updated |-> db'.updated, artifacts |-> db'.artifacts,
                pubs |-> db'.pubs, chunks |-> db'.chunks, snapshots |-> db'.snapshots,
                sessions |-> db'.sessions]
  BY DEF StoreInv, StoreTypeOK
<1>3. StoreTypeOK'
  BY <1>1, <1>2 DEF StoreInv, StoreTypeOK
<1>4. Grows(db, db')
  BY <1>1, <1>2 DEF Grows
<1>5. \A b \in DOMAIN db'.pubs : RowAgrees(db', b)
  BY <1>1, <1>4, RowKept DEF StoreInv, RowsReadable
<1> QED BY <1>1, <1>2, <1>3, <1>4, <1>5, RowsKept DEF StoreInv

\* A chunk is added.
LEMMA ChunkKeeps ==
    ASSUME StoreInv, NEW obs, obs \notin DOMAIN db.chunks, NEW chunk, chunk.revision \in Nat, NEW utc,
           db' = [db EXCEPT !.chunks = Set(@, obs, chunk), !.revision = @ + 1, !.updated = utc]
    PROVE  /\ Grows(db, db') /\ StoreInv' /\ obs \in DOMAIN db'.chunks /\ db'.chunks[obs] = chunk
<1> DEFINE chunks == Set(db.chunks, obs, chunk)
<1>1. /\ DOMAIN chunks = DOMAIN db.chunks \cup {obs} /\ chunks[obs] = chunk
      /\ \A o \in DOMAIN db.chunks : chunks[o] = db.chunks[o]
  BY DEF Set
<1>2. db' = [db EXCEPT !.chunks = chunks, !.revision = @ + 1, !.updated = utc]
  OBVIOUS
<1> HIDE DEF chunks
<1>3. /\ db'.artifacts = db.artifacts /\ db'.revision = db.revision + 1 /\ db'.chunks = chunks
      /\ db'.pubs = db.pubs /\ db'.snapshots = db.snapshots /\ db'.sessions = db.sessions
      /\ db' = [revision |-> db'.revision, updated |-> db'.updated, artifacts |-> db'.artifacts,
                pubs |-> db'.pubs, chunks |-> db'.chunks, snapshots |-> db'.snapshots,
                sessions |-> db'.sessions]
  BY <1>2, Zenon DEF StoreInv, StoreTypeOK
<1>4. StoreTypeOK'
  BY <1>1, <1>3 DEF StoreInv, StoreTypeOK
<1>5. Grows(db, db')
  BY <1>1, <1>3 DEF Grows
<1>6. \A c \in DOMAIN db'.pubs : RowAgrees(db', c)
  BY <1>3, <1>5, RowKept DEF StoreInv, RowsReadable
<1> QED BY <1>1, <1>3, <1>4, <1>5, <1>6, RowsKept DEF StoreInv

\* A snapshot is added.
LEMMA SnapshotKeeps ==
    ASSUME StoreInv, NEW s, s \notin DOMAIN db.snapshots, NEW snap, snap.revision \in Nat, NEW utc,
           db' = [db EXCEPT !.snapshots = Set(@, s, snap), !.revision = @ + 1, !.updated = utc]
    PROVE  /\ Grows(db, db') /\ StoreInv' /\ s \in DOMAIN db'.snapshots /\ db'.snapshots[s] = snap
           /\ db'.pubs = db.pubs
<1> DEFINE snaps == Set(db.snapshots, s, snap)
<1>1. /\ DOMAIN snaps = DOMAIN db.snapshots \cup {s} /\ snaps[s] = snap
      /\ \A t \in DOMAIN db.snapshots : snaps[t] = db.snapshots[t]
  BY DEF Set
<1>2. db' = [db EXCEPT !.snapshots = snaps, !.revision = @ + 1, !.updated = utc]
  OBVIOUS
<1> HIDE DEF snaps
<1>3. /\ db'.artifacts = db.artifacts /\ db'.revision = db.revision + 1 /\ db'.snapshots = snaps
      /\ db'.pubs = db.pubs /\ db'.chunks = db.chunks /\ db'.sessions = db.sessions
      /\ db' = [revision |-> db'.revision, updated |-> db'.updated, artifacts |-> db'.artifacts,
                pubs |-> db'.pubs, chunks |-> db'.chunks, snapshots |-> db'.snapshots,
                sessions |-> db'.sessions]
  BY <1>2, Zenon DEF StoreInv, StoreTypeOK
<1>4. StoreTypeOK'
  BY <1>1, <1>3 DEF StoreInv, StoreTypeOK
<1>5. Grows(db, db')
  BY <1>1, <1>3 DEF Grows
<1>6. \A c \in DOMAIN db'.pubs : RowAgrees(db', c)
  BY <1>3, <1>5, RowKept DEF StoreInv, RowsReadable
<1> QED BY <1>1, <1>3, <1>4, <1>5, <1>6, RowsKept DEF StoreInv

\* A session is registered for a capture that has evidence and no other one.
LEMMA SessionKeeps ==
    ASSUME StoreInv, NEW sid, NEW c, EvidenceAgrees(db, c), FreeForSession(db, sid, c),
           db' = [db EXCEPT !.sessions = Set(@, sid, c)]
    PROVE  /\ Grows(db, db') /\ StoreInv' /\ sid \in DOMAIN db'.sessions /\ db'.sessions[sid] = c
           /\ EvidenceAgrees(db', c)
<1> DEFINE sessions == Set(db.sessions, sid, c)
<1>1. /\ DOMAIN sessions = DOMAIN db.sessions \cup {sid} /\ sessions[sid] = c
      /\ \A t \in DOMAIN db.sessions : sessions[t] = db.sessions[t]
  BY DEF Set, FreeForSession
<1>2. db' = [db EXCEPT !.sessions = sessions]
  OBVIOUS
<1> HIDE DEF sessions
<1>3. /\ db'.artifacts = db.artifacts /\ db'.revision = db.revision /\ db'.snapshots = db.snapshots
      /\ db'.pubs = db.pubs /\ db'.chunks = db.chunks /\ db'.sessions = sessions
      /\ db' = [revision |-> db'.revision, updated |-> db'.updated, artifacts |-> db'.artifacts,
                pubs |-> db'.pubs, chunks |-> db'.chunks, snapshots |-> db'.snapshots,
                sessions |-> db'.sessions]
  BY <1>2 DEF StoreInv, StoreTypeOK
<1>4. StoreTypeOK'
  BY <1>1, <1>3 DEF StoreInv, StoreTypeOK
<1>5. Grows(db, db')
  BY <1>1, <1>3 DEF Grows
<1>6. \A b \in DOMAIN db'.pubs : RowAgrees(db', b)
  BY <1>3, <1>5, RowKept, Zenon DEF StoreInv, RowsReadable
<1>7. \A b : EvidenceAgrees(db, b) => EvidenceAgrees(db', b)
  BY <1>3, <1>5, <1>6, EvidenceKept DEF EvidenceAgrees
<1>8. RowsReadable'
  <2>1. ASSUME NEW s \in DOMAIN sessions PROVE EvidenceAgrees(db', sessions[s])
    BY <1>1, <1>7 DEF StoreInv, RowsReadable
  <2>2. ASSUME NEW s \in DOMAIN sessions, NEW t \in DOMAIN sessions, sessions[s] = sessions[t]
        PROVE  s = t
    BY <1>1, <2>2 DEF StoreInv, RowsReadable, FreeForSession
  <2> QED BY <1>3, <1>6, <2>1, <2>2 DEF RowsReadable
<1> QED BY <1>1, <1>3, <1>4, <1>5, <1>7, <1>8 DEF StoreInv

-----------------------------------------------------------------------------
(* One lemma per step of a call                                            *)

LEMMA CaptureOf ==
    ASSUME IInv, NEW h \in Handles, stage[h] # "Idle"
    PROVE  /\ request[h] \in Requests /\ reply[h] # "Corrupt"
           /\ KindInv(h) /\ CallInv(h) /\ CallsTypeOK /\ StoreInv
           /\ request[h].kind \in {"Ingest", "Spool", "Session"} => request[h].cap \in DOMAIN Captures
BY RequestsAreCalls DEF IInv, KindInv, IsRequest

LEMMA NoCallProgress ==
    ASSUME IInv, NEW h \in Handles, UNCHANGED <<progress, preflight>>
    PROVE  /\ progress' \in [Handles -> Progress] /\ DOMAIN preflight' = Handles
           /\ \A g \in Handles \ {h} : progress'[g] = progress[g] /\ preflight'[g] = preflight[g]
           /\ progress'[h] = progress[h] /\ preflight'[h] = preflight[h]
BY DEF IInv, CallsTypeOK

LEMMA CallStep ==
    ASSUME IInv, NEW h \in Handles, NEW r \in Requests, Call(h, r)
    PROVE  IInv' /\ Grows(db, db')
<1>1. /\ stage[h] = "Idle"
      /\ r.kind = "Ingest" => r.base \subseteq DOMAIN db.snapshots
      /\ request' = [request EXCEPT ![h] = r] /\ reply' = [reply EXCEPT ![h] = "None"]
      /\ UNCHANGED <<db, progress, preflight>>
  BY DEF Call, Idle
<1> DEFINE to == IF r.kind = "Ingest" THEN "Associate" ELSE FirstStage(r.kind)
<1>2. stage' = [stage EXCEPT ![h] = to]
  BY DEF Call
<1>3. \/ r.kind = "Ingest" /\ to = "Associate"
      \/ r.kind = "Spool" /\ to = "Manifest"
      \/ r.kind = "Session" /\ to = "SessionRead"
      \/ r.kind = "Other" /\ to = "Other"
  BY RequestsAreCalls DEF IsRequest, FirstStage
<1> HIDE DEF to
<1>4. progress[h] = NoProgress
  BY <1>1 DEF IInv, KindInv, RowStages, SnapshotStages
<1>5. CallsTypeOK'
  BY <1>1, <1>2, <1>3 DEF IInv, CallsTypeOK, Stages, SessionStages
<1>6. stage'[h] = to /\ request'[h] = r /\ reply'[h] = "None" /\ progress'[h] = NoProgress
  BY <1>1, <1>2, <1>4 DEF IInv, CallsTypeOK
<1>7. KindInv(h)'
  BY <1>3, <1>6 DEF KindInv, RowStages, SnapshotStages, SessionStages
<1>8. CallInv(h)'
  BY <1>1, <1>3, <1>6, Zenon DEF CallInv, RowStages, SnapshotStages
<1>9. \A g \in Handles \ {h} :
               /\ stage'[g] = stage[g] /\ request'[g] = request[g] /\ progress'[g] = progress[g]
               /\ preflight'[g] = preflight[g] /\ reply'[g] = reply[g]
  BY <1>1, <1>2 DEF IInv, CallsTypeOK
<1> QED BY <1>1, <1>5, <1>7, <1>8, <1>9, StoreUnchanged, MoveStep, Zenon

LEMMA AssociateStep == ASSUME IInv, NEW h \in Handles, Associate(h) PROVE IInv' /\ Grows(db, db')
<1>1. CASE Refuse(h)
  BY <1>1, RefuseStep DEF Refuse
<1>2. CASE Go(h, FirstStage("Ingest")) /\ UNCHANGED <<db, progress, preflight, faults>>
  <2>1. stage[h] = "Associate" /\ FirstStage("Ingest") = "Manifest"
    BY DEF Associate, FirstStage
  <2>2. stage'[h] = "Manifest" /\ request'[h] = request[h] /\ reply'[h] = reply[h]
    BY <1>2, <2>1, CaptureOf, GoValues, Zenon
  <2>3. KindInv(h)'
    BY <1>2, <2>1, <2>2, CaptureOf, Zenon DEF KindInv, RowStages, SnapshotStages, SessionStages
  <2>4. CallInv(h)'
    BY <1>2, <2>1, <2>2, CaptureOf, Zenon DEF CallInv, RowStages, SnapshotStages
  <2> QED BY <1>2, <2>1, <2>3, <2>4, StoreUnchanged, NoCallProgress, GoStep DEF Stages
<1> QED BY <1>1, <1>2, Zenon DEF Associate

LEMMA PutManifestStep == ASSUME IInv, NEW h \in Handles, PutManifest(h) PROVE IInv' /\ Grows(db, db')
<1> DEFINE r == request[h]
<1>1. CASE Refuse(h)
  BY <1>1, RefuseStep DEF Refuse
<1>2. CASE /\ db' = AfterPut(db, ManifestBlob(r.cap), r.prov, r.utc)
           /\ Go(h, "Row") /\ UNCHANGED <<progress, preflight, faults>>
  <2>1. stage[h] = "Manifest"
    BY Zenon DEF PutManifest
  <2>2. stage'[h] = "Row" /\ request'[h] = request[h] /\ reply'[h] = reply[h]
    BY <1>2, <2>1, CaptureOf, GoValues
  <2>3. Grows(db, db') /\ StoreInv' /\ ManifestBlob(r.cap) \in DOMAIN db'.artifacts
    BY <1>2, <2>1, CaptureOf, PutKeeps, Zenon
  <2>4. KindInv(h)'
    BY <1>2, <2>1, <2>2, CaptureOf, Zenon DEF KindInv, RowStages, SnapshotStages, SessionStages
  <2>5. r.kind = "Ingest" => r.base \subseteq DOMAIN db'.snapshots
    BY <2>1, <2>3, CaptureOf, Zenon DEF CallInv, Grows
  <2>6. CallInv(h)'
    BY <1>2, <2>2, <2>3, <2>5, Zenon DEF CallInv, RowStages, SnapshotStages
  <2> QED BY <1>2, <2>3, <2>4, <2>6, NoCallProgress, GoStep, Zenon DEF Stages
<1> QED BY <1>1, <1>2, Zenon DEF PutManifest

\* Where a call goes when it has put its first n retained records.
LEMMA AfterRawStage ==
    ASSUME NEW r, NEW n
    PROVE  /\ AfterRaw(r, n) \in {"Raw", "Chunk", "Snapshot", "Spooled"}
           /\ AfterRaw(r, n) = "Chunk" => Obs(r.cap) # {}
           /\ AfterRaw(r, n) = "Snapshot" => r.kind = "Ingest" /\ Obs(r.cap) = {}
BY DEF AfterRaw

\* A call that has its row, its receipts and a stage after the records.
LEMMA RecordsCall ==
    ASSUME IInv, NEW h \in Handles, stage[h] \in {"Row", "Raw"}, NEW n, Go(h, AfterRaw(request[h], n)),
           Grows(db, db'), StoreInv', Receipts(h)',
           NEW p \in Progress, progress' = [progress EXCEPT ![h] = p], UNCHANGED preflight
    PROVE  IInv' /\ Grows(db, db')
<1> DEFINE to == AfterRaw(request[h], n)
<1>1. stage'[h] = to /\ request'[h] = request[h] /\ reply'[h] = reply[h]
  BY CaptureOf, GoValues, Zenon
<1>2. /\ to \in {"Raw", "Chunk", "Snapshot", "Spooled"}
      /\ to = "Chunk" => Obs(request[h].cap) # {}
      /\ to = "Snapshot" => request[h].kind = "Ingest" /\ Obs(request[h].cap) = {}
  BY AfterRawStage, Zenon
<1> HIDE DEF to
<1>3. KindInv(h)'
  <2>1. KindInv(h) /\ stage[h] # "Idle"
    BY CaptureOf
  <2> QED BY <1>1, <1>2, <2>1, Zenon DEF KindInv, RowStages, SnapshotStages, SessionStages
<1>4. request[h].kind = "Ingest" => request[h].base \subseteq DOMAIN db'.snapshots
  BY CaptureOf, Zenon DEF CallInv, Grows
<1>5. CallInv(h)'
  BY <1>1, <1>2, <1>4, Zenon DEF CallInv, Receipts, Holds, RowStages, SnapshotStages
<1>6. /\ progress' \in [Handles -> Progress] /\ DOMAIN preflight' = Handles
      /\ \A g \in Handles \ {h} : progress'[g] = progress[g] /\ preflight'[g] = preflight[g]
  BY Zenon DEF IInv, CallsTypeOK
<1>7. to \in Stages
  BY <1>2 DEF Stages, RowStages, SnapshotStages
<1> QED BY <1>3, <1>5, <1>6, <1>7, GoStep, Zenon DEF to

LEMMA NewRowReads ==
    ASSUME StoreInv, NEW c
    PROVE  /\ NewRow(db, c) \in Row
           /\ \A d : (d.pubs[c] = NewRow(db, c) /\ ManifestBlob(c) \in DOMAIN d.artifacts) => RowAgrees(d, c)
<1>1. NewRow(db, c) \in Row
  BY DEF NewRow, Row, Statuses, StoreInv, StoreTypeOK
<1>2. /\ NewRow(db, c).chunk = {} /\ NewRow(db, c).snapshot = {}
      /\ NewRow(db, c).status = IF Terminal(c) THEN "Terminal" ELSE "Manifest"
  BY DEF NewRow
<1> QED BY <1>1, <1>2, Zenon DEF RowAgrees, ShapeHolds

\* A row found is left alone, and one that is not found is new.
LEMMA InsertRowStep == ASSUME IInv, NEW h \in Handles, InsertRow(h) PROVE IInv' /\ Grows(db, db')
<1> DEFINE r == request[h]
           row == IF r.cap \in DOMAIN db.pubs THEN db.pubs[r.cap] ELSE NewRow(db, r.cap)
           p == [progress[h] EXCEPT !.manifest = row.revision]
<1>1. CASE Contradict(h)
  BY <1>1, RefuseStep DEF Contradict
<1>2. CASE /\ db' = [db EXCEPT !.pubs = Set(@, r.cap, row)]
           /\ progress' = [progress EXCEPT ![h].manifest = row.revision]
           /\ Go(h, AfterRaw(r, 0)) /\ UNCHANGED <<preflight, faults>>
  <2>1. stage[h] = "Row"
    BY Zenon DEF InsertRow
  <2>2. ManifestBlob(r.cap) \in DOMAIN db.artifacts /\ progress[h] = NoProgress /\ StoreInv
    BY <2>1, CaptureOf, Zenon DEF CallInv, KindInv, RowStages, SnapshotStages
  <2>3. row \in Row
    BY <2>2, NewRowReads, Zenon DEF StoreInv, StoreTypeOK
  <2>4. /\ r.cap \in DOMAIN db.pubs => row = db.pubs[r.cap]
        /\ r.cap \notin DOMAIN db.pubs => row = NewRow(db, r.cap)
    BY Zenon
  <2>5. p \in Progress /\ p.manifest = row.revision /\ p.raw = 0 /\ p.chunk = {} /\ p.snapshot = {}
    <3>1. NoProgress.raw = 0 /\ NoProgress.chunk = {} /\ NoProgress.snapshot = {}
      BY DEF NoProgress
    <3> QED BY <2>2, <2>3, <3>1, NoProgressType, Zenon DEF Progress, Row
  <2>6. progress' = [progress EXCEPT ![h] = p]
    BY <1>2 DEF IInv, CallsTypeOK
  <2> HIDE DEF row, p
  <2>7. /\ db'.pubs = Set(db.pubs, r.cap, row) /\ db'.pubs[r.cap] = row
        /\ db' = [db EXCEPT !.pubs = db'.pubs]
        /\ db'.artifacts = db.artifacts /\ db'.chunks = db.chunks /\ db'.snapshots = db.snapshots
    BY <1>2, <2>2 DEF Set, StoreInv, StoreTypeOK
  <2>8. RowAgrees(db', r.cap)
    <3>1. CASE r.cap \in DOMAIN db.pubs
      BY <2>4, <2>2, <2>7, <3>1 DEF RowAgrees, StoreInv, RowsReadable
    <3>2. CASE r.cap \notin DOMAIN db.pubs
      BY <2>2, <2>4, <2>7, <3>2, NewRowReads
    <3> QED BY <3>1, <3>2
  <2>9. Grows(db, db') /\ StoreInv' /\ r.cap \in DOMAIN db'.pubs
    BY <2>2, <2>3, <2>4, <2>7, <2>8, RowKeeps
  <2>10. Receipts(h)'
    <3>1. progress'[h] = p /\ request'[h] = request[h]
      BY <1>2, <2>1, <2>6, CaptureOf, GoValues DEF CallsTypeOK
    <3> QED BY <2>2, <2>5, <2>7, <2>9, <3>1 DEF Receipts, Holds
  <2> QED BY <1>2, <2>1, <2>5, <2>6, <2>9, <2>10, RecordsCall, Zenon
<1> QED BY <1>1, <1>2, Zenon DEF InsertRow

LEMMA PutRawStep == ASSUME IInv, NEW h \in Handles, PutRaw(h) PROVE IInv' /\ Grows(db, db')
<1> DEFINE r == request[h]
           n == progress[h].raw + 1
           blob == RawBlob(Captures[r.cap].raw[n])
           p == [progress[h] EXCEPT !.raw = n]
<1>1. CASE Refuse(h)
  BY <1>1, RefuseStep DEF Refuse
<1>2. CASE /\ db' = AfterPut(db, blob, r.prov, r.utc)
           /\ progress' = [progress EXCEPT ![h].raw = n]
           /\ Go(h, AfterRaw(r, n)) /\ UNCHANGED <<preflight, faults>>
  <2>1. stage[h] = "Raw"
    BY Zenon DEF PutRaw
  <2>2. Receipts(h) /\ StoreInv /\ progress[h] \in Progress
    BY <2>1, CaptureOf, Zenon DEF CallInv, RowStages, CallsTypeOK
  <2>3. Grows(db, db') /\ StoreInv' /\ blob \in DOMAIN db'.artifacts
    BY <1>2, <2>2, PutKeeps, Zenon
  <2>4. /\ p \in Progress /\ p.raw = progress[h].raw + 1 /\ progress[h].raw \in Nat
        /\ p.manifest = progress[h].manifest
        /\ p.chunk = progress[h].chunk /\ p.snapshot = progress[h].snapshot
    BY <2>2 DEF Progress
  <2>5. progress' = [progress EXCEPT ![h] = p]
    BY <1>2 DEF IInv, CallsTypeOK
  <2> HIDE DEF p
  <2>6. progress'[h] = p /\ request'[h] = request[h]
    BY <1>2, <2>1, <2>5, CaptureOf, GoValues, Zenon DEF CallsTypeOK
  <2>7. ASSUME NEW k \in 1..p.raw PROVE RawBlob(Captures[r.cap].raw[k]) \in DOMAIN db'.artifacts
    <3>1. CASE k = n
      BY <2>3, <3>1, Zenon
    <3>2. CASE k \in 1..progress[h].raw
      BY <2>2, <2>3, <3>2, Zenon DEF Receipts, Holds, Grows
    <3> QED BY <2>4, <3>1, <3>2
  <2>8. Receipts(h)'
    <3>1. Holds(db', r, progress[h])
      BY <2>2, <2>3, ReceiptsKept, Zenon DEF Receipts
    <3> QED BY <2>4, <2>6, <2>7, <3>1, Zenon DEF Receipts, Holds
  <2> QED BY <1>2, <2>1, <2>3, <2>4, <2>5, <2>8, RecordsCall, Zenon
<1> QED BY <1>1, <1>2, Zenon DEF PutRaw

\* The chunk is the one found, or new with the next revision.
LEMMA PublishChunkStep == ASSUME IInv, NEW h \in Handles, PublishChunk(h) PROVE IInv' /\ Grows(db, db')
<1> DEFINE r == request[h]
           obs == Obs(r.cap)
           chunk == IF obs \in DOMAIN db.chunks THEN db.chunks[obs]
                    ELSE [prov |-> r.prov, revision |-> db.revision + 1]
           p == [progress[h] EXCEPT !.chunk = {chunk.revision}]
<1>1. CASE Contradict(h) \/ Refuse(h)
  BY <1>1, RefuseStep DEF Refuse, Contradict
<1>2. CASE /\ db' = IF obs \in DOMAIN db.chunks THEN db
                    ELSE [db EXCEPT !.chunks = Set(@, obs, chunk),
                                    !.revision = @ + 1, !.updated = r.utc]
           /\ progress' = [progress EXCEPT ![h].chunk = {chunk.revision}]
           /\ Go(h, "LinkChunk") /\ UNCHANGED <<preflight, faults>>
  <2>1. stage[h] = "Chunk"
    BY Zenon DEF PublishChunk
  <2>2. /\ Receipts(h) /\ StoreInv /\ progress[h] \in Progress /\ KindInv(h) /\ CallInv(h)
        /\ CallsTypeOK
    BY <2>1, CaptureOf, Zenon DEF CallInv, RowStages, CallsTypeOK
  <2>3. chunk.revision \in Nat
    BY <2>2 DEF StoreInv, StoreTypeOK
  <2>4. /\ Grows(db, db') /\ StoreInv' /\ obs \in DOMAIN db'.chunks /\ db'.chunks[obs] = chunk
    <3>1. CASE obs \in DOMAIN db.chunks
      BY <1>2, <2>2, <3>1, StoreUnchanged
    <3>2. CASE obs \notin DOMAIN db.chunks
      <4> HIDE DEF chunk, obs
      <4>1. db' = [db EXCEPT !.chunks = Set(@, obs, chunk), !.revision = @ + 1, !.updated = r.utc]
        BY <1>2, <3>2
      <4> QED BY <2>2, <2>3, <3>2, <4>1, ChunkKeeps, Zenon
    <3> QED BY <3>1, <3>2, Zenon
  <2>5. progress' = [progress EXCEPT ![h] = p]
    BY <1>2, <2>2 DEF CallsTypeOK
  <2> HIDE DEF chunk
  <2>6. /\ p \in Progress /\ p.chunk = {chunk.revision} /\ p.raw = progress[h].raw
        /\ p.manifest = progress[h].manifest /\ p.snapshot = progress[h].snapshot
    BY <2>2, <2>3 DEF Progress
  <2> HIDE DEF p
  <2>7. /\ stage'[h] = "LinkChunk" /\ request'[h] = request[h] /\ reply'[h] = reply[h]
        /\ progress'[h] = p
    BY <1>2, <2>2, <2>5, GoValues, SMTT(30) DEF CallsTypeOK
  <2>8. Receipts(h)'
    <3>1. Holds(db', r, progress[h])
      BY <2>2, <2>4, ReceiptsKept, Zenon DEF Receipts
    <3>2. Holds(db', r, p)
      BY <2>4, <2>6, <3>1, Zenon DEF Holds
    <3> QED BY <2>2, <2>7, <3>2, Zenon DEF Receipts
  <2>9. KindInv(h)'
    BY <2>1, <2>2, <2>7, Zenon DEF KindInv, RowStages, SnapshotStages, SessionStages
  <2>10. r.kind = "Ingest" => r.base \subseteq DOMAIN db'.snapshots
    BY <2>1, <2>2, <2>4, Zenon DEF CallInv, Grows
  <2>11. obs # {}
    BY <2>1, <2>2, Zenon DEF CallInv
  <2>12. CallInv(h)'
    BY <2>4, <2>7, <2>8, <2>10, <2>11, Zenon DEF CallInv, Receipts, Holds, SnapshotStages
  <2>13. /\ progress' \in [Handles -> Progress] /\ DOMAIN preflight' = Handles
         /\ \A g \in Handles \ {h} : progress'[g] = progress[g] /\ preflight'[g] = preflight[g]
    BY <1>2, <2>2, <2>5, <2>6, Zenon DEF CallsTypeOK
  <2> QED BY <1>2, <2>4, <2>9, <2>12, <2>13, GoStep, Zenon DEF Stages, RowStages
<1> QED BY <1>1, <1>2, Zenon DEF PublishChunk

\* A chunk is linked to the row of a capture that has observations.
LEMMA WithChunkReads ==
    ASSUME StoreInv, NEW c \in DOMAIN Captures, c \in DOMAIN db.pubs, Obs(c) # {},
           Obs(c) \in DOMAIN db.chunks
    PROVE  LET row == WithChunk(db.pubs[c], Obs(c))
           IN  /\ row \in Row /\ row.revision = db.pubs[c].revision /\ row.chunk = {Obs(c)}
               /\ \/ row.chunk = db.pubs[c].chunk
                  \/ db.pubs[c].chunk = {} /\ row.chunk # {} /\ Obs(c) # {}
               /\ \A d : (/\ d.pubs[c] = row /\ d.artifacts = db.artifacts
                         /\ d.chunks = db.chunks /\ d.snapshots = db.snapshots) => RowAgrees(d, c)
<1> DEFINE old == db.pubs[c]
           row == WithChunk(old, Obs(c))
<1>1. old \in Row /\ RowAgrees(db, c) /\ {Obs(c)} \in SUBSET ChunkIds
  BY DEF StoreInv, StoreTypeOK, RowsReadable, ChunkIds
<1>2. /\ row \in Row /\ row.revision = old.revision /\ row.chunk = {Obs(c)}
      /\ row.snapshot = old.snapshot
      /\ row.status = IF old.status = "Manifest" THEN "Chunk" ELSE old.status
  BY <1>1, Zenon DEF WithChunk, Row, Statuses
<1>3. old.chunk = {} \/ old.chunk = {Obs(c)}
  BY <1>1, Zenon DEF RowAgrees
<1> HIDE DEF row
<1>4. ASSUME NEW d, d.pubs[c] = row, d.artifacts = db.artifacts, d.chunks = db.chunks,
             d.snapshots = db.snapshots
      PROVE  RowAgrees(d, c)
  BY <1>1, <1>2, <1>4, Zenon DEF RowAgrees, ShapeHolds
<1> QED BY <1>2, <1>3, <1>4, Zenon DEF row

LEMMA EditRow ==
    ASSUME StoreInv, NEW c \in DOMAIN db.pubs, NEW row, db' = [db EXCEPT !.pubs[c] = row]
    PROVE  /\ db'.pubs = Set(db.pubs, c, row) /\ db'.pubs[c] = row
           /\ db' = [db EXCEPT !.pubs = db'.pubs]
           /\ db'.artifacts = db.artifacts /\ db'.chunks = db.chunks /\ db'.snapshots = db.snapshots
<1> DEFINE pubs == [db.pubs EXCEPT ![c] = row]
<1>1. db' = [db EXCEPT !.pubs = pubs]
  BY DEF StoreInv, StoreTypeOK
<1>2. pubs = Set(db.pubs, c, row) /\ pubs[c] = row
  BY DEF Set, StoreInv, StoreTypeOK
<1> HIDE DEF pubs
<1> QED BY <1>1, <1>2 DEF StoreInv, StoreTypeOK

LEMMA LinkChunkStep == ASSUME IInv, NEW h \in Handles, LinkChunk(h) PROVE IInv' /\ Grows(db, db')
<1> DEFINE r == request[h]
           obs == Obs(r.cap)
           row == WithChunk(db.pubs[r.cap], obs)
           to == IF r.kind = "Ingest" THEN "Snapshot" ELSE "Spooled"
<1>1. CASE Contradict(h)
  BY <1>1, RefuseStep DEF Contradict
<1>2. CASE /\ db' = [db EXCEPT !.pubs[r.cap] = row] /\ Go(h, to)
           /\ UNCHANGED <<progress, preflight, faults>>
  <2>1. stage[h] = "LinkChunk"
    BY DEF LinkChunk
  <2>2. /\ Receipts(h) /\ StoreInv /\ KindInv(h) /\ CallInv(h) /\ CallsTypeOK
        /\ r.cap \in DOMAIN Captures /\ obs # {} /\ obs \in DOMAIN db.chunks
    BY <2>1, CaptureOf, Zenon DEF CallInv, KindInv, RowStages
  <2>3. r.cap \in DOMAIN db.pubs
    BY <2>2, Zenon DEF Receipts, Holds
  <2>4. /\ row \in Row /\ row.revision = db.pubs[r.cap].revision /\ row.chunk = {obs}
        /\ \/ row.chunk = db.pubs[r.cap].chunk
           \/ db.pubs[r.cap].chunk = {} /\ row.chunk # {} /\ Obs(r.cap) # {}
        /\ \A d : (/\ d.pubs[r.cap] = row /\ d.artifacts = db.artifacts
                  /\ d.chunks = db.chunks /\ d.snapshots = db.snapshots) => RowAgrees(d, r.cap)
    BY <2>2, <2>3, WithChunkReads, Zenon
  <2> HIDE DEF row
  <2>5. /\ db'.pubs = Set(db.pubs, r.cap, row) /\ db'.pubs[r.cap] = row
        /\ db' = [db EXCEPT !.pubs = db'.pubs]
        /\ db'.artifacts = db.artifacts /\ db'.chunks = db.chunks /\ db'.snapshots = db.snapshots
    BY <1>2, <2>2, <2>3, EditRow
  <2>6. RowAgrees(db', r.cap)
    BY <2>4, <2>5, Zenon
  <2>7. Grows(db, db') /\ StoreInv'
    BY <2>2, <2>4, <2>5, <2>6, RowKeeps, Zenon
  <2>8. /\ stage'[h] = to /\ request'[h] = request[h] /\ reply'[h] = reply[h]
        /\ progress'[h] = progress[h]
    BY <1>2, <2>2, GoValues
  <2>9. Receipts(h)'
    BY <2>2, <2>7, <2>8, ReceiptsKept, Zenon DEF Receipts
  <2>10. KindInv(h)'
    BY <2>1, <2>2, <2>8, Zenon DEF KindInv, RowStages, SnapshotStages, SessionStages
  <2>11. r.kind = "Ingest" => r.base \subseteq DOMAIN db'.snapshots
    BY <2>1, <2>2, <2>7, Zenon DEF CallInv, Grows
  <2>12. CallInv(h)'
    BY <2>4, <2>5, <2>8, <2>9, <2>11, Zenon DEF CallInv, Receipts, Holds
  <2> QED BY <1>2, <2>7, <2>10, <2>12, NoCallProgress, GoStep DEF Stages, RowStages, SnapshotStages
<1> QED BY <1>1, <1>2 DEF LinkChunk

\* The snapshot is the one found with this survey, or new.
LEMMA SaveSnapshotStep == ASSUME IInv, NEW h \in Handles, SaveSnapshot(h) PROVE IInv' /\ Grows(db, db')
<1> DEFINE r == request[h]
           snap == IF r.snap \in DOMAIN db.snapshots THEN db.snapshots[r.snap]
                   ELSE [assoc |-> SurveyOf(db, r), revision |-> db.revision + 1]
           p == [progress[h] EXCEPT !.snapshot = {snap.revision}]
<1>1. CASE Refuse(h)
  BY <1>1, RefuseStep DEF Refuse
<1>2. CASE /\ snap.assoc = SurveyOf(db, r)
           /\ db' = IF r.snap \in DOMAIN db.snapshots THEN db
                    ELSE [db EXCEPT !.snapshots = Set(@, r.snap, snap),
                                    !.revision = @ + 1, !.updated = r.utc]
           /\ progress' = [progress EXCEPT ![h].snapshot = {snap.revision}]
           /\ Go(h, "Preflight") /\ UNCHANGED <<preflight, faults>>
  <2>1. stage[h] = "Snapshot"
    BY Zenon DEF SaveSnapshot
  <2>2. /\ Receipts(h) /\ StoreInv /\ progress[h] \in Progress /\ KindInv(h) /\ CallInv(h)
        /\ CallsTypeOK
    BY <2>1, CaptureOf, Zenon DEF CallInv, RowStages, SnapshotStages, CallsTypeOK
  <2>3. snap.revision \in Nat
    BY <2>2 DEF StoreInv, StoreTypeOK
  <2>4. r.snap \in DOMAIN db.snapshots => snap = db.snapshots[r.snap]
    BY Zenon
  <2> HIDE DEF snap
  <2>5. /\ Grows(db, db') /\ StoreInv' /\ r.snap \in DOMAIN db'.snapshots
        /\ db'.snapshots[r.snap] = snap /\ db'.pubs = db.pubs
    <3>1. CASE r.snap \in DOMAIN db.snapshots
      BY <1>2, <2>4, <3>1, StoreUnchanged
    <3>2. CASE r.snap \notin DOMAIN db.snapshots
      <4>1. db' = [db EXCEPT !.snapshots = Set(@, r.snap, snap), !.revision = @ + 1, !.updated = r.utc]
        BY <1>2, <3>2
      <4> QED BY <2>2, <2>3, <3>2, <4>1, SnapshotKeeps, Zenon
    <3> QED BY <3>1, <3>2, Zenon
  <2>6. progress' = [progress EXCEPT ![h] = p]
    BY <1>2, <2>2 DEF CallsTypeOK
  <2>7. /\ p \in Progress /\ p.chunk = progress[h].chunk /\ p.raw = progress[h].raw
        /\ p.manifest = progress[h].manifest /\ p.snapshot = {snap.revision}
    BY <2>2, <2>3 DEF Progress
  <2> HIDE DEF p
  <2>8. /\ stage'[h] = "Preflight" /\ request'[h] = request[h] /\ reply'[h] = reply[h]
        /\ progress'[h] = p
    BY <1>2, <2>2, <2>6, GoValues, SMTT(30) DEF CallsTypeOK
  <2>9. Receipts(h)'
    <3>1. Holds(db', r, progress[h])
      BY <2>2, <2>5, ReceiptsKept, Zenon DEF Receipts
    <3>2. Holds(db', r, p)
      BY <2>5, <2>7, <3>1, Zenon DEF Holds
    <3> QED BY <2>2, <2>8, <3>2, Zenon DEF Receipts
  <2>10. KindInv(h)'
    BY <2>1, <2>2, <2>8, Zenon DEF KindInv, RowStages, SnapshotStages, SessionStages
  <2>11. r.base \subseteq DOMAIN db.snapshots
    BY <2>1, <2>2, Zenon DEF CallInv, KindInv, SnapshotStages
  <2>12. r.base \subseteq DOMAIN db'.snapshots /\ SurveyOf(db', r) = SurveyOf(db, r)
    BY <2>5, <2>11, SurveyKept DEF Grows
  <2>13. Obs(r.cap) # {} => db'.pubs[r.cap].chunk # {}
    BY <2>1, <2>2, <2>5, Zenon DEF CallInv, SnapshotStages
  <2>14. CallInv(h)'
    BY <1>2, <2>5, <2>8, <2>9, <2>12, <2>13, ZenonT(30) DEF CallInv, Receipts, Holds
  <2>15. /\ progress' \in [Handles -> Progress] /\ DOMAIN preflight' = Handles
         /\ \A g \in Handles \ {h} : progress'[g] = progress[g] /\ preflight'[g] = preflight[g]
    BY <1>2, <2>2, <2>6, <2>7, ZenonT(30) DEF CallsTypeOK
  <2> QED BY <1>2, <2>5, <2>10, <2>14, <2>15, GoStep, Zenon DEF Stages, RowStages, SnapshotStages
<1> QED BY <1>1, <1>2, Zenon DEF SaveSnapshot

\* What link_capture_snapshot reads first is what its transaction finds.
LEMMA PreflightStep == ASSUME IInv, NEW h \in Handles, Preflight(h) PROVE IInv' /\ Grows(db, db')
<1> DEFINE r == request[h]
<1>1. CASE Contradict(h)
  BY <1>1, RefuseStep DEF Contradict
<1>2. CASE /\ preflight' = [preflight EXCEPT ![h] = db.pubs[r.cap].chunk]
           /\ Go(h, "LinkSnapshot") /\ UNCHANGED <<db, progress, faults>>
  <2>1. stage[h] = "Preflight"
    BY Zenon DEF Preflight
  <2>2. KindInv(h) /\ CallInv(h) /\ CallsTypeOK
    BY <2>1, CaptureOf, Zenon
  <2>3. /\ stage'[h] = "LinkSnapshot" /\ request'[h] = request[h] /\ reply'[h] = reply[h]
        /\ progress'[h] = progress[h] /\ preflight'[h] = db.pubs[r.cap].chunk
    BY <1>2, <2>2, GoValues, Zenon DEF CallsTypeOK
  <2>4. KindInv(h)'
    BY <2>1, <2>2, <2>3, Zenon DEF KindInv, RowStages, SnapshotStages, SessionStages
  <2>5. CallInv(h)'
    BY <1>2, <2>1, <2>2, <2>3, Zenon DEF CallInv, Receipts, RowStages, SnapshotStages
  <2>6. /\ progress' \in [Handles -> Progress] /\ DOMAIN preflight' = Handles
        /\ \A g \in Handles \ {h} : progress'[g] = progress[g] /\ preflight'[g] = preflight[g]
    BY <1>2, <2>2, Zenon DEF CallsTypeOK
  <2> QED BY <1>2, <2>4, <2>5, <2>6, StoreUnchanged, GoStep, Zenon
             DEF Stages, RowStages, SnapshotStages
<1> QED BY <1>1, <1>2, Zenon DEF Preflight

\* A snapshot that contains the capture is linked to its row, which has its
\* chunk if it has observations.
LEMMA WithSnapshotReads ==
    ASSUME StoreInv, NEW c \in DOMAIN db.pubs, Obs(c) # {} => db.pubs[c].chunk # {},
           NEW s \in SnapshotIds, s \in DOMAIN db.snapshots, Obs(c) \subseteq db.snapshots[s].assoc
    PROVE  LET row == WithSnapshot(db.pubs[c], s)
           IN  /\ row \in Row /\ row.revision = db.pubs[c].revision
               /\ row.chunk = db.pubs[c].chunk
               /\ \A d : (/\ d.pubs[c] = row /\ d.artifacts = db.artifacts
                         /\ d.chunks = db.chunks /\ d.snapshots = db.snapshots) => RowAgrees(d, c)
<1> DEFINE old == db.pubs[c]
           row == WithSnapshot(old, s)
<1>1. old \in Row /\ RowAgrees(db, c) /\ {s} \in SUBSET SnapshotIds
  BY Zenon DEF StoreInv, StoreTypeOK, RowsReadable
<1>2. /\ row \in Row /\ row.revision = old.revision /\ row.chunk = old.chunk
      /\ row.snapshot = {s}
      /\ row.status = IF old.status = "Terminal" THEN "Terminal" ELSE "Complete"
  BY <1>1, Zenon DEF WithSnapshot, Row, Statuses
<1>3. Obs(c) = {} => Terminal(c)
  BY DEF Terminal
<1> HIDE DEF row
<1>4. ASSUME NEW d, d.pubs[c] = row, d.artifacts = db.artifacts, d.chunks = db.chunks,
             d.snapshots = db.snapshots
      PROVE  RowAgrees(d, c)
  BY <1>1, <1>2, <1>3, <1>4, Zenon DEF RowAgrees, ShapeHolds
<1> QED BY <1>2, <1>4, Zenon DEF row

LEMMA LinkSnapshotStep == ASSUME IInv, NEW h \in Handles, LinkSnapshot(h) PROVE IInv' /\ Grows(db, db')
<1> DEFINE r == request[h]
           row == WithSnapshot(db.pubs[r.cap], r.snap)
<1>1. CASE Contradict(h)
  BY <1>1, RefuseStep DEF Contradict
<1>2. CASE db' = [db EXCEPT !.pubs[r.cap] = row] /\ \E tag : Return(h, tag)
  <2>1. stage[h] = "LinkSnapshot"
    BY Zenon DEF LinkSnapshot
  <2>2. /\ Receipts(h) /\ StoreInv /\ CallInv(h) /\ r \in Requests
        /\ r.snap \in DOMAIN db.snapshots /\ db.snapshots[r.snap].assoc = SurveyOf(db, r)
        /\ Obs(r.cap) # {} => db.pubs[r.cap].chunk # {}
    BY <2>1, CaptureOf, Zenon DEF CallInv, RowStages, SnapshotStages
  <2>3. r.cap \in DOMAIN db.pubs /\ r.snap \in SnapshotIds
    BY <2>2, Zenon DEF Receipts, Holds, SnapshotIds
  <2>4. Obs(r.cap) \subseteq db.snapshots[r.snap].assoc
    BY <2>2, Zenon DEF SurveyOf
  <2>5. /\ row \in Row /\ row.revision = db.pubs[r.cap].revision
        /\ row.chunk = db.pubs[r.cap].chunk
        /\ \A d : (/\ d.pubs[r.cap] = row /\ d.artifacts = db.artifacts
                  /\ d.chunks = db.chunks /\ d.snapshots = db.snapshots) => RowAgrees(d, r.cap)
    BY <2>2, <2>3, <2>4, WithSnapshotReads, Zenon
  <2> HIDE DEF row
  <2>6. /\ db'.pubs = Set(db.pubs, r.cap, row) /\ db'.pubs[r.cap] = row
        /\ db' = [db EXCEPT !.pubs = db'.pubs]
        /\ db'.artifacts = db.artifacts /\ db'.chunks = db.chunks /\ db'.snapshots = db.snapshots
    BY <1>2, <2>2, <2>3, EditRow, Zenon
  <2>7. RowAgrees(db', r.cap)
    BY <2>5, <2>6
  <2>8. Grows(db, db') /\ StoreInv'
    BY <2>2, <2>5, <2>6, <2>7, RowKeeps, Zenon
  <2> QED BY <1>2, <2>8, ReturnStep
<1> QED BY <1>1, <1>2, Zenon DEF LinkSnapshot

\* The evidence read before the transaction is still there after it.
LEMMA SessionSteps ==
    ASSUME IInv, NEW h \in Handles, SessionRead(h) \/ SessionWrite(h) \/ SessionReadback(h)
    PROVE  IInv' /\ Grows(db, db')
<1> DEFINE r == request[h]
<1>1. CASE (\E tag : Return(h, tag)) /\ UNCHANGED db
  BY <1>1, RefuseStep
<1>2. stage[h] \in SessionStages /\ KindInv(h) /\ CallInv(h) /\ CallsTypeOK /\ StoreInv
  BY CaptureOf DEF SessionRead, SessionWrite, SessionReadback, SessionStages
<1>3. ASSUME NEW to \in {"SessionWrite", "SessionReadback"}, Go(h, to), Grows(db, db'), StoreInv',
             UNCHANGED <<progress, preflight>>, EvidenceAgrees(db', r.cap),
             to = "SessionReadback" => r.session \in DOMAIN db'.sessions /\ db'.sessions[r.session] = r.cap
      PROVE  IInv' /\ Grows(db, db')
  <2>1. /\ stage'[h] = to /\ request'[h] = request[h] /\ reply'[h] = reply[h]
        /\ progress'[h] = progress[h]
    BY <1>2, <1>3, GoValues, Zenon
  <2>2. KindInv(h)'
    BY <1>2, <2>1, Zenon DEF KindInv, RowStages, SnapshotStages, SessionStages
  <2>3. CallInv(h)'
    BY <1>2, <1>3, <2>1, Zenon DEF CallInv, KindInv, RowStages, SnapshotStages
  <2> QED BY <1>3, <2>2, <2>3, NoCallProgress, GoStep, Zenon DEF Stages, SessionStages
<1>4. CASE /\ SessionRead(h) /\ EvidenceAgrees(db, r.cap) /\ Go(h, "SessionWrite")
           /\ UNCHANGED <<db, progress, preflight>>
  BY <1>3, <1>4, StoreUnchanged, Zenon
<1>5. CASE /\ SessionWrite(h) /\ FreeForSession(db, r.session, r.cap)
           /\ db' = [db EXCEPT !.sessions = Set(@, r.session, r.cap)]
           /\ Go(h, "SessionReadback") /\ UNCHANGED <<progress, preflight>>
  <2>1. EvidenceAgrees(db, r.cap)
    BY <1>2, <1>5 DEF SessionWrite, CallInv
  <2>2. /\ Grows(db, db') /\ StoreInv' /\ EvidenceAgrees(db', r.cap)
        /\ r.session \in DOMAIN db'.sessions /\ db'.sessions[r.session] = r.cap
    BY <1>2, <1>5, <2>1, SessionKeeps
  <2> QED BY <1>3, <1>5, <2>2
<1>6. CASE SessionRead(h)
  BY <1>1, <1>4, <1>6, Zenon DEF SessionRead, HasEvidence, Contradict
<1>7. CASE SessionWrite(h)
  BY <1>1, <1>5, <1>7 DEF SessionWrite, Refuse
<1>8. CASE SessionReadback(h)
  BY <1>1, <1>8, Zenon DEF SessionReadback, Contradict
<1> QED BY <1>6, <1>7, <1>8

LEMMA PutOtherStep == ASSUME IInv, NEW h \in Handles, PutOther(h) PROVE IInv' /\ Grows(db, db')
<1> DEFINE r == request[h]
<1>1. CASE Refuse(h)
  BY <1>1, RefuseStep DEF Refuse
<1>2. CASE db' = AfterPut(db, r.blob, r.prov, r.utc) /\ Return(h, "Done")
  <2>1. Grows(db, db') /\ StoreInv'
    BY <1>2, PutKeeps, Zenon DEF IInv
  <2> QED BY <1>2, <2>1, ReturnStep, SMTT(30)
<1> QED BY <1>1, <1>2, Zenon DEF PutOther

-----------------------------------------------------------------------------
(* Every step, and the theorems                                            *)

LEMMA InitIInv == Init => IInv
<1> SUFFICES ASSUME Init PROVE IInv
  OBVIOUS
<1>1. DOMAIN EmptyMap = {}
  BY DEF EmptyMap
<1>2. /\ db.revision = 0 /\ db.artifacts = EmptyMap /\ db.pubs = EmptyMap /\ db.chunks = EmptyMap
      /\ db.snapshots = EmptyMap /\ db.sessions = EmptyMap
  BY DEF Init
<1>3. EmptyMap \in [{} -> Row]
  BY DEF EmptyMap
<1>4. StoreTypeOK
  BY <1>1, <1>2, <1>3 DEF Init, StoreTypeOK
<1>5. RowsReadable
  BY <1>1, <1>2 DEF RowsReadable
<1>6. CallsTypeOK
  BY NoProgressType, SMTT(30) DEF Init, CallsTypeOK, Stages
<1>7. \A h \in Handles : KindInv(h) /\ CallInv(h)
  BY Zenon DEF Init, KindInv, CallInv, RowStages, SnapshotStages, SessionStages
<1> QED BY <1>4, <1>5, <1>6, <1>7 DEF IInv, StoreInv

LEMMA NextIInv == IInv /\ [Next]_vars => IInv' /\ Grows(db, db')
<1> SUFFICES ASSUME IInv, [Next]_vars PROVE IInv' /\ Grows(db, db')
  BY SMTT(30)
<1>1. CASE UNCHANGED vars
  <2>1. StoreInv' /\ CallsTypeOK'
    BY <1>1, Zenon DEF vars, IInv, StoreInv, StoreTypeOK, RowsReadable, CallsTypeOK
  <2>2. ASSUME NEW h \in Handles PROVE KindInv(h)' /\ CallInv(h)'
    BY <1>1, Zenon DEF vars, IInv, KindInv, CallInv, Receipts
  <2>3. Grows(db, db')
    BY <1>1, GrowsItself, Zenon DEF vars, IInv, StoreInv
  <2> QED BY <2>1, <2>2, <2>3, Zenon DEF IInv
<1>2. ASSUME NEW h \in Handles, NEW r \in Requests, Call(h, r) PROVE IInv' /\ Grows(db, db')
  BY <1>2, CallStep
<1>3. ASSUME NEW h \in Handles, Step(h) PROVE IInv' /\ Grows(db, db')
  <2>1. CASE Spooled(h)
    BY <2>1, RefuseStep, Zenon DEF Spooled
  <2> QED BY <1>3, <2>1, AssociateStep, PutManifestStep, InsertRowStep, PutRawStep,
             PublishChunkStep,
             LinkChunkStep, SaveSnapshotStep, PreflightStep, LinkSnapshotStep, SessionSteps,
             PutOtherStep, Zenon DEF Step
<1>4. ASSUME NEW h \in Handles, Fail(h) \/ Crash(h) PROVE IInv' /\ Grows(db, db')
  BY <1>4, RefuseStep DEF Fail, Crash
<1> QED BY <1>1, <1>2, <1>3, <1>4 DEF Next

LEMMA SpecIInv == Spec => []IInv
BY InitIInv, NextIInv, PTL DEF Spec

\* Whatever calls race, fail or die between their transactions, every row
\* passes every check capture_publication makes of it, and every registered
\* session keeps its evidence and its manifest to itself.
THEOREM RowsStayReadable == Spec => []RowsReadable
<1>1. IInv => RowsReadable
  BY DEF IInv, StoreInv
<1> QED BY SpecIInv, <1>1, PTL

\* The receipts an ingest or a spool has collected, and reports when it fails
\* half way, name what the store holds for as long as the call runs.
THEOREM ReceiptsStayTrue == Spec => []ReceiptsDurable
<1>1. IInv => ReceiptsDurable
  BY ZenonT(30) DEF IInv, KindInv, CallInv, Receipts, Holds, ReceiptsDurable
<1> QED BY SpecIInv, <1>1, PTL

\* No transaction takes anything back: artifacts, rows and their revisions,
\* chunks, snapshots and sessions stay as committed, and of an old row only
\* a chunk link that was not set is set.
THEOREM StoreOnlyGrows == Spec => [][Grows(db, db')]_vars
<1>1. IInv /\ [Next]_vars => [Grows(db, db')]_vars
  BY NextIInv, SMTT(30)
<1> QED BY SpecIInv, <1>1, PTL DEF Spec

-----------------------------------------------------------------------------
(* Corruption is reported only to a call that contradicts the store        *)

LEMMA RepliesOf ==
    ASSUME IInv, NEW h \in Handles, stage[h] # "Idle"
    PROVE  /\ \A to : Go(h, to) => reply'[h] # "Corrupt"
           /\ \A tag : Return(h, tag) => reply'[h] = tag
BY CaptureOf, Zenon DEF Go, Return, CallsTypeOK

\* A call in one of the row stages finds its manifest, its row as it was
\* written, and in it no chunk but its own.
LEMMA RowFound ==
    ASSUME IInv, NEW h \in Handles, stage[h] \in RowStages
    PROVE  LET c == request[h].cap
           IN  /\ ManifestBlob(c) \in DOMAIN db.artifacts /\ c \in DOMAIN db.pubs /\ RowAgrees(db, c)
               /\ ShapeHolds(c, db.pubs[c]) /\ db.pubs[c].chunk \subseteq {Obs(c)}
<1>1. Receipts(h) /\ RowsReadable
  BY Zenon DEF IInv, CallInv, StoreInv
<1>2. request[h].cap \in DOMAIN db.pubs /\ ManifestBlob(request[h].cap) \in DOMAIN db.artifacts
  BY <1>1, Zenon DEF Receipts, Holds
<1>3. RowAgrees(db, request[h].cap)
  BY <1>1, <1>2, Zenon DEF RowsReadable
<1> QED BY <1>2, <1>3, Zenon DEF RowAgrees

\* The transactions on a row contradict only a call with another chunk
\* provenance or another snapshot, or a bundle with an undecodable chunk.
LEMMA RowContradicts ==
    ASSUME IInv, NEW h \in Handles, reply'[h] = "Corrupt",
           InsertRow(h) \/ PublishChunk(h) \/ LinkChunk(h) \/ Preflight(h) \/ LinkSnapshot(h)
    PROVE  Contradicted(db, request[h])
<1> DEFINE r == request[h]
<1>1. /\ stage[h] \in {"Row", "Chunk", "LinkChunk", "Preflight", "LinkSnapshot"}
      /\ KindInv(h) /\ CallInv(h) /\ StoreInv
  BY CaptureOf, Zenon DEF InsertRow, PublishChunk, LinkChunk, Preflight, LinkSnapshot
<1>2. /\ r.kind \in {"Ingest", "Spool"}
      /\ stage[h] \in {"Preflight", "LinkSnapshot"} => r.kind = "Ingest"
  BY <1>1, Zenon DEF KindInv, RowStages, SnapshotStages
<1>3. \A to : ~ Go(h, to)
  BY <1>1, RepliesOf, Zenon
<1>4. CASE InsertRow(h)
  <2>1. r.cap \in DOMAIN db.pubs =>
          /\ ShapeHolds(r.cap, db.pubs[r.cap])
          /\ (db.pubs[r.cap].status = "Terminal") = Terminal(r.cap)
    BY <1>1, Zenon DEF StoreInv, RowsReadable, RowAgrees, Terminal
  <2> QED BY <1>3, <1>4, <2>1, Zenon DEF InsertRow
<1>5. CASE PublishChunk(h)
  <2>1. ~ Refuse(h)
    BY <1>1, RepliesOf, Zenon DEF Refuse
  <2>2. Obs(r.cap) \in DOMAIN db.chunks /\ db.chunks[Obs(r.cap)].prov # r.prov
    BY <1>3, <1>5, <2>1, Zenon DEF PublishChunk
  <2> QED BY <1>2, <2>2, Zenon DEF Contradicted
<1>6. CASE LinkChunk(h)
  <2>1. stage[h] = "LinkChunk" /\ stage[h] \in RowStages
    BY <1>6, Zenon DEF LinkChunk, RowStages
  <2>2. Obs(r.cap) \in DOMAIN db.chunks
    BY <1>1, <2>1, Zenon DEF CallInv
  <2> QED BY <1>3, <1>6, <2>1, <2>2, RowFound, Zenon DEF LinkChunk, Linked, Contradicted
<1>7. CASE Preflight(h)
  <2>1. stage[h] = "Preflight" /\ stage[h] \in RowStages
    BY <1>7, Zenon DEF Preflight, RowStages, SnapshotStages
  <2>2. /\ r.snap \in DOMAIN db.snapshots /\ db.snapshots[r.snap].assoc = SurveyOf(db, r)
        /\ Obs(r.cap) # {} => db.pubs[r.cap].chunk # {}
    BY <1>1, <2>1, Zenon DEF CallInv, SnapshotStages
  <2>3. Obs(r.cap) \subseteq db.snapshots[r.snap].assoc
    BY <2>2, Zenon DEF SurveyOf
  <2> QED BY <1>3, <1>7, <2>1, <2>2, <2>3, RowFound, Zenon DEF Preflight, Readable, Contradicted
<1>8. CASE LinkSnapshot(h)
  <2>1. stage[h] = "LinkSnapshot" /\ stage[h] \in RowStages
    BY <1>8, Zenon DEF LinkSnapshot, RowStages, SnapshotStages
  <2>2. /\ r.snap \in DOMAIN db.snapshots /\ db.pubs[r.cap].chunk = preflight[h]
        /\ Obs(r.cap) # {} => preflight[h] # {}
    BY <1>1, <2>1, Zenon DEF CallInv, SnapshotStages
  <2>3. \A tag \in {"Done", "Inconsistent"} : ~ Return(h, tag)
    BY <1>1, RepliesOf, Zenon
  <2>4. ~ Linked(db.pubs[r.cap], "snapshot", r.snap)
    BY <1>8, <2>1, <2>2, <2>3, RowFound, Zenon DEF LinkSnapshot
  <2> QED BY <1>2, <2>1, <2>4, Zenon DEF Contradicted
<1> QED BY <1>4, <1>5, <1>6, <1>7, <1>8, Zenon

\* A session is contradicted only when its evidence is missing or a chunk
\* cannot be decoded, and once it is registered for the latter alone.
LEMMA SessionContradicts ==
    ASSUME IInv, NEW h \in Handles, reply'[h] = "Corrupt",
           SessionRead(h) \/ SessionWrite(h) \/ SessionReadback(h)
    PROVE  Contradicted(db, request[h])
<1>1. stage[h] \in SessionStages /\ stage[h] # "Idle" /\ request[h].kind = "Session" /\ CallInv(h)
  BY Zenon DEF IInv, KindInv, SessionRead, SessionWrite, SessionReadback, SessionStages
<1>2. (\A to : ~ Go(h, to)) /\ ~ Return(h, "Refused") /\ ~ Return(h, "Done")
  BY <1>1, RepliesOf, Zenon
<1>3. CASE SessionRead(h)
  BY <1>1, <1>2, <1>3, Zenon DEF SessionRead, Contradicted, HasEvidence, EvidenceAgrees, Readable
<1>4. ~ SessionWrite(h)
  BY <1>2, SMTT(30) DEF SessionWrite, Refuse
<1>5. CASE SessionReadback(h)
  <2>1. stage[h] = "SessionReadback" /\ EvidenceAgrees(db, request[h].cap)
    BY <1>1, <1>5, Zenon DEF SessionReadback, CallInv
  <2> QED BY <1>1, <1>2, <1>5, <2>1, Zenon
          DEF SessionReadback, CallInv, Contradicted, HasEvidence, EvidenceAgrees, Readable
<1> QED BY <1>3, <1>4, <1>5, Zenon

\* No interleaving, failure or crash makes the store report corruption to a
\* call that agrees with it, in a bundle whose chunks can all be decoded:
\* link_capture_chunk, the preflight and the transaction of
\* link_capture_snapshot and the readback of a session find what the
\* call's own earlier transactions left, whoever came in between.
THEOREM CorruptionIsReal == Spec => CorruptIsReal
<1> DEFINE Real == \A h \in Handles :
                     (~ Idle(h) /\ reply'[h] = "Corrupt") => Contradicted(db, request[h])
<1>1. IInv /\ [Next]_vars => [Real]_vars
  <2> SUFFICES ASSUME IInv, Next, NEW h \in Handles, stage[h] # "Idle", reply'[h] = "Corrupt"
               PROVE  Contradicted(db, request[h])
    BY SMTT(30) DEF Idle
  <2>1. PICK g \in Handles : (\E r \in Requests : Call(g, r)) \/ Step(g) \/ Fail(g) \/ Crash(g)
    BY Zenon DEF Next
  <2>2. reply[h] # "Corrupt"
    BY CaptureOf, Zenon
  <2>3. g = h
    BY <2>1, <2>2, ZenonT(30)
       DEF IInv, CallsTypeOK, Call, Step, Fail, Crash, Associate, PutManifest, InsertRow, PutRaw,
           PublishChunk, LinkChunk, Spooled, SaveSnapshot, Preflight, LinkSnapshot, SessionRead,
           SessionWrite, SessionReadback, PutOther, Go, Return, Refuse, Contradict
  <2>4. ~ \E r \in Requests : Call(h, r)
    BY DEF Call, Idle
  <2>5. (\A to : ~ Go(h, to)) /\ (\A tag : Return(h, tag) => tag = "Corrupt")
    BY RepliesOf, Zenon
  <2>6. ~ (Fail(h) \/ Crash(h))
    BY <2>5, Zenon DEF Fail, Crash
  <2>7. ~ (\/ Associate(h) \/ PutManifest(h) \/ PutRaw(h) \/ Spooled(h) \/ SaveSnapshot(h)
           \/ PutOther(h))
    BY <2>5, Zenon DEF Associate, PutManifest, PutRaw, Spooled, SaveSnapshot, PutOther, Refuse
  <2> QED BY <2>1, <2>3, <2>4, <2>6, <2>7, RowContradicts, SessionContradicts, Zenon DEF Step
<1> QED BY <1>1, SpecIInv, PTL DEF Spec, CorruptIsReal

=============================================================================
