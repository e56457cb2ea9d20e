------------------------- MODULE BundleStoreProofs --------------------------
(***************************************************************************)
(* Theorems about BundleStore for any processes and any calls.  First what *)
(* a call does to the content of a bundle (an accepted call extends it and *)
(* keeps it well formed), then the inductive invariant: what open          *)
(* transactions know of the committed content, and that every step keeps   *)
(* it.                                                                     *)
(***************************************************************************)
EXTENDS BundleStore, TLAPS

(* What every database content is, committed or inside a transaction.      *)
DbInv(d) ==
    /\ IsDb(d)
    /\ RegistersEvidence(d)
    /\ Replayable(d)
    /\ DisjointChunks(d)
    /\ Contiguous(d)
    /\ OneMutationEach(d)

LEMMA SetIsMap ==
    ASSUME NEW f, NEW S, NEW T, IsMap(f, S, T), NEW k \in S, NEW v \in T
    PROVE  IsMap(Set(f, k, v), S, T)
BY DEF Set, IsMap

LEMMA NewDbInv == DbInv(NewDb)
<1> DEFINE d == NewDb
<1>1. /\ d.revision = 0 /\ d.updated = 0 /\ d.opRevision = 0
      /\ d.artifacts = EmptyMap /\ d.rows = EmptyMap
      /\ d.snapshots = EmptyMap /\ d.chunks = EmptyMap
      /\ d \in [revision : Nat, updated : Nat, artifacts : {EmptyMap}, rows : {EmptyMap},
                opRevision : Nat, snapshots : {EmptyMap}, chunks : {EmptyMap}]
  BY DEF NewDb
<1>2. DOMAIN EmptyMap = {} /\ \A S, T : IsMap(EmptyMap, S, T)
  BY DEF EmptyMap, IsMap
<1> HIDE DEF d
<1>3. IsDb(d)
  BY <1>1, <1>2 DEF IsDb
<1>4. /\ RegistersEvidence(d) /\ Replayable(d) /\ DisjointChunks(d) /\ Contiguous(d)
      /\ OneMutationEach(d)
  BY <1>1, <1>2 DEF RegistersEvidence, Replayable, DisjointChunks, Contiguous, OneMutationEach
<1> QED BY <1>3, <1>4 DEF DbInv, d

(* Registering bytes under a kind they do not have yet otherwise keeps     *)
(* every entry and takes one revision.                                     *)
LEMMA RegisterProperties ==
    ASSUME NEW d, IsDb(d), NEW blob \in Blobs, NEW entry \in Entries, NEW utc \in Nat,
           utc >= d.updated, ~ OtherEntry(d, blob, entry)
    PROVE  LET e == Register(d, blob, entry, utc)
           IN  /\ IsDb(e)
               /\ e.revision = d.revision + 1 /\ e.updated = utc
               /\ DOMAIN e.artifacts = DOMAIN d.artifacts \cup {blob}
               /\ e.artifacts[blob] = entry
               /\ \A b \in DOMAIN d.artifacts : e.artifacts[b] = d.artifacts[b]
               /\ e.rows = d.rows /\ e.opRevision = d.opRevision
               /\ e.snapshots = d.snapshots /\ e.chunks = d.chunks
<1> DEFINE a == Set(d.artifacts, blob, entry)
           n == d.revision + 1
           e == [d EXCEPT !.artifacts = a, !.revision = n, !.updated = utc]
<1>0. Register(d, blob, entry, utc) = e
  BY DEF Register
<1>1. /\ DOMAIN a = DOMAIN d.artifacts \cup {blob}
      /\ a[blob] = entry
      /\ \A b \in DOMAIN d.artifacts : a[b] = d.artifacts[b]
  BY DEF OtherEntry, Set
<1>2. IsMap(a, Blobs, Entries)
  BY SetIsMap DEF IsDb
<1>n. n \in Nat
  BY DEF IsDb
<1> HIDE DEF a, n
<1>3. e \in [revision : Nat, updated : Nat, artifacts : {a}, rows : {d.rows},
             opRevision : Nat, snapshots : {d.snapshots}, chunks : {d.chunks}]
  BY <1>n, Zenon DEF IsDb
<1>4. /\ e.revision = n /\ e.updated = utc /\ e.artifacts = a
      /\ e.rows = d.rows /\ e.opRevision = d.opRevision
      /\ e.snapshots = d.snapshots /\ e.chunks = d.chunks
  BY DEF IsDb
<1> HIDE DEF e
<1>5. IsDb(e)
  BY <1>2, <1>3, <1>4 DEF IsDb
<1> QED BY <1>0, <1>1, <1>4, <1>5 DEF n

(* The effect of a call that its transaction accepts is again a sound      *)
(* database content, extends the old one, and needs no bytes but its own.  *)
Follows(d, r) ==
    /\ DbInv(After(d, r))
    /\ Extends(d, After(d, r))
    /\ \A b \in DOMAIN After(d, r).artifacts \ DOMAIN d.artifacts :
        WritesFile(r) /\ b = r.blob

LEMMA ExtendsItself == ASSUME NEW d, IsDb(d) PROVE Extends(d, d)
BY DEF Extends, IsDb

(* A later revision of the same snapshots and chunks.                      *)
LEMMA SameEvidence ==
    ASSUME NEW d, DbInv(d), NEW e, e.revision = d.revision + 1,
           e.snapshots = d.snapshots, e.chunks = d.chunks
    PROVE  OneMutationEach(e)
<1>1. d.revision \in Nat
  BY DEF DbInv, IsDb
<1>2. 1 .. d.revision \subseteq 1 .. e.revision
  BY <1>1
<1> QED BY <1>2 DEF DbInv, OneMutationEach

(* The map sources of operations stay registered as such.                  *)
LEMMA SourcesStand ==
    ASSUME NEW d, RegistersEvidence(d), NEW e, e.rows = d.rows,
           DOMAIN d.artifacts \subseteq DOMAIN e.artifacts,
           \A b \in DOMAIN d.artifacts : e.artifacts[b] = d.artifacts[b]
    PROVE  \A id \in DOMAIN e.rows : NamesMapSources(e, e.rows[id].op)
BY Zenon DEF RegistersEvidence, NamesMapSources

LEMMA PutFollows ==
    ASSUME NEW d, DbInv(d), NEW r \in Requests, r.kind = "Put", AcceptsPut(d, r)
    PROVE  Follows(d, r)
<1> DEFINE e == Register(d, r.blob, r.entry, r.utc)
<1>t. WritesFile(r) /\ r.blob \in Blobs /\ r.utc \in Nat /\ r.entry \in PutKinds
  BY RequestsAreCalls DEF IsRequest, WritesFile, Blobs
<1>a. After(d, r) = IF r.blob \in DOMAIN d.artifacts THEN d ELSE e
  BY DEF After, AfterPut
<1>1. CASE r.blob \in DOMAIN d.artifacts
  BY <1>1, <1>a, ExtendsItself DEF Follows, DbInv
<1>2. CASE r.blob \notin DOMAIN d.artifacts
  <2>1. /\ IsDb(e)
        /\ e.revision = d.revision + 1 /\ e.updated = r.utc
        /\ DOMAIN e.artifacts = DOMAIN d.artifacts \cup {r.blob}
        /\ e.artifacts[r.blob] = r.entry
        /\ \A b \in DOMAIN d.artifacts : e.artifacts[b] = d.artifacts[b]
        /\ e.rows = d.rows /\ e.opRevision = d.opRevision
        /\ e.snapshots = d.snapshots /\ e.chunks = d.chunks
    BY <1>t, RegisterProperties DEF AcceptsPut, DbInv, PutKinds, Entries
  <2> HIDE DEF e
  <2>2. RegistersEvidence(e)
    <3>1. \A id \in DOMAIN e.rows : NamesMapSources(e, e.rows[id].op)
      BY <2>1, SourcesStand DEF DbInv
    <3> QED BY <1>t, <1>2, <2>1, <3>1 DEF DbInv, RegistersEvidence, PutKinds
  <2>3. Replayable(e) /\ DisjointChunks(e) /\ Contiguous(e) /\ OneMutationEach(e)
    BY <2>1, SameEvidence DEF DbInv, DisjointChunks, Contiguous, Replayable, OperationsOf
  <2>4. Extends(d, e)
    BY <2>1 DEF Extends, AcceptsPut
  <2>5. \A b \in DOMAIN e.artifacts \ DOMAIN d.artifacts : WritesFile(r) /\ b = r.blob
    BY <1>t, <2>1
  <2> QED BY <1>a, <1>2, <2>1, <2>2, <2>3, <2>4, <2>5 DEF Follows, DbInv
<1> QED BY <1>1, <1>2

LEMMA AppendFollows ==
    ASSUME NEW d, DbInv(d), NEW r \in Requests, r.kind = "Append", AcceptsAppend(d, r)
    PROVE  Follows(d, r)
<1> DEFINE k == r.op.id
           n == d.opRevision + 1
           m == d.revision + 1
           row == [op |-> r.op, revision |-> n]
           f == Set(d.rows, k, row)
           e == [d EXCEPT !.rows = f, !.opRevision = n, !.revision = m]
<1>t. r.op \in Operations /\ k \in {op.id : op \in Operations}
  BY DEF Operations
<1>n. n \in Nat /\ m \in Nat /\ d.opRevision \in Nat /\ d.revision \in Nat
  BY DEF DbInv, IsDb
<1>a. After(d, r) = e
  BY DEF After, AfterAppend
<1>1. /\ k \notin DOMAIN d.rows
      /\ DOMAIN f = DOMAIN d.rows \cup {k}
      /\ f[k] = row
      /\ \A x \in DOMAIN d.rows : f[x] = d.rows[x]
  BY DEF AcceptsAppend, Stored, Set
<1>2. IsMap(f, {op.id : op \in Operations}, [op : Operations, revision : Nat])
  <2>1. row \in [op : Operations, revision : Nat]
    BY <1>t, <1>n
  <2> QED BY <1>t, <2>1, SetIsMap, Zenon DEF DbInv, IsDb
<1>3. row.op = r.op /\ row.revision = n
  OBVIOUS
<1>g. n = d.opRevision + 1 /\ m = d.revision + 1
  OBVIOUS
<1> HIDE DEF f, n, m, row, k
<1>4. e \in [revision : Nat, updated : Nat, artifacts : {d.artifacts}, rows : {f},
             opRevision : Nat, snapshots : {d.snapshots}, chunks : {d.chunks}]
  BY <1>n, Zenon DEF DbInv, IsDb
<1>5. /\ e.revision = m /\ e.updated = d.updated /\ e.artifacts = d.artifacts
      /\ e.rows = f /\ e.opRevision = n
      /\ e.snapshots = d.snapshots /\ e.chunks = d.chunks
  BY DEF DbInv, IsDb
<1> HIDE DEF e
<1>6. IsDb(e)
  BY <1>2, <1>4, <1>5 DEF DbInv, IsDb
<1>7. RegistersEvidence(e)
  <2>1. \A id \in DOMAIN d.rows : NamesMapSources(d, d.rows[id].op)
    BY Zenon DEF DbInv, RegistersEvidence
  <2>2. NamesMapSources(d, r.op)
    BY Zenon DEF AcceptsAppend
  <2>3. \A id \in DOMAIN e.rows : NamesMapSources(e, e.rows[id].op)
    BY <1>1, <1>3, <1>5, <2>1, <2>2 DEF NamesMapSources
  <2> QED BY <1>5, <2>3 DEF DbInv, RegistersEvidence
<1>r. Replayable(e)
  <2>1. OperationsOf(e) = OperationsOf(d) \cup {r.op}
    BY <1>1, <1>3, <1>5 DEF OperationsOf
  <2> QED BY <2>1, Zenon DEF Replayable, AcceptsAppend
<1>8. DisjointChunks(e)
  BY <1>5 DEF DbInv, DisjointChunks
<1>9. Contiguous(e)
  <2> DEFINE rev(x) == e.rows[x].revision
  <2>r. /\ rev(k) = d.opRevision + 1
        /\ \A x \in DOMAIN d.rows : rev(x) = d.rows[x].revision /\ e.rows[x].op = d.rows[x].op
        /\ \A x \in DOMAIN d.rows : d.rows[x].revision \in 1 .. d.opRevision
        /\ DOMAIN e.rows = DOMAIN d.rows \cup {k}
    BY <1>1, <1>3, <1>5, <1>g, Zenon DEF DbInv, Contiguous
  <2>1. {e.rows[id].revision : id \in DOMAIN e.rows} = 1 .. e.opRevision
    <3>1. {rev(x) : x \in DOMAIN d.rows} = 1 .. d.opRevision
      BY <2>r DEF DbInv, Contiguous
    <3>2. {rev(x) : x \in DOMAIN e.rows} = {rev(x) : x \in DOMAIN d.rows} \cup {rev(k)}
      BY <2>r
    <3>3. 1 .. e.opRevision = 1 .. d.opRevision \cup {d.opRevision + 1}
      BY <1>5, <1>g, <1>n
    <3> QED BY <2>r, <3>1, <3>2, <3>3
  <2>2. \A a, b \in DOMAIN e.rows : e.rows[a].revision = e.rows[b].revision => a = b
    BY <2>r, <1>n DEF DbInv, Contiguous
  <2>3. \A id \in DOMAIN e.rows : \A p \in e.rows[id].op.parents :
            p \in DOMAIN e.rows /\ e.rows[p].revision < e.rows[id].revision
    <3>1. ASSUME NEW p \in r.op.parents
          PROVE  p \in DOMAIN d.rows /\ rev(p) < rev(k)
      BY <2>r, <1>n DEF AcceptsAppend
    <3>2. e.rows[k].op = r.op
      BY <1>1, <1>3, <1>5
    <3> QED BY <2>r, <3>1, <3>2 DEF DbInv, Contiguous
  <2>4. \A id \in DOMAIN e.rows : e.rows[id].op.id = id
    <3>1. e.rows[k].op.id = k
      BY <1>1, <1>3, <1>5 DEF k
    <3> QED BY <2>r, <3>1, Zenon DEF DbInv, Contiguous
  <2> QED BY <2>1, <2>2, <2>3, <2>4, Zenon DEF Contiguous
<1>10. Extends(d, e)
  BY <1>1, <1>5, <1>g, <1>n DEF Extends, DbInv, IsDb
<1>11. DOMAIN e.artifacts \ DOMAIN d.artifacts = {}
  BY <1>5
<1>12. OneMutationEach(e)
  BY <1>5, <1>g, SameEvidence
<1> QED BY <1>a, <1>6, <1>7, <1>r, <1>8, <1>9, <1>10, <1>11, <1>12 DEF Follows, DbInv

LEMMA SnapshotFollows ==
    ASSUME NEW d, DbInv(d), NEW r \in Requests, r.kind = "Snapshot", AcceptsSnapshot(d, r)
    PROVE  Follows(d, r)
<1> DEFINE g == Register(d, r.blob, "Snapshot", r.utc)
           row == [blob |-> r.blob, revision |-> d.revision + 1]
           f == Set(d.snapshots, r.id, row)
           e == [g EXCEPT !.snapshots = f]
<1>t. /\ WritesFile(r) /\ r.blob \in Blobs /\ r.utc \in Nat /\ r.id \in SnapshotIds
      /\ d.revision \in Nat
  BY RequestsAreCalls, Zenon DEF IsRequest, WritesFile, Blobs, SnapshotIds, DbInv, IsDb
<1>0. /\ IsDb(g)
      /\ g.revision = d.revision + 1 /\ g.updated = r.utc
      /\ DOMAIN g.artifacts = DOMAIN d.artifacts \cup {r.blob}
      /\ g.artifacts[r.blob] = "Snapshot"
      /\ \A b \in DOMAIN d.artifacts : g.artifacts[b] = d.artifacts[b]
      /\ g.rows = d.rows /\ g.opRevision = d.opRevision
      /\ g.snapshots = d.snapshots /\ g.chunks = d.chunks
  BY <1>t, RegisterProperties DEF AcceptsSnapshot, DbInv, Entries
<1>a. After(d, r) = e
  <2>1. e = [g EXCEPT !.snapshots = Set(g.snapshots, r.id, row)]
    BY <1>0
  <2> QED BY <2>1 DEF After, AfterSnapshot
<1>1. /\ r.id \notin DOMAIN d.snapshots
      /\ DOMAIN f = DOMAIN d.snapshots \cup {r.id}
      /\ f[r.id] = row
      /\ \A x \in DOMAIN d.snapshots : f[x] = d.snapshots[x]
  BY Zenon DEF AcceptsSnapshot, Set
<1>2. IsMap(f, SnapshotIds, [blob : Blobs, revision : Nat])
  <2>1. row \in [blob : Blobs, revision : Nat]
    BY <1>t
  <2> QED BY <1>t, <2>1, SetIsMap, Zenon DEF DbInv, IsDb
<1>3. row.blob = r.blob /\ row.revision = d.revision + 1
  OBVIOUS
<1> HIDE DEF f, g, row
<1>4. e \in [revision : Nat, updated : Nat, artifacts : {g.artifacts}, rows : {g.rows},
             opRevision : Nat, snapshots : {f}, chunks : {g.chunks}]
  BY <1>0, Zenon DEF IsDb
<1>5. /\ e.revision = g.revision /\ e.updated = g.updated /\ e.artifacts = g.artifacts
      /\ e.rows = g.rows /\ e.opRevision = g.opRevision
      /\ e.snapshots = f /\ e.chunks = g.chunks
  BY <1>0 DEF IsDb
<1> HIDE DEF e
<1>6. IsDb(e)
  BY <1>0, <1>2, <1>4, <1>5, Zenon DEF IsDb
<1>7. RegistersEvidence(e)
  <2>1. r.blob \in DOMAIN d.artifacts => d.artifacts[r.blob] = "Snapshot"
    BY DEF AcceptsSnapshot, OtherEntry
  <2>2. DOMAIN e.chunks = {b \in DOMAIN e.artifacts : e.artifacts[b] = "Chunk"}
    BY <1>0, <1>5, <2>1 DEF DbInv, RegistersEvidence
  <2>3. \A s \in DOMAIN e.snapshots :
            /\ e.snapshots[s].blob \in DOMAIN e.artifacts
            /\ e.artifacts[e.snapshots[s].blob] = "Snapshot"
    BY <1>0, <1>1, <1>3, <1>5 DEF DbInv, RegistersEvidence
  <2>4. \A id \in DOMAIN e.rows : NamesMapSources(e, e.rows[id].op)
    BY <1>0, <1>5, SourcesStand DEF DbInv
  <2> QED BY <2>2, <2>3, <2>4, Zenon DEF RegistersEvidence
<1>8. DisjointChunks(e) /\ Contiguous(e) /\ Replayable(e)
  BY <1>0, <1>5 DEF DbInv, DisjointChunks, Contiguous, Replayable, OperationsOf
<1>9. Extends(d, e)
  BY <1>0, <1>1, <1>5, Zenon DEF Extends, AcceptsSnapshot
<1>10. \A b \in DOMAIN e.artifacts \ DOMAIN d.artifacts : WritesFile(r) /\ b = r.blob
  BY <1>t, <1>0, <1>5, Zenon
<1>11. OneMutationEach(e)
  <2>1. /\ e.revision = d.revision + 1 /\ e.chunks = d.chunks
        /\ \A s \in DOMAIN d.snapshots : d.snapshots[s].revision \in 1 .. d.revision
        /\ \A b \in DOMAIN d.chunks : d.chunks[b] \in 1 .. d.revision
    BY <1>0, <1>5, Zenon DEF DbInv, OneMutationEach
  <2>2. /\ DOMAIN e.snapshots = DOMAIN d.snapshots \cup {r.id}
        /\ e.snapshots[r.id].revision = d.revision + 1
        /\ \A s \in DOMAIN d.snapshots : e.snapshots[s] = d.snapshots[s]
    BY <1>1, <1>3, <1>5
  <2> QED BY <1>t, <2>1, <2>2 DEF DbInv, OneMutationEach
<1> QED BY <1>a, <1>6, <1>7, <1>8, <1>9, <1>10, <1>11 DEF Follows, DbInv

LEMMA ChunkFollows ==
    ASSUME NEW d, DbInv(d), NEW r \in Requests, r.kind = "Chunk", AcceptsChunk(d, r)
    PROVE  Follows(d, r)
<1> DEFINE g == Register(d, r.blob, "Chunk", r.utc)
           n == d.revision + 1
           f == Set(d.chunks, r.blob, n)
           e == [g EXCEPT !.chunks = f]
<1>t. /\ WritesFile(r) /\ r.blob \in Blobs /\ r.utc \in Nat
      /\ r.blob \notin DOMAIN d.artifacts
      /\ n \in Nat
  BY RequestsAreCalls DEF IsRequest, WritesFile, Blobs, DbInv, IsDb, AcceptsChunk
<1>0. /\ IsDb(g)
      /\ g.revision = d.revision + 1 /\ g.updated = r.utc
      /\ DOMAIN g.artifacts = DOMAIN d.artifacts \cup {r.blob}
      /\ g.artifacts[r.blob] = "Chunk"
      /\ \A b \in DOMAIN d.artifacts : g.artifacts[b] = d.artifacts[b]
      /\ g.rows = d.rows /\ g.opRevision = d.opRevision
      /\ g.snapshots = d.snapshots /\ g.chunks = d.chunks
  BY <1>t, RegisterProperties DEF AcceptsChunk, DbInv, Entries, OtherEntry
<1>a. After(d, r) = e
  <2>1. e = [g EXCEPT !.chunks = Set(g.chunks, r.blob, n)]
    BY <1>0, Zenon
  <2> QED BY <2>1 DEF After, AfterChunk
<1>1. /\ DOMAIN f = DOMAIN d.chunks \cup {r.blob}
      /\ r.blob \notin DOMAIN d.chunks
      /\ f[r.blob] = d.revision + 1
      /\ \A x \in DOMAIN d.chunks : f[x] = d.chunks[x]
  BY <1>t, Zenon DEF DbInv, RegistersEvidence, Set
<1>2. IsMap(f, Blobs, Nat)
  BY <1>t, SetIsMap DEF DbInv, IsDb
<1> HIDE DEF f, g, n
<1>4. e \in [revision : Nat, updated : Nat, artifacts : {g.artifacts}, rows : {g.rows},
             opRevision : Nat, snapshots : {g.snapshots}, chunks : {f}]
  BY <1>0, Zenon DEF IsDb
<1>5. /\ e.revision = g.revision /\ e.updated = g.updated /\ e.artifacts = g.artifacts
      /\ e.rows = g.rows /\ e.opRevision = g.opRevision
      /\ e.snapshots = g.snapshots /\ e.chunks = f
  BY <1>0 DEF IsDb
<1> HIDE DEF e
<1>6. IsDb(e)
  BY <1>0, <1>2, <1>4, <1>5 DEF IsDb
<1>7. RegistersEvidence(e)
  <2>2. DOMAIN e.chunks = {b \in DOMAIN e.artifacts : e.artifacts[b] = "Chunk"}
    BY <1>0, <1>1, <1>5 DEF DbInv, RegistersEvidence
  <2>3. \A s \in DOMAIN e.snapshots :
            /\ e.snapshots[s].blob \in DOMAIN e.artifacts
            /\ e.artifacts[e.snapshots[s].blob] = "Snapshot"
    BY <1>0, <1>5 DEF DbInv, RegistersEvidence
  <2>4. \A id \in DOMAIN e.rows : NamesMapSources(e, e.rows[id].op)
    BY <1>0, <1>5, SourcesStand DEF DbInv
  <2> QED BY <2>2, <2>3, <2>4, Zenon DEF RegistersEvidence
<1>8. DisjointChunks(e)
  <2>1. \A c \in DOMAIN d.chunks : Members[c] \cap Members[r.blob] = {}
    BY Zenon DEF AcceptsChunk
  <2> QED BY <1>1, <1>5, <2>1 DEF DbInv, DisjointChunks
<1>9. Contiguous(e) /\ Replayable(e)
  BY <1>0, <1>5 DEF DbInv, Contiguous, Replayable, OperationsOf
<1>10. Extends(d, e)
  BY <1>0, <1>1, <1>5, Zenon DEF Extends, AcceptsChunk
<1>11. \A b \in DOMAIN e.artifacts \ DOMAIN d.artifacts : WritesFile(r) /\ b = r.blob
  BY <1>t, <1>0, <1>5, Zenon
<1>12. OneMutationEach(e)
  <2>1. /\ e.revision = d.revision + 1 /\ e.snapshots = d.snapshots
        /\ d.revision \in Nat
        /\ \A s \in DOMAIN d.snapshots : d.snapshots[s].revision \in 1 .. d.revision
        /\ \A b \in DOMAIN d.chunks : d.chunks[b] \in 1 .. d.revision
    BY <1>0, <1>5, Zenon DEF DbInv, IsDb, OneMutationEach
  <2>2. /\ DOMAIN e.chunks = DOMAIN d.chunks \cup {r.blob}
        /\ e.chunks[r.blob] = d.revision + 1
        /\ \A b \in DOMAIN d.chunks : e.chunks[b] = d.chunks[b]
    BY <1>1, <1>5, Zenon
  <2> QED BY <2>1, <2>2 DEF DbInv, OneMutationEach
<1> QED BY <1>a, <1>6, <1>7, <1>8, <1>9, <1>10, <1>11, <1>12 DEF Follows, DbInv

LEMMA AcceptedFollows ==
    ASSUME NEW d, DbInv(d), NEW r \in Requests, Accepts(d, r)
    PROVE  Follows(d, r)
<1>1. CASE r.kind = "Recover"
  <2>1. After(d, r) = d
    BY <1>1 DEF After
  <2> QED BY <2>1, ExtendsItself DEF Follows, DbInv
<1> QED BY <1>1, PutFollows, AppendFollows, SnapshotFollows, ChunkFollows DEF Accepts

-----------------------------------------------------------------------------

(* A transaction works on an extension of the committed content that is    *)
(* the call's own effect on it, with all its artifact bytes on disk.  Only *)
(* a creator that was overtaken can replace its projection.                *)
TransactionInv ==
    \A h \in Writers :
        /\ request[h] \in Requests
        /\ work[h] = After(db, request[h])
        /\ DbInv(work[h])
        /\ Extends(db, work[h])
        /\ Accepts(db, request[h])
        /\ DOMAIN work[h].artifacts \subseteq files
        /\ stage[h] = "Projected" =>
            projection \in {{Manifest(work[h])}, {Manifest(NewDb)}}

OneWriter == \A g, h \in Writers : g = h

(* The bytes of a call are on disk before it asks for the lock.            *)
FileFirst ==
    \A h \in Handles :
        /\ stage[h] \in {"File", "Lock", "Read"} => request[h] \in Requests
        /\ stage[h] = "File" => WritesFile(request[h])
        /\ (stage[h] = "Lock" /\ WritesFile(request[h])) => request[h].blob \in files

(* Nothing commits while verify reads.                                     *)
ReaderInv == \A h \in Readers : work[h] = db

IInv ==
    /\ TypeOK
    /\ DbInv(db)
    /\ NoDanglingArtifact
    /\ ProjectionExactOrAhead
    /\ OneWriter
    /\ TransactionInv
    /\ FileFirst
    /\ ReaderInv

LEMMA InitIInv == Init => IInv
<1> SUFFICES ASSUME Init PROVE IInv
  OBVIOUS
<1>0. /\ db = NewDb /\ files = {} /\ projection = {} /\ hot = FALSE
      /\ stage \in [Handles -> Stages]
      /\ \A h \in Handles : stage[h] \in {"Creating", "Closed"}
      /\ request = [h \in Handles |-> NoCall]
      /\ work = [h \in Handles |-> NewDb]
      /\ reply = [h \in Handles |-> Silent]
  BY DEF Init, Stages
<1>1. DbInv(db) /\ IsDb(NewDb)
  BY <1>0, NewDbInv DEF DbInv
<1>2. Writers = {} /\ Readers = {}
  BY <1>0 DEF Writers, Readers
<1>3. TypeOK
  <2>1. \A h \in Handles : reply[h].tag \in Tags
    BY <1>0 DEF Silent, Tags
  <2>2. request \in [Handles -> Requests \cup {NoCall}]
    BY <1>0
  <2>3. DOMAIN work = Handles /\ \A h \in Handles : IsDb(work[h])
    BY <1>0, <1>1
  <2>4. DOMAIN reply = Handles
    BY <1>0
  <2> QED BY <1>0, <1>1, <2>1, <2>2, <2>3, <2>4, Zenon DEF TypeOK, DbInv
<1>4. NoDanglingArtifact
  BY <1>0 DEF NoDanglingArtifact, NewDb, EmptyMap
<1>5. ProjectionExactOrAhead
  BY <1>0 DEF ProjectionExactOrAhead
<1>6. OneWriter /\ TransactionInv /\ ReaderInv
  BY <1>2 DEF OneWriter, TransactionInv, ReaderInv
<1>7. FileFirst
  BY <1>0 DEF FileFirst
<1> QED BY <1>1, <1>3, <1>4, <1>5, <1>6, <1>7 DEF IInv

LEMMA ManifestType ==
    ASSUME NEW d, IsDb(d)
    PROVE  /\ Manifest(d).revision \in Nat /\ Manifest(d).updated \in Nat
           /\ IsMap(Manifest(d).artifacts, Blobs, Entries)
           /\ Manifest(d).revision = d.revision
BY DEF Manifest, IsDb

(* A call that ends leaves the invariant to the other handles.  If it      *)
(* committed or replaced the projection it was the only writer, and if it  *)
(* committed a change nobody was reading.                                  *)
LEMMA EndIInv ==
    ASSUME IInv, NEW h \in Handles, NEW s \in {"Idle", "Closed"}, NEW a, a.tag \in Tags,
           End(h, s, a), hot' \in BOOLEAN, files' = files,
           DbInv(db'), NoDanglingArtifact', ProjectionExactOrAhead',
           \A m \in projection' :
               m.revision \in Nat /\ m.updated \in Nat /\ IsMap(m.artifacts, Blobs, Entries),
           \/ UNCHANGED <<db, projection>>
           \/ Writers \subseteq {h} /\ (db' = db \/ Readers = {})
    PROVE  IInv'
<1>e. /\ stage' = [stage EXCEPT ![h] = s]
      /\ request' = [request EXCEPT ![h] = NoCall]
      /\ work' = [work EXCEPT ![h] = NewDb]
      /\ reply' = [reply EXCEPT ![h] = a]
  BY DEF End, Goto
<1>t. TypeOK
  BY Zenon DEF IInv
<1>1. TypeOK'
  <2>1. stage' \in [Handles -> Stages]
    BY <1>e, <1>t DEF TypeOK, Stages
  <2>2. request' \in [Handles -> Requests \cup {NoCall}]
    BY <1>e, <1>t DEF TypeOK
  <2>3. DOMAIN work' = Handles /\ \A g \in Handles : IsDb(work'[g])
    BY <1>e, <1>t, NewDbInv DEF TypeOK, DbInv
  <2>4. DOMAIN reply' = Handles /\ \A g \in Handles : reply'[g].tag \in Tags
    BY <1>e, <1>t DEF TypeOK
  <2> QED BY <1>t, <2>1, <2>2, <2>3, <2>4, Zenon DEF TypeOK, DbInv
<1>2. /\ Writers' = Writers \ {h}
      /\ Readers' = Readers \ {h}
      /\ \A g \in Handles \ {h} :
            stage'[g] = stage[g] /\ request'[g] = request[g] /\ work'[g] = work[g]
      /\ stage'[h] \in {"Idle", "Closed"}
  BY <1>e, <1>t, Zenon DEF TypeOK, Writers, Readers
<1>3. OneWriter'
  BY <1>2, Zenon DEF IInv, OneWriter
<1>4. TransactionInv'
  <2>1. CASE UNCHANGED <<db, projection>>
    <3> SUFFICES ASSUME NEW g \in Writers'
                 PROVE  /\ request'[g] \in Requests
                        /\ work'[g] = After(db', request'[g])
                        /\ DbInv(work'[g])
                        /\ Extends(db', work'[g])
                        /\ Accepts(db', request'[g])
                        /\ DOMAIN work'[g].artifacts \subseteq files'
                        /\ stage'[g] = "Projected" =>
                            projection' \in {{Manifest(work'[g])}, {Manifest(NewDb)}}
      BY Zenon DEF TransactionInv
    <3>1. g \in Writers /\ g \in Handles \ {h}
      BY <1>2, Zenon DEF Writers
    <3> QED BY <1>2, <2>1, <3>1, Zenon DEF IInv, TransactionInv
  <2>2. CASE Writers \subseteq {h}
    BY <1>2, <2>2, Zenon DEF TransactionInv
  <2> QED BY <2>1, <2>2, Zenon
<1>5. FileFirst'
  BY <1>2, Zenon DEF IInv, FileFirst
<1>6. ReaderInv'
  BY <1>2, Zenon DEF IInv, ReaderInv, Readers
<1> QED BY <1>1, <1>3, <1>4, <1>5, <1>6, Zenon DEF IInv

(* A step of one handle that changes neither the database nor the          *)
(* projection and moves it neither into a transaction nor out of a write.  *)
LEMMA QuietIInv ==
    ASSUME IInv, NEW h \in Handles, TypeOK', UNCHANGED <<db, projection, work>>,
           files \subseteq files',
           \A g \in Handles \ {h} : stage'[g] = stage[g] /\ request'[g] = request[g],
           stage[h] \notin {"Prepared", "Projected"},
           stage'[h] \notin {"Prepared", "Projected", "Verifying"},
           /\ stage'[h] \in {"File", "Lock", "Read"} => request'[h] \in Requests
           /\ stage'[h] = "File" => WritesFile(request'[h])
           /\ (stage'[h] = "Lock" /\ WritesFile(request'[h])) => request'[h].blob \in files'
    PROVE  IInv'
<1>1. Writers' = Writers /\ Readers' \subseteq Readers
  BY Zenon DEF Writers, Readers
<1>2. \A g \in Writers :
            /\ g \in Handles \ {h}
            /\ stage'[g] = stage[g] /\ request'[g] = request[g]
  BY Zenon DEF Writers
<1>3. OneWriter'
  BY <1>1, Zenon DEF IInv, OneWriter
<1>4. TransactionInv'
  <2> SUFFICES ASSUME NEW g \in Writers
               PROVE  /\ request'[g] \in Requests
                      /\ work'[g] = After(db', request'[g])
                      /\ DbInv(work'[g])
                      /\ Extends(db', work'[g])
                      /\ Accepts(db', request'[g])
                      /\ DOMAIN work'[g].artifacts \subseteq files'
                      /\ stage'[g] = "Projected" =>
                          projection' \in {{Manifest(work'[g])}, {Manifest(NewDb)}}
    BY <1>1, Zenon DEF TransactionInv
  <2> QED BY <1>2, Zenon DEF IInv, TransactionInv
<1>5. FileFirst'
  BY Zenon DEF IInv, FileFirst
<1>6. ReaderInv'
  BY <1>1, Zenon DEF IInv, ReaderInv
<1>7. DbInv(db') /\ NoDanglingArtifact' /\ ProjectionExactOrAhead'
  BY Zenon DEF IInv, NoDanglingArtifact, ProjectionExactOrAhead
<1> QED BY <1>3, <1>4, <1>5, <1>6, <1>7, Zenon DEF IInv

LEMMA CallIInv ==
    ASSUME IInv, NEW h \in Handles, NEW r \in Requests, Call(h, r)
    PROVE  IInv'
<1>t. TypeOK
  BY DEF IInv
<1>1. /\ stage[h] = "Idle"
      /\ stage' = [stage EXCEPT ![h] = stage'[h]]
      /\ stage'[h] \in {"File", "Read", "Lock"}
      /\ stage'[h] = "File" <=> WritesFile(r)
      /\ request' = [request EXCEPT ![h] = r]
      /\ reply' = [reply EXCEPT ![h] = Silent]
      /\ UNCHANGED <<files, db, projection, hot, work>>
  BY <1>t DEF Call, Goto, TypeOK
<1>2. TypeOK'
  <2>1. stage' \in [Handles -> Stages]
    BY <1>t, <1>1, Zenon DEF TypeOK, Stages
  <2>2. request' \in [Handles -> Requests \cup {NoCall}]
    BY <1>t, <1>1, Zenon DEF TypeOK
  <2>3. DOMAIN reply' = Handles /\ \A g \in Handles : reply'[g].tag \in Tags
    BY <1>t, <1>1, Zenon DEF TypeOK, Silent, Tags
  <2> QED BY <1>t, <1>1, <2>1, <2>2, <2>3, Zenon DEF TypeOK
<1>3. \A g \in Handles \ {h} : stage'[g] = stage[g] /\ request'[g] = request[g]
  BY <1>t, <1>1, Zenon DEF TypeOK
<1>4. request'[h] = r
  BY <1>t, <1>1, Zenon DEF TypeOK
<1> QED BY <1>1, <1>2, <1>3, <1>4, QuietIInv

LEMMA WriteFileIInv ==
    ASSUME IInv, NEW h \in Handles, WriteFile(h)
    PROVE  IInv'
<1>t. TypeOK /\ FileFirst
  BY DEF IInv
<1>1. /\ stage[h] = "File"
      /\ stage' = [stage EXCEPT ![h] = "Lock"]
      /\ files' = files \cup {request[h].blob}
      /\ UNCHANGED <<db, projection, hot, request, work, reply>>
  BY DEF WriteFile, Goto
<1>2. request[h] \in Requests /\ request[h].blob \in Blobs
  BY <1>t, <1>1, Zenon DEF FileFirst, Blobs
<1>3. TypeOK'
  BY <1>t, <1>1, <1>2, Zenon DEF TypeOK, Stages
<1>4. stage'[h] = "Lock" /\ \A g \in Handles \ {h} : stage'[g] = stage[g]
  BY <1>t, <1>1, Zenon DEF TypeOK
<1> QED BY <1>1, <1>2, <1>3, <1>4, QuietIInv, Zenon

LEMMA OpenIInv ==
    ASSUME IInv, NEW h \in Handles, Open(h) \/ OpenRefused(h)
    PROVE  IInv'
<1>t. TypeOK
  BY Zenon DEF IInv
<1>1. /\ stage[h] = "Closed"
      /\ stage'[h] \in {"Idle", "Closed"}
      /\ stage' \in [Handles -> Stages]
      /\ \A g \in Handles \ {h} : stage'[g] = stage[g]
      /\ UNCHANGED <<files, db, projection, hot, request, work>>
  BY <1>t, Zenon DEF Open, OpenRefused, Goto, TypeOK, Stages
<1>2. DOMAIN reply' = Handles /\ \A g \in Handles : reply'[g].tag \in Tags
  BY <1>t DEF Open, OpenRefused, TypeOK, Failure, Tags
<1>3. TypeOK'
  BY <1>t, <1>1, <1>2, Zenon DEF TypeOK
<1> QED BY <1>1, <1>3, QuietIInv, Zenon

LEMMA FinishCreateIInv ==
    ASSUME IInv, NEW h \in Handles, FinishCreate(h)
    PROVE  IInv'
<1>t. TypeOK
  BY DEF IInv
<1>1. /\ stage[h] = "Creating"
      /\ stage' = [stage EXCEPT ![h] = "Idle"]
      /\ projection' = {Manifest(NewDb)}
      /\ UNCHANGED <<files, db, hot, request, work, reply>>
  BY Zenon DEF FinishCreate, Goto
<1>2. /\ Writers' = Writers /\ Readers' = Readers
      /\ \A g \in Handles \ {h} : stage'[g] = stage[g]
      /\ stage'[h] = "Idle"
  BY <1>t, <1>1, Zenon DEF TypeOK, Writers, Readers
<1>3. TypeOK'
  <2>1. IsDb(NewDb)
    BY NewDbInv DEF DbInv
  <2>2. \A m \in projection' :
            m.revision \in Nat /\ m.updated \in Nat /\ IsMap(m.artifacts, Blobs, Entries)
    BY <1>1, <2>1, ManifestType
  <2>3. stage' \in [Handles -> Stages]
    BY <1>t, <1>1, Zenon DEF TypeOK, Stages
  <2> QED BY <1>t, <1>1, <2>2, <2>3, Zenon DEF TypeOK
<1>4. ProjectionExactOrAhead'
  BY <1>1 DEF ProjectionExactOrAhead
<1>5. OneWriter' /\ ReaderInv'
  BY <1>1, <1>2, Zenon DEF IInv, OneWriter, ReaderInv
<1>6. TransactionInv'
  BY <1>1, <1>2, Zenon DEF IInv, TransactionInv
<1>7. FileFirst' /\ NoDanglingArtifact' /\ DbInv(db')
  BY <1>1, <1>2, Zenon DEF IInv, FileFirst, NoDanglingArtifact
<1> QED BY <1>3, <1>4, <1>5, <1>6, <1>7 DEF IInv

LEMMA PrepareIInv ==
    ASSUME IInv, NEW h \in Handles, Prepare(h)
    PROVE  IInv'
<1>t. TypeOK /\ FileFirst /\ DbInv(db) /\ NoDanglingArtifact
  BY DEF IInv
<1> DEFINE r == request[h]
           e == After(db, r)
<1>1. /\ stage[h] = "Lock" /\ Writers = {}
      /\ Accepts(db, r)
      /\ stage' = [stage EXCEPT ![h] = "Prepared"]
      /\ work' = [work EXCEPT ![h] = e]
      /\ hot' = FALSE
      /\ UNCHANGED <<files, db, projection, request, reply>>
  BY Zenon DEF Prepare, Goto, LockFree
<1>2. r \in Requests /\ (WritesFile(r) => r.blob \in files)
  BY <1>t, <1>1, Zenon DEF FileFirst
<1>3. Follows(db, r)
  BY <1>t, <1>1, <1>2, AcceptedFollows, Zenon
<1>4. DOMAIN e.artifacts \subseteq files
  BY <1>t, <1>2, <1>3 DEF Follows, NoDanglingArtifact
<1>5. DbInv(e) /\ Extends(db, e) /\ IsDb(e)
  BY <1>3, Zenon DEF Follows, DbInv
<1> HIDE DEF e, r
<1>6. /\ Writers' = {h} /\ Readers' = Readers /\ h \notin Readers
      /\ \A g \in Handles \ {h} : stage'[g] = stage[g] /\ work'[g] = work[g]
      /\ stage'[h] = "Prepared" /\ work'[h] = e /\ request'[h] = r
  BY <1>t, <1>1, Zenon DEF TypeOK, Writers, Readers, r
<1>7. TypeOK'
  <2>1. stage' \in [Handles -> Stages]
    BY <1>t, <1>1 DEF TypeOK, Stages
  <2>2. DOMAIN work' = Handles /\ \A g \in Handles : IsDb(work'[g])
    BY <1>t, <1>1, <1>5, <1>6, Zenon DEF TypeOK
  <2> QED BY <1>t, <1>1, <2>1, <2>2, Zenon DEF TypeOK
<1>8. OneWriter'
  BY <1>6, Zenon DEF OneWriter
<1>9. TransactionInv'
  BY <1>1, <1>2, <1>4, <1>5, <1>6, Zenon DEF TransactionInv, e
<1>10. FileFirst'
  BY <1>t, <1>1, <1>6 DEF FileFirst
<1>11. ReaderInv'
  BY <1>1, <1>6, Zenon DEF IInv, ReaderInv, Readers
<1>12. DbInv(db') /\ NoDanglingArtifact' /\ ProjectionExactOrAhead'
  BY <1>1 DEF IInv, NoDanglingArtifact, ProjectionExactOrAhead
<1> QED BY <1>7, <1>8, <1>9, <1>10, <1>11, <1>12 DEF IInv

LEMMA ProjectIInv ==
    ASSUME IInv, NEW h \in Handles, Project(h)
    PROVE  IInv'
<1>t. TypeOK /\ FileFirst /\ OneWriter /\ TransactionInv
  BY DEF IInv
<1>1. /\ stage[h] = "Prepared"
      /\ stage' = [stage EXCEPT ![h] = "Projected"]
      /\ projection' = {Manifest(work[h])}
      /\ UNCHANGED <<files, db, hot, request, work, reply>>
  BY DEF Project, Goto
<1>2. h \in Writers /\ Writers = {h}
  BY <1>t, <1>1, Zenon DEF Writers, OneWriter
<1>3. DbInv(work[h]) /\ Extends(db, work[h])
  BY <1>t, <1>2, Zenon DEF TransactionInv
<1>4. /\ Writers' = Writers /\ Readers' = Readers
      /\ \A g \in Handles \ {h} : stage'[g] = stage[g]
      /\ stage'[h] = "Projected"
  BY <1>t, <1>1, Zenon DEF TypeOK, Writers, Readers
<1>5. TypeOK'
  <2>1. stage' \in [Handles -> Stages]
    BY <1>t, <1>1, Zenon DEF TypeOK, Stages
  <2>2. \A m \in projection' :
            m.revision \in Nat /\ m.updated \in Nat /\ IsMap(m.artifacts, Blobs, Entries)
    BY <1>1, <1>3, ManifestType, Zenon DEF DbInv
  <2> QED BY <1>t, <1>1, <2>1, <2>2, Zenon DEF TypeOK
<1>6. ProjectionExactOrAhead'
  BY <1>1, <1>3, ManifestType, Zenon DEF ProjectionExactOrAhead, Extends, DbInv
<1>7. OneWriter' /\ ReaderInv'
  BY <1>1, <1>4 DEF IInv, OneWriter, ReaderInv
<1>8. TransactionInv'
  BY <1>t, <1>1, <1>2, <1>4, Zenon DEF TransactionInv
<1>9. FileFirst' /\ NoDanglingArtifact' /\ DbInv(db')
  BY <1>1, <1>4, Zenon DEF IInv, FileFirst, NoDanglingArtifact
<1> QED BY <1>5, <1>6, <1>7, <1>8, <1>9 DEF IInv

LEMMA VerifyReadIInv ==
    ASSUME IInv, NEW h \in Handles, VerifyRead(h)
    PROVE  IInv'
<1>t. TypeOK /\ FileFirst /\ DbInv(db)
  BY DEF IInv
<1>1. /\ stage[h] = "Read"
      /\ stage' = [stage EXCEPT ![h] = "Verifying"]
      /\ work' = [work EXCEPT ![h] = db]
      /\ hot' = FALSE
      /\ UNCHANGED <<files, db, projection, request, reply>>
  BY Zenon DEF VerifyRead, Goto
<1>2. /\ Writers' = Writers /\ Readers' = Readers \cup {h} /\ h \notin Writers
      /\ \A g \in Handles \ {h} : stage'[g] = stage[g] /\ work'[g] = work[g]
      /\ stage'[h] = "Verifying" /\ work'[h] = db
  BY <1>t, <1>1, Zenon DEF TypeOK, Writers, Readers
<1>3. TypeOK'
  <2>1. stage' \in [Handles -> Stages]
    BY <1>t, <1>1, Zenon DEF TypeOK, Stages
  <2>2. DOMAIN work' = Handles /\ \A g \in Handles : IsDb(work'[g])
    BY <1>t, <1>1, <1>2, Zenon DEF TypeOK, DbInv
  <2> QED BY <1>t, <1>1, <2>1, <2>2, Zenon DEF TypeOK
<1>4. OneWriter'
  BY <1>2, Zenon DEF IInv, OneWriter
<1>5. TransactionInv'
  <2> SUFFICES ASSUME NEW g \in Writers
               PROVE  /\ request'[g] \in Requests
                      /\ work'[g] = After(db', request'[g])
                      /\ DbInv(work'[g])
                      /\ Extends(db', work'[g])
                      /\ Accepts(db', request'[g])
                      /\ DOMAIN work'[g].artifacts \subseteq files'
                      /\ stage'[g] = "Projected" =>
                          projection' \in {{Manifest(work'[g])}, {Manifest(NewDb)}}
    BY <1>2, Zenon DEF TransactionInv
  <2>1. g \in Handles \ {h}
    BY <1>2, Zenon DEF Writers
  <2> QED BY <1>1, <1>2, <2>1, Zenon DEF IInv, TransactionInv
<1>6. ReaderInv'
  <2>1. \A g \in Readers : g \in Handles
    BY DEF Readers
  <2> QED BY <1>1, <1>2, <2>1 DEF IInv, ReaderInv
<1>7. FileFirst'
  BY <1>t, <1>1, <1>2, Zenon DEF FileFirst
<1>8. DbInv(db') /\ NoDanglingArtifact' /\ ProjectionExactOrAhead'
  BY <1>1 DEF IInv, NoDanglingArtifact, ProjectionExactOrAhead
<1> QED BY <1>3, <1>4, <1>5, <1>6, <1>7, <1>8 DEF IInv

LEMMA VerifyCompareIInv ==
    ASSUME IInv, NEW h \in Handles, VerifyCompare(h)
    PROVE  IInv'
<1>t. TypeOK
  BY DEF IInv
<1>1. PICK s \in {"Compared", "Suspect"} : stage' = [stage EXCEPT ![h] = s]
  BY Zenon DEF VerifyCompare, Goto
<1>2. /\ stage[h] = "Verifying"
      /\ UNCHANGED <<files, db, projection, hot, request, work, reply>>
  BY Zenon DEF VerifyCompare
<1>3. TypeOK'
  BY <1>t, <1>1, <1>2, Zenon DEF TypeOK, Stages
<1>4. stage'[h] = s /\ \A g \in Handles \ {h} : stage'[g] = stage[g]
  BY <1>t, <1>1, Zenon DEF TypeOK
<1> QED BY <1>2, <1>3, <1>4, QuietIInv, Zenon

(* The endings that leave the bundle as it is.                             *)
LEMMA ReturnIInv ==
    ASSUME IInv, NEW h \in Handles,
           \/ AnswerDuplicate(h) \/ Refuse(h) \/ LockTimeout(h) \/ Abort(h)
           \/ CommitTimeout(h) \/ VerifyReport(h) \/ Crash(h) \/ CrashInCommit(h)
    PROVE  IInv'
<1>1. PICK s \in {"Idle", "Closed"} : \E a : a.tag \in Tags /\ End(h, s, a)
  <2>1. CASE Crash(h) \/ CrashInCommit(h)
    BY <2>1 DEF Crash, CrashInCommit, Die, Silent, Tags
  <2>2. CASE AnswerDuplicate(h)
    BY <2>2 DEF AnswerDuplicate, Return, Receipt, Tags
  <2>3. CASE Refuse(h) \/ LockTimeout(h)
    BY <2>3 DEF Refuse, LockTimeout, Return, Failure, Tags
  <2>4. CASE Abort(h) \/ CommitTimeout(h)
    BY <2>4 DEF Abort, CommitTimeout, Return, Failure, Tags
  <2>5. CASE VerifyReport(h)
    BY <2>5 DEF VerifyReport, Return, Receipt, Failure, Tags
  <2> QED BY <2>1, <2>2, <2>3, <2>4, <2>5, Zenon
<1>2. PICK a : a.tag \in Tags /\ End(h, s, a)
  BY <1>1, Zenon
<1>3. UNCHANGED <<files, db, projection>> /\ hot' \in BOOLEAN
  BY Zenon DEF IInv, TypeOK, AnswerDuplicate, Refuse, LockTimeout, Abort, CommitTimeout,
         VerifyReport, Crash, CrashInCommit
<1>4. DbInv(db') /\ NoDanglingArtifact' /\ ProjectionExactOrAhead'
  BY <1>3, Zenon DEF IInv, NoDanglingArtifact, ProjectionExactOrAhead
<1>5. \A m \in projection' :
        m.revision \in Nat /\ m.updated \in Nat /\ IsMap(m.artifacts, Blobs, Entries)
  BY <1>3, Zenon DEF IInv, TypeOK
<1> QED BY <1>2, <1>3, <1>4, <1>5, EndIInv, Zenon

LEMMA ProjectUnsyncedIInv ==
    ASSUME IInv, NEW h \in Handles, ProjectUnsynced(h)
    PROVE  IInv'
<1> DEFINE a == Failure(request[h], "Failed")
<1>1. /\ stage[h] = "Prepared"
      /\ projection' = {Manifest(work[h])}
      /\ End(h, "Idle", a) /\ a.tag \in Tags
      /\ UNCHANGED <<files, db, hot>>
  BY Zenon DEF ProjectUnsynced, Return, Failure, Tags
<1> HIDE DEF a
<1>2. Writers = {h}
  BY <1>1, Zenon DEF IInv, Writers, OneWriter
<1>3. DbInv(work[h]) /\ Extends(db, work[h])
  BY <1>2, Zenon DEF IInv, TransactionInv
<1>4. \A m \in projection' :
        m.revision \in Nat /\ m.updated \in Nat /\ IsMap(m.artifacts, Blobs, Entries)
  BY <1>1, <1>3, ManifestType, Zenon DEF DbInv
<1>5. ProjectionExactOrAhead'
  BY <1>1, <1>3, ManifestType, Zenon DEF ProjectionExactOrAhead, Extends, DbInv
<1>6. DbInv(db') /\ NoDanglingArtifact' /\ hot' \in BOOLEAN
  BY <1>1, Zenon DEF IInv, TypeOK, NoDanglingArtifact
<1> QED BY <1>1, <1>2, <1>4, <1>5, <1>6, EndIInv, Zenon

(* A transaction becomes the committed content.                            *)
LEMMA CommitFacts ==
    ASSUME IInv, NEW h \in Handles, Commit(h) \/ CrashAfterCommit(h)
    PROVE  /\ Writers = {h} /\ db' = work[h]
           /\ request[h] \in Requests /\ work[h] = After(db, request[h])
           /\ Accepts(db, request[h])
           /\ DbInv(db') /\ Extends(db, db')
           /\ (db' = db \/ Readers = {})
           /\ UNCHANGED <<files, projection, hot>>
           /\ NoDanglingArtifact' /\ ProjectionExactOrAhead'
<1>1. /\ stage[h] = "Projected" /\ CanCommit(h)
      /\ db' = work[h]
      /\ UNCHANGED <<files, projection, hot>>
  BY Zenon DEF Commit, CrashAfterCommit
<1>2. Writers = {h}
  BY <1>1, Zenon DEF IInv, Writers, OneWriter
<1>3. /\ request[h] \in Requests /\ work[h] = After(db, request[h])
      /\ DbInv(work[h]) /\ Extends(db, work[h])
      /\ Accepts(db, request[h])
      /\ DOMAIN work[h].artifacts \subseteq files
      /\ projection \in {{Manifest(work[h])}, {Manifest(NewDb)}}
  BY <1>1, <1>2, Zenon DEF IInv, TransactionInv
<1>4. db' = db \/ Readers = {}
  <2>1. CASE request[h].kind = "Recover"
    BY <1>1, <1>3, <2>1, Zenon DEF After
  <2> QED BY <1>1, <2>1, Zenon DEF CanCommit
<1>5. NoDanglingArtifact'
  BY <1>1, <1>3, Zenon DEF NoDanglingArtifact
<1>6. ProjectionExactOrAhead'
  BY <1>1, <1>3, Zenon DEF ProjectionExactOrAhead
<1> QED BY <1>1, <1>2, <1>3, <1>4, <1>5, <1>6, Zenon

LEMMA CommitIInv ==
    ASSUME IInv, NEW h \in Handles, Commit(h) \/ CrashAfterCommit(h)
    PROVE  IInv'
<1>1. PICK s \in {"Idle", "Closed"} : \E a : a.tag \in Tags /\ End(h, s, a)
  <2> DEFINE done == Receipt(work[h], request[h], "Done")
  <2>1. done.tag \in Tags /\ Silent.tag \in Tags
    BY Zenon DEF Receipt, Silent, Tags
  <2>2. End(h, "Idle", done) \/ End(h, "Closed", Silent)
    BY Zenon DEF Commit, CrashAfterCommit, Return, Die
  <2> HIDE DEF done
  <2> QED BY <2>1, <2>2
<1>2. PICK a : a.tag \in Tags /\ End(h, s, a)
  BY <1>1
<1>3. /\ Writers = {h} /\ (db' = db \/ Readers = {})
      /\ DbInv(db') /\ NoDanglingArtifact' /\ ProjectionExactOrAhead'
      /\ UNCHANGED <<files, projection, hot>>
  BY CommitFacts, Zenon
<1>4. hot' \in BOOLEAN /\ \A m \in projection' :
        m.revision \in Nat /\ m.updated \in Nat /\ IsMap(m.artifacts, Blobs, Entries)
  BY <1>3, Zenon DEF IInv, TypeOK
<1> QED BY <1>2, <1>3, <1>4, EndIInv, Zenon

LEMMA NextIInv == IInv /\ [Next]_vars => IInv'
<1> SUFFICES ASSUME IInv, [Next]_vars PROVE IInv'
  OBVIOUS
<1>1. CASE UNCHANGED vars
  <2>1. UNCHANGED Writers /\ UNCHANGED Readers
    BY <1>1, Zenon DEF vars, Writers, Readers
  <2>2. TypeOK' /\ DbInv(db') /\ NoDanglingArtifact' /\ ProjectionExactOrAhead'
    BY <1>1, Zenon DEF IInv, vars, TypeOK, NoDanglingArtifact, ProjectionExactOrAhead
  <2>3. OneWriter' /\ TransactionInv' /\ FileFirst' /\ ReaderInv'
    BY <1>1, <2>1, Zenon DEF IInv, vars, OneWriter, TransactionInv, FileFirst, ReaderInv
  <2> QED BY <2>2, <2>3 DEF IInv
<1>2. ASSUME NEW h \in Handles, Step(h) PROVE IInv'
  BY <1>2, FinishCreateIInv, WriteFileIInv, ReturnIInv, PrepareIInv, ProjectIInv,
     CommitIInv, VerifyReadIInv, VerifyCompareIInv, Zenon DEF Step
<1>3. ASSUME NEW h \in Handles, \E r \in Requests : Call(h, r) PROVE IInv'
  BY <1>3, CallIInv
<1>4. ASSUME NEW h \in Handles,
             \/ Open(h) \/ OpenRefused(h) \/ Abort(h) \/ ProjectUnsynced(h)
             \/ Crash(h) \/ CrashInCommit(h) \/ CrashAfterCommit(h)
      PROVE IInv'
  BY <1>4, OpenIInv, ReturnIInv, ProjectUnsyncedIInv, CommitIInv
<1> QED BY <1>1, <1>2, <1>3, <1>4 DEF Next

LEMMA InvariantHolds == Spec => []IInv
BY InitIInv, NextIInv, PTL DEF Spec

(* The committed database changes only by a commit.                        *)
LEMMA OnlyCommitsChangeDb ==
    ASSUME IInv, [Next]_vars, db' # db
    PROVE  \E h \in Handles : Commit(h) \/ CrashAfterCommit(h)
BY Zenon DEF Next, Step, vars, FinishCreate, WriteFile, AnswerDuplicate, Refuse, Prepare,
       LockTimeout, Project, CommitTimeout, VerifyRead, VerifyCompare, VerifyReport, Open, OpenRefused,
       Call, Abort, ProjectUnsynced, Crash, CrashInCommit

-----------------------------------------------------------------------------
(* What the invariant gives                                                *)

(* Every reachable state of the bundle and its processes is well typed.    *)
THEOREM BundleTypeCorrect == Spec => []TypeOK
<1>1. IInv => TypeOK
  BY DEF IInv
<1> QED BY <1>1, InvariantHolds, PTL

(* put_artifact, save and publish write and sync bytes before they take    *)
(* the lock: whoever crashes, no registered artifact lacks its bytes.      *)
THEOREM ArtifactsNeverDangle == Spec => []NoDanglingArtifact
<1>1. IInv => NoDanglingArtifact
  BY DEF IInv
<1> QED BY <1>1, InvariantHolds, PTL

(* Rows never outlive or precede their evidence: each publication enters   *)
(* its artifact and its row in one transaction, and an appended operation  *)
(* finds the map sources it names registered as map sources.               *)
THEOREM EvidenceAlwaysRegistered == Spec => []EvidenceRegistered
<1>1. IInv => EvidenceRegistered
  BY DEF IInv, DbInv, EvidenceRegistered
<1> QED BY <1>1, InvariantHolds, PTL

(* Concurrent publishers never put one observation in two chunks.          *)
THEOREM ObservationsNeverShared == Spec => []ObservationInOneChunk
<1>1. IInv => ObservationInOneChunk
  BY DEF IInv, DbInv, ObservationInOneChunk
<1> QED BY <1>1, InvariantHolds, PTL

(* The operation rows are always 1 .. project_revision, parents first.     *)
THEOREM RevisionsAlwaysContiguous == Spec => []RevisionsContiguous
<1>1. IInv => RevisionsContiguous
  BY DEF IInv, DbInv, RevisionsContiguous
<1> QED BY <1>1, InvariantHolds, PTL

(* A bundle revision recorded by a snapshot or a chunk is recorded by no   *)
(* other: each publication takes the revision of its own commit.           *)
THEOREM RevisionsNameOneMutation == Spec => []RevisionNamesOneMutation
<1>1. IInv => RevisionNamesOneMutation
  BY DEF IInv, DbInv, RevisionNamesOneMutation
<1> QED BY <1>1, InvariantHolds, PTL

(* manifest.json is replaced under the writer lock and before the commit:  *)
(* it is exact, one revision ahead, or create's initial one.               *)
THEOREM ProjectionNeverBehind == Spec => []ProjectionExactOrAhead
<1>1. IInv => ProjectionExactOrAhead
  BY DEF IInv
<1> QED BY <1>1, InvariantHolds, PTL

(* Committed evidence is immutable and a change takes one revision.        *)
THEOREM CommittedIsImmutable == Spec => CommitsOnlyAdd
<1>1. IInv /\ [Next]_vars => [Extends(db, db')]_vars
  <2> SUFFICES ASSUME IInv, [Next]_vars PROVE Extends(db, db')
    OBVIOUS
  <2>1. CASE db' = db
    BY <2>1, ExtendsItself DEF IInv, DbInv
  <2>2. CASE db' # db
    BY <2>2, OnlyCommitsChangeDb, CommitFacts, Zenon
  <2> QED BY <2>1, <2>2
<1> QED BY <1>1, InvariantHolds, PTL DEF Spec, CommitsOnlyAdd

(* An append built on a project revision commits only on that revision.    *)
THEOREM OptimisticAppend == Spec => StaleAppendNeverCommits
<1> DEFINE Fresh == \A id \in DOMAIN db'.rows \ DOMAIN db.rows :
                      \E h \in Handles :
                        /\ request[h].kind = "Append"
                        /\ request[h].op.id = id
                        /\ \A e \in request[h].expected : e = db.opRevision
<1>1. IInv /\ [Next]_vars => [Fresh]_vars
  <2> SUFFICES ASSUME IInv, [Next]_vars, NEW id \in DOMAIN db'.rows \ DOMAIN db.rows
               PROVE  \E h \in Handles :
                        /\ request[h].kind = "Append"
                        /\ request[h].op.id = id
                        /\ \A e \in request[h].expected : e = db.opRevision
    OBVIOUS
  <2>1. PICK h \in Handles : Commit(h) \/ CrashAfterCommit(h)
    BY OnlyCommitsChangeDb
  <2>2. /\ db' = After(db, request[h]) /\ Accepts(db, request[h])
        /\ request[h] \in Requests /\ IsDb(db)
    BY <2>1, CommitFacts, Zenon DEF IInv, TypeOK
  <2>3. request[h].kind = "Append"
    <3> SUFFICES ASSUME request[h].kind # "Append" PROVE db'.rows = db.rows
      OBVIOUS
    <3> QED BY <2>2, Zenon DEF After, AfterPut, AfterSnapshot, AfterChunk, Register, Accepts, IsDb
  <2>4. /\ db' = AfterAppend(db, request[h])
        /\ AcceptsAppend(db, request[h])
    BY <2>2, <2>3 DEF After, Accepts
  <2>5. DOMAIN db'.rows = DOMAIN db.rows \cup {request[h].op.id}
    BY <2>2, <2>4 DEF AfterAppend, Set, IsDb
  <2>6. \A e \in request[h].expected : e = db.opRevision
    BY <2>4, Zenon DEF AcceptsAppend, Stale
  <2> QED BY <2>3, <2>5, <2>6, Zenon
<1> QED BY <1>1, InvariantHolds, PTL DEF Spec, StaleAppendNeverCommits

(* What verify checks of the tables holds of every content.                *)
LEMMA TablesAlwaysSound == ASSUME NEW d, DbInv(d) PROVE TablesSound(d)
<1>1. OperationsSound(d)
  BY Zenon DEF DbInv, Contiguous, OperationsSound
<1>2. SnapshotsSound(d) /\ ChunksSound(d)
  BY Zenon DEF DbInv, RegistersEvidence, OneMutationEach, SnapshotsSound, ChunksSound
<1> QED BY <1>1, <1>2 DEF TablesSound

(* verify's deferred transaction keeps writers from committing between its *)
(* two reads, and commits after it leave the tables sound: a sound report  *)
(* is about a committed manifest, and no sound bundle is accused.          *)
THEOREM SoundReportsAreCurrent == Spec => SoundMeansCurrent
<1> DEFINE Current == \A h \in Handles :
        /\ (stage[h] = "Verifying" /\ stage'[h] = "Compared") =>
                projection = {Manifest(db)} /\ DOMAIN db.artifacts \subseteq files
        /\ (stage[h] = "Compared" /\ stage'[h] = "Idle") => reply'[h].tag = "Sound"
<1>1. IInv /\ [Next]_vars => [Current]_vars
  <2> SUFFICES ASSUME IInv, [Next]_vars, vars' # vars, NEW h \in Handles,
                      \/ stage[h] = "Verifying" /\ stage'[h] = "Compared"
                      \/ stage[h] = "Compared" /\ stage'[h] = "Idle"
               PROVE  /\ stage[h] = "Verifying" =>
                            projection = {Manifest(db)} /\ DOMAIN db.artifacts \subseteq files
                      /\ stage[h] = "Compared" => reply'[h].tag = "Sound"
    BY Zenon
  <2>1. TypeOK /\ DbInv(db)
    BY Zenon DEF IInv
  <2>2. PICK g \in Handles :
          \/ Step(g)
          \/ Open(g) \/ OpenRefused(g)
          \/ \E r \in Requests : Call(g, r)
          \/ Abort(g) \/ ProjectUnsynced(g)
          \/ Crash(g) \/ CrashInCommit(g) \/ CrashAfterCommit(g)
    BY Zenon DEF Next
  <2>3. \E s \in Stages : stage' = [stage EXCEPT ![g] = s] \/ stage' = stage
    BY <2>2, Zenon DEF Step, FinishCreate, WriteFile, AnswerDuplicate, Refuse, Prepare,
       LockTimeout, Project, CommitTimeout, VerifyRead, VerifyCompare, VerifyReport, Open,
       OpenRefused, Call, Abort, ProjectUnsynced, Crash, CrashInCommit, Commit,
       CrashAfterCommit, Return, Die, End, Goto, Stages
  <2>4. g = h
    BY <2>1, <2>3, Zenon DEF TypeOK
  <2>5. VerifyCompare(h) \/ VerifyReport(h) \/ Crash(h)
    BY <2>2, <2>4, Zenon DEF Step, FinishCreate, WriteFile, AnswerDuplicate, Refuse, Prepare,
       LockTimeout, Project, CommitTimeout, VerifyRead, Open, OpenRefused,
       Call, Abort, ProjectUnsynced, CrashInCommit, Commit, CrashAfterCommit
  <2>6. VerifyCompare(h) \/ VerifyReport(h)
    BY <2>1, <2>5, Zenon DEF Crash, Die, End, Goto, TypeOK
  <2>7. ASSUME stage[h] = "Verifying"
        PROVE  projection = {Manifest(db)} /\ DOMAIN db.artifacts \subseteq files
    <3>1. work[h] = db
      BY <2>7, Zenon DEF IInv, ReaderInv, Readers
    <3>2. VerifyCompare(h) /\ stage'[h] = "Compared"
      BY <2>6, <2>7, Zenon DEF VerifyReport
    <3>3. stage'[h] = IF /\ projection = {Manifest(work[h])}
                         /\ DOMAIN work[h].artifacts \subseteq files
                      THEN "Compared" ELSE "Suspect"
      BY <2>1, <3>2, Zenon DEF VerifyCompare, Goto, TypeOK
    <3> QED BY <3>1, <3>2, <3>3, Zenon
  <2>8. ASSUME stage[h] = "Compared" PROVE reply'[h].tag = "Sound"
    <3>1. VerifyReport(h) /\ TablesSound(db)
      BY <2>1, <2>6, <2>8, TablesAlwaysSound, Zenon DEF VerifyCompare
    <3>2. reply'[h] = Failure(request[h], "Sound")
      BY <2>1, <2>8, <3>1, Zenon DEF VerifyReport, Return, End, TypeOK
    <3> QED BY <3>2 DEF Failure
  <2> QED BY <2>7, <2>8
<1> QED BY <1>1, InvariantHolds, PTL DEF Spec, SoundMeansCurrent
-----------------------------------------------------------------------------
(* An extension of the rows does not lower the project revision.           *)
LEMMA OpRevisionGrows ==
    ASSUME NEW d, NEW e, DbInv(d), DbInv(e), Extends(d, e)
    PROVE  d.opRevision <= e.opRevision
<1>1. d.opRevision \in Nat /\ e.opRevision \in Nat
  BY Zenon DEF DbInv, IsDb
<1>2. CASE d.opRevision = 0
  BY <1>1, <1>2
<1>3. CASE d.opRevision # 0
  <2>1. d.opRevision \in 1 .. d.opRevision
    BY <1>1, <1>3
  <2>2. PICK id \in DOMAIN d.rows : d.rows[id].revision = d.opRevision
    BY <2>1 DEF DbInv, Contiguous
  <2>3. id \in DOMAIN e.rows /\ e.rows[id].revision = d.opRevision
    BY <2>2, Zenon DEF Extends
  <2>4. d.opRevision \in 1 .. e.opRevision
    BY <2>3 DEF DbInv, Contiguous
  <2> QED BY <1>1, <2>4
<1> QED BY <1>2, <1>3

(* What holds of a database holds of its extensions.                       *)
LEMMA HoldsIsStable ==
    ASSUME NEW d, NEW e, DbInv(d), DbInv(e), Extends(d, e), NEW a, a.revision \in Nat,
           Holds(d, a)
    PROVE  Holds(e, a)
<1>1. d.opRevision <= e.opRevision /\ d.opRevision \in Nat /\ e.opRevision \in Nat
  BY OpRevisionGrows, Zenon DEF DbInv, IsDb
<1>2. a.request.kind = "Append" => a.revision <= e.opRevision
  BY <1>1 DEF Holds
<1> QED BY <1>2, ZenonT(30) DEF Holds, Extends

(* The answer to a duplicate is about the row that is there.               *)
LEMMA DuplicateHolds ==
    ASSUME NEW d, DbInv(d), NEW r \in Requests, IsDuplicate(d, r)
    PROVE  LET a == Receipt(d, r, "Duplicate") IN a.revision \in Nat /\ Holds(d, a)
<1> DEFINE n == ReceiptRevision(d, r, "Duplicate")
           a == Receipt(d, r, "Duplicate")
<1> SUFFICES a.revision \in Nat /\ Holds(d, a)
  OBVIOUS
<1>a. a.tag = "Duplicate" /\ a.request = r /\ a.revision = n
  BY Zenon DEF Receipt
<1> HIDE DEF a
<1>1. CASE r.kind = "Append"
  <2>1. r.op.id \in DOMAIN d.rows /\ d.rows[r.op.id].op = r.op
    BY <1>1, Zenon DEF IsDuplicate, Stored
  <2>2. d.rows[r.op.id].revision \in 1 .. d.opRevision /\ d.opRevision \in Nat
    BY <2>1, Zenon DEF DbInv, IsDb, Contiguous
  <2>3. n = IF r.budgeted THEN d.opRevision ELSE d.rows[r.op.id].revision
    BY <1>1, Zenon DEF ReceiptRevision
  <2> HIDE DEF n
  <2>4. /\ a.revision \in Nat
        /\ d.rows[r.op.id].revision <= a.revision
        /\ a.revision <= d.opRevision
    BY <1>a, <2>2, <2>3
  <2>5. ~ (a.tag = "Done") /\ (~ r.budgeted => d.rows[r.op.id].revision = a.revision)
    BY <1>a, <2>3, Zenon
  <2>6. r.kind # "Put" /\ r.kind # "Snapshot" /\ r.kind # "Chunk"
    BY <1>1, Zenon
  <2> QED BY <1>a, <2>1, <2>4, <2>5, <2>6, Zenon DEF Holds
<1>2. CASE r.kind = "Snapshot"
  <2>1. r.id \in DOMAIN d.snapshots /\ d.snapshots[r.id].blob = r.blob
    BY <1>2, Zenon DEF IsDuplicate
  <2>2. d.snapshots[r.id] \in [blob : Blobs, revision : Nat]
    BY <2>1, Zenon DEF DbInv, IsDb, IsMap
  <2>3. n = d.snapshots[r.id].revision
    BY <1>2, Zenon DEF ReceiptRevision
  <2> HIDE DEF n
  <2> QED BY <1>2, <1>a, <2>1, <2>2, <2>3, Zenon DEF Holds
<1>3. CASE r.kind = "Chunk"
  <2>1. r.blob \in DOMAIN d.chunks /\ d.chunks[r.blob] \in Nat
    BY <1>3, Zenon DEF IsDuplicate, DbInv, IsDb, IsMap
  <2>2. n = d.chunks[r.blob]
    BY <1>3 DEF ReceiptRevision
  <2> HIDE DEF n
  <2> QED BY <1>3, <1>a, <2>1, <2>2, Zenon DEF Holds
<1> QED BY <1>1, <1>2, <1>3, Zenon DEF IsDuplicate

(* The answer to a commit is about the row it wrote.                       *)
LEMMA DoneHolds ==
    ASSUME NEW d, DbInv(d), NEW r \in Requests, Accepts(d, r), DbInv(After(d, r))
    PROVE  LET a == Receipt(After(d, r), r, "Done")
           IN  a.revision \in Nat /\ Holds(After(d, r), a)
<1> DEFINE e == After(d, r)
           n == ReceiptRevision(e, r, "Done")
           a == Receipt(e, r, "Done")
<1> SUFFICES a.revision \in Nat /\ Holds(e, a)
  OBVIOUS
<1>a. a.tag = "Done" /\ a.request = r /\ a.revision = n
  BY Zenon DEF Receipt
<1> HIDE DEF a
<1>1. CASE r.kind = "Put"
  <2>1. n = 0
    BY <1>1, Zenon DEF ReceiptRevision
  <2>2. r.blob \in DOMAIN e.artifacts
    BY <1>1, Zenon DEF After, AfterPut, Register, Set, DbInv, IsDb
  <2> HIDE DEF n, e
  <2> QED BY <1>1, <1>a, <2>1, <2>2 DEF Holds
<1>2. CASE r.kind = "Append"
  <2>1. e.rows = Set(d.rows, r.op.id, [op |-> r.op, revision |-> d.opRevision + 1])
    BY <1>2, Zenon DEF After, AfterAppend, DbInv, IsDb
  <2>2. r.op.id \in DOMAIN e.rows /\ e.rows[r.op.id].op = r.op
    BY <2>1 DEF Set
  <2>3. n = e.rows[r.op.id].revision
    BY <1>2 DEF ReceiptRevision
  <2> HIDE DEF n, e
  <2>4. e.rows[r.op.id].revision \in 1 .. e.opRevision /\ e.opRevision \in Nat
    BY <2>2, ZenonT(30) DEF DbInv, IsDb, Contiguous, e
  <2> QED BY <1>2, <1>a, <2>2, <2>3, <2>4 DEF Holds
<1>3. CASE r.kind = "Snapshot"
  <2>1. e.snapshots = Set(d.snapshots, r.id, [blob |-> r.blob, revision |-> d.revision + 1])
    BY <1>3, Zenon DEF After, AfterSnapshot, Register, DbInv, IsDb
  <2>2. n = e.snapshots[r.id].revision
    BY <1>3 DEF ReceiptRevision
  <2> HIDE DEF n, e
  <2>3. r.id \in DOMAIN e.snapshots
        /\ e.snapshots[r.id] = [blob |-> r.blob, revision |-> d.revision + 1]
    BY <2>1, Zenon DEF Set
  <2>4. d.revision + 1 \in Nat
    BY DEF DbInv, IsDb
  <2> QED BY <1>3, <1>a, <2>2, <2>3, <2>4 DEF Holds
<1>4. CASE r.kind = "Chunk"
  <2>1. e.chunks = Set(d.chunks, r.blob, d.revision + 1)
    BY <1>4, Zenon DEF After, AfterChunk, Register, DbInv, IsDb
  <2>2. n = e.chunks[r.blob]
    BY <1>4 DEF ReceiptRevision
  <2> HIDE DEF n, e
  <2>3. r.blob \in DOMAIN e.chunks /\ e.chunks[r.blob] = d.revision + 1
    BY <2>1, Zenon DEF Set
  <2>4. d.revision + 1 \in Nat
    BY DEF DbInv, IsDb
  <2> QED BY <1>4, <1>a, <2>2, <2>3, <2>4, Zenon DEF Holds
<1>5. CASE r.kind = "Recover"
  <2>1. n = 0
    BY <1>5 DEF ReceiptRevision
  <2> HIDE DEF n, e
  <2> QED BY <1>5, <1>a, <2>1 DEF Holds
<1> QED BY <1>1, <1>2, <1>3, <1>4, <1>5, Zenon DEF Accepts

ReceiptInv ==
    \A h \in Handles :
        Granted(reply[h]) => reply[h].revision \in Nat /\ Holds(db, reply[h])

(* Each step leaves a handle's answer alone, withdraws it, or gives one    *)
(* that holds of what is then committed.                                   *)
LEMMA AnswersHold ==
    ASSUME IInv, NEW h \in Handles, [Next]_vars, Granted(reply'[h]), reply'[h] # reply[h]
    PROVE  reply'[h].revision \in Nat /\ Holds(db', reply'[h])
<1>t. DOMAIN reply = Handles
  BY Zenon DEF IInv, TypeOK
<1>n. \A r : ~ Granted(Silent) /\ ~ Granted(Failure(r, "Failed"))
             /\ ~ Granted(Failure(r, "Refused")) /\ ~ Granted(Failure(r, "Busy"))
             /\ ~ Granted(Failure(r, "Sound")) /\ ~ Granted(Failure(r, "Unsound"))
  BY Zenon DEF Granted, Silent, Failure
<1>1. PICK g \in Handles :
        \/ Step(g)
        \/ Open(g) \/ OpenRefused(g)
        \/ \E r \in Requests : Call(g, r)
        \/ Abort(g) \/ ProjectUnsynced(g)
        \/ Crash(g) \/ CrashInCommit(g) \/ CrashAfterCommit(g)
  BY Zenon DEF Next, vars
<1>2. \/ reply' = reply
      \/ \E a : reply' = [reply EXCEPT ![g] = a] /\ ~ Granted(a)
      \/ AnswerDuplicate(g) \/ Commit(g)
  BY <1>1, <1>n, Zenon DEF Step, FinishCreate, WriteFile, Refuse, Prepare, LockTimeout, Project,
     CommitTimeout, VerifyRead, VerifyCompare, VerifyReport, Open, OpenRefused, Call, Abort,
     ProjectUnsynced, Crash, CrashInCommit, CrashAfterCommit, Return, Die, End
<1>3. CASE AnswerDuplicate(g)
  <2>1. /\ request[g] \in Requests /\ IsDuplicate(db, request[g]) /\ db' = db
        /\ reply' = [reply EXCEPT ![g] = Receipt(db, request[g], "Duplicate")]
    BY <1>3, Zenon DEF IInv, FileFirst, AnswerDuplicate, Return, End
  <2>2. h = g /\ reply'[h] = Receipt(db, request[g], "Duplicate")
    BY <1>t, <2>1, Zenon
  <2> QED BY <2>1, <2>2, DuplicateHolds, Zenon DEF IInv
<1>4. CASE Commit(g)
  <2>1. /\ request[g] \in Requests /\ Accepts(db, request[g])
        /\ db' = After(db, request[g]) /\ DbInv(db')
    BY <1>4, CommitFacts, Zenon
  <2>2. reply' = [reply EXCEPT ![g] = Receipt(db', request[g], "Done")]
    BY <1>4, Zenon DEF Commit, Return, End
  <2>3. h = g /\ reply'[h] = Receipt(db', request[g], "Done")
    BY <1>t, <2>2, Zenon
  <2> QED BY <2>1, <2>3, DoneHolds, Zenon DEF IInv
<1> QED BY <1>t, <1>2, <1>3, <1>4, Zenon

(* A receipt is about a committed row and stays so for ever.               *)
THEOREM ReceiptsAlwaysHold == Spec => []ReceiptsHold
<1>1. Init => ReceiptInv
  BY DEF Init, ReceiptInv, Granted, Silent
<1>2. IInv /\ ReceiptInv /\ [Next]_vars => ReceiptInv'
  <2> SUFFICES ASSUME IInv, ReceiptInv, [Next]_vars, NEW h \in Handles, Granted(reply'[h])
               PROVE  reply'[h].revision \in Nat /\ Holds(db', reply'[h])
    BY Zenon DEF ReceiptInv
  <2>1. CASE reply'[h] # reply[h]
    BY <2>1, AnswersHold, Zenon
  <2>2. CASE reply'[h] = reply[h]
    <3>1. DbInv(db) /\ DbInv(db') /\ Extends(db, db')
      <4>1. CASE db' = db
        BY <4>1, ExtendsItself, Zenon DEF IInv, DbInv
      <4>2. CASE db' # db
        BY <4>2, OnlyCommitsChangeDb, CommitFacts, Zenon DEF IInv
      <4> QED BY <4>1, <4>2
    <3>2. reply[h].revision \in Nat /\ Holds(db, reply[h])
      BY <2>2, Zenon DEF ReceiptInv
    <3> QED BY <2>2, <3>1, <3>2, HoldsIsStable, Zenon
  <2> QED BY <2>1, <2>2, Zenon
<1>3. ReceiptInv => ReceiptsHold
  BY Zenon DEF ReceiptInv, ReceiptsHold
<1> QED BY <1>1, <1>2, <1>3, InvariantHolds, PTL DEF Spec
-----------------------------------------------------------------------------
(* Position i of the journal is the operation of the row with revision i.  *)
ByRevision(d) ==
    /\ d.opRevision \in Nat
    /\ JournalOf(d) \in Seq(Operations)
    /\ Len(JournalOf(d)) = d.opRevision
    /\ \A i \in 1 .. d.opRevision :
        \E id \in DOMAIN d.rows : d.rows[id].revision = i /\ JournalOf(d)[i] = d.rows[id].op
    /\ \A id \in DOMAIN d.rows :
        /\ d.rows[id].revision \in 1 .. d.opRevision
        /\ JournalOf(d)[d.rows[id].revision] = d.rows[id].op

LEMMA JournalByRevision == ASSUME NEW d, DbInv(d) PROVE ByRevision(d)
<1> DEFINE n == d.opRevision
           j == JournalOf(d)
<1>1. n \in Nat /\ {d.rows[id].revision : id \in DOMAIN d.rows} = 1 .. n
  BY Zenon DEF DbInv, IsDb, Contiguous
<1>2. \A i \in 1 .. n :
        \E id \in DOMAIN d.rows : d.rows[id].revision = i /\ j[i] = d.rows[id].op
  <2> SUFFICES ASSUME NEW i \in 1 .. n
               PROVE  \E id \in DOMAIN d.rows : d.rows[id].revision = i /\ j[i] = d.rows[id].op
    OBVIOUS
  <2> DEFINE x == CHOOSE id \in DOMAIN d.rows : d.rows[id].revision = i
  <2>1. \E id \in DOMAIN d.rows : d.rows[id].revision = i
    BY <1>1
  <2>2. x \in DOMAIN d.rows /\ d.rows[x].revision = i
    BY <2>1
  <2>3. j[i] = d.rows[x].op
    BY DEF JournalOf
  <2> QED BY <2>2, <2>3, Zenon
<1>3. \A id \in DOMAIN d.rows : d.rows[id].op \in Operations
  BY DEF DbInv, IsDb, IsMap
<1>4. j = [i \in 1 .. n |-> j[i]]
  BY DEF JournalOf
<1> HIDE DEF j, n
<1>5. j \in [1 .. n -> Operations]
  <2>1. \A i \in 1 .. n : j[i] \in Operations
    BY <1>2, <1>3
  <2> QED BY <1>4, <2>1
<1>6. j \in Seq(Operations) /\ Len(j) = n
  BY <1>1, <1>5
<1>7. \A id \in DOMAIN d.rows :
        d.rows[id].revision \in 1 .. n /\ j[d.rows[id].revision] = d.rows[id].op
  <2> SUFFICES ASSUME NEW id \in DOMAIN d.rows
               PROVE  d.rows[id].revision \in 1 .. n /\ j[d.rows[id].revision] = d.rows[id].op
    BY Zenon
  <2>1. d.rows[id].revision \in 1 .. n
    BY <1>1
  <2>2. PICK y \in DOMAIN d.rows :
          d.rows[y].revision = d.rows[id].revision /\ j[d.rows[id].revision] = d.rows[y].op
    BY <1>2, <2>1, Zenon
  <2>3. y = id
    BY <2>2, Zenon DEF DbInv, Contiguous
  <2> QED BY <2>1, <2>2, <2>3, Zenon
<1> QED BY <1>1, <1>2, <1>6, <1>7, Zenon DEF ByRevision, j, n

(* An accepted append puts its operation at the end of the journal.        *)
LEMMA AppendGrowsJournal ==
    ASSUME NEW d, DbInv(d), NEW r \in Requests, r.kind = "Append", Accepts(d, r),
           DbInv(After(d, r))
    PROVE  /\ r.op \in Operations
           /\ \A i \in DOMAIN JournalOf(d) : JournalOf(d)[i].id # r.op.id
           /\ JournalOf(After(d, r)) = Append(JournalOf(d), r.op)
<1> DEFINE e == After(d, r)
           n == d.opRevision
           i0 == JournalOf(d)
           j == JournalOf(e)
<1>1. ByRevision(d) /\ ByRevision(e)
  BY JournalByRevision, Zenon
<1>2. /\ e.rows = Set(d.rows, r.op.id, [op |-> r.op, revision |-> n + 1])
      /\ e.opRevision = n + 1
  BY Zenon DEF After, AfterAppend, DbInv, IsDb
<1>3. r.op.id \notin DOMAIN d.rows
  BY Zenon DEF Accepts, AcceptsAppend, Stored
<1>4. \A id \in DOMAIN d.rows : d.rows[id].op.id = id
  BY Zenon DEF DbInv, Contiguous
<1>o. r.op \in Operations
  BY Zenon DEF Operations
<1> HIDE DEF e, i0, j, n
<1>5. /\ DOMAIN e.rows = DOMAIN d.rows \cup {r.op.id}
      /\ e.rows[r.op.id] = [op |-> r.op, revision |-> n + 1]
      /\ \A id \in DOMAIN d.rows : e.rows[id] = d.rows[id]
  BY <1>2, <1>3, Zenon DEF Set
<1>6. /\ n \in Nat /\ i0 \in Seq(Operations) /\ Len(i0) = n
      /\ j \in Seq(Operations) /\ Len(j) = n + 1
  BY <1>1, <1>2, Zenon DEF ByRevision, e, i0, j, n
<1>7. \A i \in 1 .. n : \E id \in DOMAIN d.rows : d.rows[id].revision = i /\ i0[i] = d.rows[id].op
  BY <1>1, Zenon DEF ByRevision, i0, n
<1>8. \A id \in DOMAIN e.rows : j[e.rows[id].revision] = e.rows[id].op
  BY <1>1, Zenon DEF ByRevision, j
<1>9. \A i \in DOMAIN i0 : i0[i].id # r.op.id
  BY <1>3, <1>4, <1>6, <1>7
<1>10. \A i \in 1 .. n : j[i] = i0[i]
  BY <1>5, <1>7, <1>8
<1>11. j[n + 1] = r.op
  BY <1>5, <1>8
<1>12. j = Append(i0, r.op)
  BY <1>6, <1>10, <1>11, <1>o
<1> QED BY <1>o, <1>9, <1>12, Zenon DEF i0, j, e

(* The other calls leave the operation table alone.                        *)
LEMMA OthersKeepJournal ==
    ASSUME NEW d, DbInv(d), NEW r \in Requests, r.kind # "Append"
    PROVE  JournalOf(After(d, r)) = JournalOf(d)
<1>1. After(d, r).rows = d.rows /\ After(d, r).opRevision = d.opRevision
  BY DEF After, AfterPut, AfterSnapshot, AfterChunk, Register, DbInv, IsDb
<1> QED BY <1>1 DEF JournalOf

(* The operation table of a bundle implements the append-only journal,     *)
(* whatever the processes that share it do and wherever they crash.        *)
THEOREM BundleImplementsJournal == Spec => ImplementsJournal
<1>1. Init => J!Init
  <2> SUFFICES ASSUME Init PROVE JournalOf(db) = <<>>
    BY DEF J!Init, OperationJournal
  <2>1. db = NewDb
    BY DEF Init
  <2>2. NewDb.opRevision = 0
    BY DEF NewDb
  <2>3. ByRevision(NewDb)
    BY NewDbInv, JournalByRevision
  <2>4. JournalOf(NewDb) \in Seq(Operations) /\ Len(JournalOf(NewDb)) = 0
    BY <2>2, <2>3, Zenon DEF ByRevision
  <2> HIDE DEF NewDb
  <2> QED BY <2>1, <2>4
<1>2. IInv /\ [Next]_vars => [J!Next]_OperationJournal
  <2> SUFFICES ASSUME IInv, [Next]_vars, JournalOf(db') # JournalOf(db) PROVE J!Next
    BY DEF OperationJournal
  <2>1. db' # db
    OBVIOUS
  <2>2. PICK h \in Handles : Commit(h) \/ CrashAfterCommit(h)
    BY <2>1, OnlyCommitsChangeDb, Zenon
  <2>3. /\ request[h] \in Requests /\ Accepts(db, request[h])
        /\ db' = After(db, request[h]) /\ DbInv(db') /\ DbInv(db)
    BY <2>2, CommitFacts, Zenon DEF IInv
  <2>4. request[h].kind = "Append"
    BY <2>3, OthersKeepJournal, Zenon
  <2>5. /\ request[h].op \in Operations
        /\ \A i \in DOMAIN JournalOf(db) : JournalOf(db)[i].id # request[h].op.id
        /\ JournalOf(db') = Append(JournalOf(db), request[h].op)
    BY <2>3, <2>4, AppendGrowsJournal, Zenon
  <2> QED BY <2>5, Zenon DEF J!Next, J!Extend, OperationJournal
<1> QED BY <1>1, <1>2, InvariantHolds, PTL DEF Spec, ImplementsJournal, J!Spec
=============================================================================
