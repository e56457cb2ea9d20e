----------------------------- MODULE ChunkCodec -----------------------------
(***************************************************************************)
(* The Parquet codec of an observation chunk.  An envelope is flattened to *)
(* one cell for each scalar leaf and list of its JSON shape; the columns   *)
(* are the closed contract the witness envelopes span, with one column per *)
(* (path, kind), so a path of several kinds is a union of columns; reading *)
(* merges the unions, groups the columns of an object list back into       *)
(* objects and rebuilds the tree.                                          *)
(*                                                                         *)
(* A JSON value is <<"object", record>>, <<"array", sequence>> or a leaf   *)
(* <<"bool" | "int" | "f64" | "string", value>>; a path is a sequence of   *)
(* names.  Leaf values keep only what the codec can tell apart.            *)
(***************************************************************************)
EXTENDS Integers, Sequences, FiniteSets, SequencesExt, FiniteSetsExt, TLC

CONSTANTS Batches,             \* [sample, copies]: rows of these shapes, copies times over
          IdRank,              \* the order of envelope ids
          I64_MAX,
          MAX_OBSERVATION_CHUNK_ROWS, MAX_COLUMNS, MAX_BATCH_SIZE, MAX_LIST_VALUES,
          MAX_STRING_BYTES, MAX_ROW_GROUPS, MAX_DECODED_ARROW_BYTES

VARIABLES batch, chunk, decoded

codecVars == <<batch, chunk, decoded>>

Null == <<"null">>
Bad == <<<<"bad">>, Null>>

Obj(fields) == <<"object", fields>>
Arr(values) == <<"array", values>>
Str(x) == <<"string", x>>
Whole(n) == <<"int", n>>
Real(n) == <<"f64", n>>
Flag(b) == <<"bool", b>>

-----------------------------------------------------------------------------
(* The witness envelopes                                                   *)

UnknownEvidence == Obj([state |-> Str("unknown"), detail |-> Str("not_measured")])
KnownEvidence(v) == Obj([state |-> Str("known"), detail |-> v])
Evidence(known, v) == IF known THEN KnownEvidence(v) ELSE UnknownEvidence

Id == Str("id")
ArtifactReference ==
    Obj([sha256 |-> Str("hash"), media_type |-> Str("octets"), byte_length |-> Whole(1)])

Source(k) ==
    Obj([source_id |-> Id, collector_id |-> Id, sensor_id |-> Evidence(k, Id),
         adapter_id |-> Evidence(k, Id), kind |-> Str("native_api"), source_name |-> Str("source"),
         source_version |-> Evidence(k, Str("v1")), source_schema_version |-> Str("v2"),
         adapter_name |-> Str("adapter"), adapter_version |-> Str("v1"),
         parser_version |-> Str("v1"), driver_version |-> Evidence(k, Str("v1")),
         os_version |-> Evidence(k, Str("v1"))])

Channel(k) ==
    Obj([band |-> Evidence(k, Str("ghz2_4")), primary_channel |-> Evidence(k, Whole(1)),
         primary_frequency |-> Evidence(k, Real(2)), center_frequency |-> Evidence(k, Real(2)),
         second_center_frequency |-> Evidence(k, Real(5)), width |-> Evidence(k, Real(20)),
         puncturing |-> Evidence(k, Whole(0))])

Instant(n) == Obj([epoch |-> Id, nanoseconds |-> Whole(n)])

Dwell(k) ==
    Obj([schedule_id |-> Evidence(k, Id), cycle_index |-> Evidence(k, Whole(1)),
         tuned_channel |-> Channel(k),
         window |-> Evidence(k, Obj([start |-> Instant(1), end |-> Instant(2)])),
         reported_duration |-> Evidence(k, Real(1)), method_version |-> Str("v1")])

Pose(k) ==
    Obj([pose_id |-> Id, frame_id |-> Id, assignment_version |-> Str("v1"),
         position |-> Obj([x |-> Real(1), y |-> Real(2), z |-> Real(3)]),
         covariance |-> Evidence(k, Arr(<<Real(1), Real(0), Real(0), Real(1), Real(0), Real(1)>>)),
         orientation |-> Evidence(k, Obj([yaw |-> Real(1), pitch |-> Real(2), roll |-> Real(3)])),
         method_version |-> Str("v1")])

Time(top, k, nanoseconds) ==
    Obj([wall |-> Evidence(top, Obj([time |-> Whole(1), source |-> Str("clock"), precision |-> Real(1),
                                     uncertainty |-> Evidence(k, Real(1))])),
         monotonic |-> Evidence(top, Instant(nanoseconds)),
         synchronization |-> Evidence(top,
            Obj([epoch |-> Id, reference_monotonic_nanoseconds |-> Whole(nanoseconds),
                 reference_utc |-> Whole(1), offset_to_reference |-> Evidence(k, Real(0)),
                 drift |-> Evidence(k, Real(0)), error |-> Evidence(k, Real(1)),
                 method_version |-> Str("v1")]))])

RowIdentity(k) ==
    Obj([physical_device |-> Evidence(k, Id), radio |-> Evidence(k, Id), bss |-> Evidence(k, Id),
         bssid |-> Evidence(k, Arr([i \in 1..6 |-> Whole(i)])), ess |-> Evidence(k, Id),
         mld |-> Evidence(k, Id), link_id |-> Evidence(k, Whole(1)), client |-> Evidence(k, Id),
         grouping_evidence |-> Evidence(k, ArtifactReference)])

\* chains: for each antenna chain, whether its signal and its noise are known.
Signal(k, chains) ==
    Obj([rssi_dbm |-> Evidence(k, Real(-55)), noise_dbm |-> Evidence(k, Real(-90)),
         chains |-> Arr([i \in DOMAIN chains |->
            Obj([chain_index |-> Whole(i - 1), rssi_dbm |-> Evidence(chains[i][1], Real(-55)),
                 noise_dbm |-> Evidence(chains[i][2], Real(-90))])]),
         calibration |-> Evidence(k, Obj([state |-> Str("reference"), id |-> Id, version |-> Str("v1")])),
         measurement_method |-> Str("method")])

Scan(k, chains, ssid) ==
    Obj([kind |-> Str("scan"), data |->
      Obj([identity |-> RowIdentity(k), ssid |-> Evidence(k, Arr([i \in DOMAIN ssid |-> Whole(ssid[i])])),
           signal |-> Signal(k, chains), information_elements |-> Evidence(k, ArtifactReference),
           result_age |-> Evidence(k, Real(1))])])

Frame(k, chains) ==
    Obj([kind |-> Str("frame"), data |->
      Obj([identity |-> RowIdentity(k), signal |-> Signal(k, chains), frame_type |-> Evidence(k, Whole(1)),
           frame_subtype |-> Evidence(k, Whole(2)), retry |-> Evidence(k, Flag(FALSE)),
           length_bytes |-> Whole(1), phy_rate_mbps |-> Evidence(k, Real(1)),
           raw_information_elements |-> Evidence(k, ArtifactReference)])])

Health(k) ==
    Obj([kind |-> Str("health"), data |->
      Obj([dropped_events |-> Evidence(k, Whole(1)), queued_events |-> Evidence(k, Whole(2)),
           connected |-> Evidence(k, Flag(TRUE)), diagnostic |-> Str("health")])])

Envelope(id, top, k, nanoseconds, quality, payload) ==
    Obj([schema_version |-> Str("2"), id |-> Str(id), session_id |-> Id, source |-> Source(k),
         time |-> Time(top, k, nanoseconds), pose |-> Evidence(top, Pose(k)),
         channel |-> Evidence(top, Channel(k)), dwell |-> Evidence(top, Dwell(k)),
         privacy |-> Obj([policy_version |-> Str("v1"), identifiers |-> Str("owned"),
            payload |-> Obj([state |-> Str("retained"), authorization_reference |-> Str("auth"),
                             retention_deadline |-> Whole(1)])]),
         quality |-> Arr([i \in DOMAIN quality |-> Str(quality[i])]),
         raw_source |-> Evidence(top, ArtifactReference), payload |-> payload])

WitnessRows ==
    UNION {{Envelope("id", top, k, 1, <<"clock_uncertain", "partial_capture">>, p) :
              top \in BOOLEAN,
              p \in {Scan(k, <<<<k, k>>, <<k, k>>>>, <<1, 2, 3>>), Frame(k, <<<<k, k>>, <<k, k>>>>),
                     Health(k)}} : k \in BOOLEAN}

-----------------------------------------------------------------------------
(* Flattening                                                              *)

Unsigned == {"nanoseconds", "reference_monotonic_nanoseconds", "cycle_index", "byte_length",
             "dropped_events", "queued_events"}

\* Integers that fit are signed, unless their field is an unsigned one.
ScalarOf(path, leaf) ==
    IF leaf[1] # "int" THEN leaf
    ELSE <<IF Last(path) \in Unsigned \/ leaf[2] > I64_MAX THEN "u64" ELSE "i64", leaf[2]>>

IsLeaf(v) == v[1] \notin {"object", "array"}

RECURSIVE Flatten(_, _)
FlattenArray(path, values) ==
    LET row(i) == UNION {Flatten(<<n>>, values[i][2][n]) : n \in DOMAIN values[i][2]}
        names == {p[1] : p \in UNION {row(i) : i \in DOMAIN values}}
        cell(i, name) == {p[2] : p \in {q \in row(i) : q[1] = name}}
    IN IF values = <<>> /\ Last(path) = "chains" THEN {}
       ELSE IF \A i \in DOMAIN values : IsLeaf(values[i])
       THEN {<<path, <<"list", [i \in DOMAIN values |-> ScalarOf(path, values[i])]>>>>}
       ELSE IF /\ \A i \in DOMAIN values : values[i][1] = "object"
               /\ names # {}
               /\ \A i \in DOMAIN values, n \in names :
                    \E v \in cell(i, n) : v[1] = "scalar"
       THEN {<<path \o n, <<"list", [i \in DOMAIN values |-> (CHOOSE v \in cell(i, n) : TRUE)[2]]>>>> :
               n \in names}
       ELSE {Bad}

Flatten(path, v) ==
    IF v[1] = "object" THEN UNION {Flatten(Append(path, n), v[2][n]) : n \in DOMAIN v[2]}
    ELSE IF v[1] = "array" THEN FlattenArray(path, v[2])
    ELSE {<<path, <<"scalar", ScalarOf(path, v)>>>>}

\* The lists of objects, whose elements are grouped again on reading.
RECURSIVE ObjectLists(_, _)
ObjectLists(path, v) ==
    IF v[1] = "object" THEN UNION {ObjectLists(Append(path, n), v[2][n]) : n \in DOMAIN v[2]}
    ELSE IF v[1] = "array" /\ (IF v[2] = <<>> THEN Last(path) = "chains" ELSE ~IsLeaf(v[2][1]))
    THEN {path} ELSE {}

EmptyListKind(path) ==
    IF Last(path) = "quality" THEN "string"
    ELSE IF IsSuffix(<<"ssid", "detail">>, path) THEN "u64" ELSE "none"

MergeKinds(path, flat) ==
    IF flat[1] = "scalar" THEN {<<"scalar", flat[2][1]>>}
    ELSE IF flat[2] = <<>> THEN {<<"list", EmptyListKind(path)>>}
    ELSE {<<"list", flat[2][i][1]>> : i \in DOMAIN flat[2]}

LogicalColumns(row) == UNION {{<<p[1], k>> : k \in MergeKinds(p[1], p[2])} : p \in row}

\* The fixed contract: every (path, kind) of a witness, and the object lists.
Contract == UNION {LogicalColumns(Flatten(<<>>, w)) : w \in WitnessRows}
ContractLists == UNION {ObjectLists(<<>>, w) : w \in WitnessRows}

KindsAt == [path \in {c[1] : c \in Contract} |-> {d[2] : d \in {c \in Contract : c[1] = path}}]

-----------------------------------------------------------------------------
(* Encoding                                                                *)

\* Without nulls in the places of the other kinds.
BuildCellsCompact(row) ==
    UNION {LET flat == p[2]
           IN {<<<<p[1], k>>,
                 IF flat[1] = "scalar" THEN flat[2]
                 ELSE SelectSeq(flat[2], LAMBDA v : v[1] = k[2])>> :
                 k \in {c \in KindsAt[p[1]] :
                          /\ c[1] = flat[1]
                          /\ IF flat[1] = "scalar" THEN flat[2][1] = c[2]
                             ELSE flat[2] = <<>> \/ \E i \in DOMAIN flat[2] : flat[2][i][1] = c[2]}}
           : p \in row}

\* The cells of a row: a union list column holds the elements of its kind,
\* and null in the place of the others.
BuildCells(row) ==
    UNION {LET flat == p[2]
           IN {<<<<p[1], k>>,
                 IF flat[1] = "scalar" THEN flat[2]
                 ELSE [i \in DOMAIN flat[2] |-> IF flat[2][i][1] = k[2] THEN flat[2][i] ELSE Null]>> :
                 k \in {c \in KindsAt[p[1]] :
                          /\ c[1] = flat[1]
                          /\ IF flat[1] = "scalar" THEN flat[2][1] = c[2]
                             ELSE flat[2] = <<>> \/ \E i \in DOMAIN flat[2] : flat[2][i][1] = c[2]}}
           : p \in row}

RowCount(b) == Len(b.sample) * b.copies

Encodable(b) ==
    /\ RowCount(b) \in 1..MAX_OBSERVATION_CHUNK_ROWS
    /\ Cardinality(Contract) \in 1..MAX_COLUMNS
    /\ \A i \in DOMAIN b.sample :
         LET row == Flatten(<<>>, b.sample[i])
         IN /\ Bad \notin row
            /\ LogicalColumns(row) \subseteq Contract
            /\ ObjectLists(<<>>, b.sample[i]) \subseteq ContractLists

EncodedChunk(b) ==
    [rows |-> [i \in DOMAIN b.sample |-> BuildCells(Flatten(<<>>, b.sample[i]))], copies |-> b.copies]

-----------------------------------------------------------------------------
(* Decoding                                                                *)

Width(kind) ==
    IF kind = "bool" THEN 1 ELSE IF kind = "string" THEN MAX_STRING_BYTES + 4 ELSE 8

\* A list column counts one value for a row that is null or empty.
ListValues(row, column) ==
    LET cells == {c[2] : c \in {d \in row : d[1] = column}}
    IN IF cells \subseteq {<<>>} THEN 1 ELSE Len(CHOOSE c \in cells : TRUE)

RowGroups(rows) == (rows + MAX_BATCH_SIZE - 1) \div MAX_BATCH_SIZE

\* The bytes set aside for a chunk before a page of it is read: every string
\* counts as one of the greatest length, a null one included.
DecodedArrowBytes(c) ==
    LET rows == Len(c.rows) * c.copies
        scalars(kind) == Cardinality({k \in Contract : k[2] = <<"scalar", kind>>})
        lists == {k \in Contract : k[2][1] = "list"}
        values(k) == FoldSet(LAMBDA i, n : ListValues(c.rows[i], k) + n, 0, DOMAIN c.rows)
    IN FoldSet(LAMBDA kind, n : scalars(kind) * rows * (Width(kind) + 1) + n, 0,
               {"bool", "i64", "u64", "f64", "string"})
       + FoldSet(LAMBDA k, n : (rows + RowGroups(rows)) * 4 + (rows + 7) \div 8
                                 + c.copies * values(k) * (Width(k[2][2]) + 1) + n, 0, lists)

MetadataStands(c) ==
    LET rows == Len(c.rows) * c.copies
    IN /\ rows \in 1..MAX_OBSERVATION_CHUNK_ROWS
       /\ RowGroups(rows) \in 1..MAX_ROW_GROUPS
       /\ \A i \in DOMAIN c.rows, k \in {d \in Contract : d[2][1] = "list"} :
            ListValues(c.rows[i], k) <= MAX_LIST_VALUES

ValueOf(scalar) == IF scalar[1] \in {"i64", "u64"} THEN Whole(scalar[2]) ELSE scalar

\* The one value that the columns of a path hold in a row: at most one scalar,
\* or lists that fill each other's nulls.
MergeFlatValues(cells) ==
    LET first == CHOOSE c \in cells : TRUE
        element(i) == {c[2][i] : c \in cells} \ {Null}
    IN IF Cardinality(cells) = 1 THEN <<first[1][2][1], first[2]>>
       ELSE IF /\ \A c \in cells : c[1][2][1] = "list" /\ Len(c[2]) = Len(first[2])
               /\ \A i \in DOMAIN first[2] : Cardinality(element(i)) <= 1
       THEN <<"list", [i \in DOMAIN first[2] |->
                         IF element(i) = {} THEN Null ELSE CHOOSE v \in element(i) : TRUE]>>
       ELSE Bad

FlatValues(row) ==
    LET paths == {c[1][1] : c \in row}
    IN [p \in paths |-> MergeFlatValues({c \in row : c[1][1] = p})]

\* Each value placed at its path; a scalar where another path needs an object
\* is a conflict.
RECURSIVE SetPaths(_)
SetPaths(placed) ==
    Obj([n \in {Head(p[1]) : p \in placed} |->
           LET here == {p \in placed : Head(p[1]) = n}
           IN IF \A p \in here : Len(p[1]) > 1 THEN SetPaths({<<Tail(p[1]), p[2]>> : p \in here})
              ELSE IF Cardinality(here) = 1 THEN (CHOOSE p \in here : TRUE)[2]
              ELSE Bad])

MembersOf(list) == {p \in {c[1] : c \in Contract} : IsStrictPrefix(list, p)}

\* The objects of one object list, or Bad when its columns do not line up.
GroupedObjects(list, flat) ==
    LET present == {p \in MembersOf(list) : p \in DOMAIN flat /\ flat[p][1] = "list"}
        length == IF present = {} THEN 0 ELSE Len(flat[CHOOSE p \in present : TRUE][2])
        suffix(p) == SubSeq(p, Len(list) + 1, Len(p))
    IN IF /\ \A p \in present : Len(flat[p][2]) = length
          /\ length > 0 => present = MembersOf(list)
          /\ \A p \in present : Null \notin ToSet(flat[p][2])
       THEN Arr([i \in 1..length |-> SetPaths({<<suffix(p), ValueOf(flat[p][2][i])>> : p \in present})])
       ELSE Bad

Rebuild(row) ==
    LET flat == FlatValues(row)
        grouped == UNION {MembersOf(l) : l \in ContractLists}
        value(f) == IF f[1] = "scalar" THEN ValueOf(f[2])
                    ELSE Arr([i \in DOMAIN f[2] |-> ValueOf(f[2][i])])
    IN SetPaths({<<l, GroupedObjects(l, flat)>> : l \in ContractLists}
                  \cup {<<p, value(flat[p])>> : p \in DOMAIN flat \ grouped})

\* Reading the tree as an envelope leaves out what the payload has no field for.
EnvelopeOf(tree) ==
    LET payload == tree[2].payload[2]
        data == payload.data[2]
    IN IF payload.kind # Str("health") THEN tree
       ELSE [tree EXCEPT ![2].payload[2].data[2] = [n \in DOMAIN data \ {"signal"} |-> data[n]]]

Ordered(rows) ==
    \A i \in 1..Len(rows) - 1 : IdRank[rows[i][2].id[2]] < IdRank[rows[i + 1][2].id[2]]

Decode(c) ==
    LET rows == [i \in DOMAIN c.rows |-> EnvelopeOf(Rebuild(c.rows[i]))]
    IN IF ~MetadataStands(c) \/ DecodedArrowBytes(c) > MAX_DECODED_ARROW_BYTES
       THEN [status |-> "corrupt"]
       ELSE IF ~Ordered(rows) THEN [status |-> "corrupt"]
       ELSE [status |-> "read", rows |-> rows]

-----------------------------------------------------------------------------
CodecInit == batch \in Batches /\ chunk = <<>> /\ decoded = <<>>

Encode ==
    /\ chunk = <<>>
    /\ chunk' = IF Encodable(batch) THEN <<"chunk", EncodedChunk(batch)>> ELSE <<"refused">>
    /\ UNCHANGED <<batch, decoded>>

Read ==
    /\ chunk # <<>> /\ chunk[1] = "chunk" /\ decoded = <<>>
    /\ decoded' = <<Decode(chunk[2])>>
    /\ UNCHANGED <<batch, chunk>>

CodecNext == Encode \/ Read

CodecSpec == CodecInit /\ [][CodecNext]_codecVars

-----------------------------------------------------------------------------
\* A known network name of no octets.
EmptyName(envelope) ==
    LET payload == envelope[2].payload[2]
    IN payload.kind = Str("scan") /\ payload.data[2].ssid = KnownEvidence(Arr(<<>>))

\* An encoded batch that fits the decode allowance reads back as the envelopes it was
\* written from, whatever mix of known and unknown evidence, payload kinds and antenna
\* chains its rows have, and the only envelopes the encoder turns away are those with
\* a known empty network name (encode, decode and fixed_contract).
ChunksRoundTrip ==
    /\ decoded # <<>> => decoded[1] = [status |-> "read", rows |-> batch.sample]
    /\ chunk = <<"refused">> => \E i \in DOMAIN batch.sample : EmptyName(batch.sample[i])

\* A batch of as many rows as a chunk may have, once encoded, can be read.
AcceptedBatchesDecode == decoded # <<>> => decoded[1].status = "read"
=============================================================================
