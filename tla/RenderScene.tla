----------------------------- MODULE RenderScene -----------------------------
(***************************************************************************)
(* Renderer-neutral scenes (crates/rendering-scene): the projection of a   *)
(* numeric tile into a scene document, and the import of a scene's         *)
(* canonical bytes.  A caller computes a tile, may edit its public fields, *)
(* projects it, and later imports the bytes, edited or not.                *)
(*                                                                         *)
(* A document is its decoded wire value and what the shape pass can see    *)
(* besides: nesting, the longest text, repeated or unknown fields and      *)
(* spelling.  Element sizes and allocation pads are one unit each.         *)
(***************************************************************************)
EXTENDS SpatialTile

CONSTANTS
    Requests,                       \* [inputs, config, barriers, grid]
    TileEdits(_), DocumentEdits(_), \* what the caller of a request changes
    MAX_SCENE_BYTES, MAX_SCENE_WORKING_BYTES, FIXED_BYTES,
    MAX_TOTAL_CONTRIBUTIONS, MAX_GROUP_ID_REFERENCES, MAX_METRIC_DEFINITION_BYTES,
    MAX_SOURCE_ARTIFACT_BYTES, MAX_SCENE_JSON_DEPTH, MAX_TEXT_BYTES,
    PREDECODE_VEC_GROWTH_FACTOR

VARIABLES
    request,    \* the call that computed the tile
    tile,       \* its outcome, then what the caller made of it
    scene,      \* outcome of from_tile
    document,   \* bytes given to from_canonical_bytes
    reloaded    \* and its outcome

sceneVars == <<request, tile, scene, document, reloaded>>

None == <<"none", 0>>
Cancelled == Err("Cancelled")
Limit == Err("ResourceLimit")

-----------------------------------------------------------------------------
(* Resource admission.                                                      *)

Lengths(seqs) == Total([i \in DOMAIN seqs |-> Len(seqs[i])])

(* Bound on the lengths of vectors in the model. *)
MaxVector == 64

(* Capacities of a vector, as functions of its length: allocated to size,   *)
(* or grown by pushes.                                                      *)
Exact == [n \in 0 .. MaxVector |-> n]

Grown == [n \in 0 .. MaxVector |-> IF n = 0 THEN 0 ELSE CHOOSE c \in {4, 8, 16, 32, 64} :
                               c >= n /\ (c = 4 \/ c \div 2 < n)]

GroupIdCount(groups) ==
    Total([i \in DOMAIN groups |->
              Len(groups[i].ids) + Len(groups[i].aggregate.observation_order)])

LargestGroup(groups) ==
    Max({0} \cup UNION {{Len(groups[i].ids), Len(groups[i].aggregate.observation_order)} :
                        i \in DOMAIN groups})

Contributions(cells) == Total([i \in DOMAIN cells |-> Len(cells[i].contributors)])

(* Counts and capacities: capacity of vectors, nested of the contributors   *)
(* of a cell.                                                               *)
Shape(samples, groups, cells, count, encoded, capacity, nested) ==
    [sample_count |-> Len(samples), sample_capacity |-> capacity[Len(samples)],
     group_count |-> Len(groups), group_capacity |-> capacity[Len(groups)],
     group_id_count |-> GroupIdCount(groups),
     group_id_capacity |-> Total([i \in DOMAIN groups |->
                               capacity[Len(groups[i].ids)]
                               + capacity[Len(groups[i].aggregate.observation_order)]]),
     largest_count |-> LargestGroup(groups),
     largest_capacity |-> capacity[LargestGroup(groups)],
     cell_count |-> count, cell_capacity |-> capacity[Len(cells)],
     contribution_count |-> Contributions(cells),
     contribution_capacity |-> Total([i \in DOMAIN cells |->
                                   nested[Len(cells[i].contributors)]]),
     encoded |-> encoded]

Reserve(capacity, vectors, copies) == copies * (capacity + vectors)

WorkingBytes(s) ==
    MAX_SCENE_BYTES + s.encoded + FIXED_BYTES
    + Reserve(s.sample_capacity, 1, 4)
    + Reserve(s.group_capacity, 1, 4)
    + Reserve(s.group_id_capacity, 2 * s.group_count, 4)
    + Reserve(s.sample_count, 1, 1)
    + Reserve(s.sample_count, 1, 1)
    + Reserve(s.group_id_count, 1, 1)
    + Reserve(s.largest_capacity, 1, 1)
    + Reserve(s.largest_capacity, 2, 1)
    + Reserve(s.largest_capacity, 1, 1)
    + Reserve(MAX_NEIGHBORS, 2, 1)
    + Reserve(MAX_NEIGHBORS, 1, 1)
    + Reserve(s.cell_capacity, 1, 3)
    + Reserve(s.contribution_capacity, s.cell_count, 3)

WithinShapeLimits(s) ==
    /\ s.sample_count <= MAX_SAMPLES
    /\ s.group_count <= MAX_SAMPLES
    /\ s.cell_count <= MAX_CELLS
    /\ s.contribution_count <= MAX_TOTAL_CONTRIBUTIONS
    /\ s.group_id_count <= MAX_GROUP_ID_REFERENCES
    /\ s.largest_count <= MAX_SAMPLES
    /\ s.cell_count * s.group_count <= MAX_DISTANCE_EVALUATIONS

Admitted(s) == WithinShapeLimits(s) /\ WorkingBytes(s) <= MAX_SCENE_WORKING_BYTES

AdmissionError(s) == IF Admitted(s) THEN "none" ELSE "ResourceLimit"

SizeError(bytes) == IF bytes > MAX_SCENE_BYTES THEN "ResourceLimit" ELSE "none"

TileShape(t, encoded) ==
    Shape(t.inputs.samples, t.groups, t.cells, t.grid.width * t.grid.height,
          encoded, Exact, Grown)

WireShape(w, encoded, capacity) ==
    Shape(w.samples, w.groups, w.cells, w.grid.width * w.grid.height,
          encoded, capacity, capacity)

(* The length of the JSON encoding, in the same units. *)
EncodedBytes(samples, groups, cells) ==
    Len(samples) + Len(groups) + GroupIdCount(groups) + Len(cells) + Contributions(cells)

SceneGridError(grid, invalid) ==
    IF GridError(grid) = "InvalidConfiguration" THEN invalid ELSE GridError(grid)

TileBytes(t) == EncodedBytes(t.inputs.samples, t.groups, t.cells)
WireBytes(w) == EncodedBytes(w.samples, w.groups, w.cells)

-----------------------------------------------------------------------------
(* Structural validation of a tile.                                         *)

ValueMatchesClass(cell) ==
    /\ IsKnown(cell.value) <=> cell.class # "Unknown"
    /\ IsKnown(cell.value) <=> cell.contributors # <<>>

DistinctContributors(cell) ==
    Cardinality({c.group : c \in Range(cell.contributors)}) = Len(cell.contributors)

SumFractions(fs) ==
    FoldLeft(LAMBDA a, f : Fraction(a[1] * f[2] + f[1] * a[2], a[2] * f[2]), <<0, 1>>, fs)

Normalized(cell) ==
    cell.contributors = <<>>
    \/ SumFractions([i \in DOMAIN cell.contributors |-> cell.contributors[i].weight]) = <<1, 1>>

ValidCell(cell, groupCount, config) ==
    /\ cell.support_locations <= groupCount
    /\ cell.support_observations <= MAX_SAMPLES
    /\ ValueMatchesClass(cell)
    /\ Len(cell.contributors) <= config.maximum
    /\ DistinctContributors(cell)
    /\ \A c \in Range(cell.contributors) : c.group \in 1..groupCount /\ c.weight[1] > 0
    /\ Normalized(cell)

ObservedIsMeasured(cell, groups) ==
    cell.class = "Observed" =>
        /\ Len(cell.contributors) = 1
        /\ cell.value = Known(<<groups[cell.contributors[1].group].aggregate.estimate, 1>>)

GroupIsSampled(group, samples, method) ==
    LET members == SelectSeq(samples, LAMBDA s : s.id \in Range(group.ids)) IN
    /\ group.aggregate.method = method
    /\ group.ids # <<>>
    /\ Cardinality(Range(group.ids)) = Len(group.ids)
    /\ Len(members) = Len(group.ids)
    /\ \A s \in Range(members) : IsKnown(s.value) /\ s.at = group.at
    /\ AggregateStatic(members, method) = Ok(group.aggregate)

GroupsPartitionSamples(groups, samples) ==
    LET grouped == FlattenSeq([i \in DOMAIN groups |-> groups[i].ids]) IN
    /\ Cardinality(Range(grouped)) = Len(grouped)
    /\ Range(grouped) = {s.id : s \in {r \in Range(samples) : IsKnown(r.value)}}

TileError(t) ==
    LET samples == t.inputs.samples IN
    IF t.schema # TILE_SCHEMA_VERSION \/ t.algorithm # ALGORITHM_VERSION
    THEN "UnsupportedVersion"
    ELSE IF \/ Len(t.cells) # t.grid.width * t.grid.height
            \/ t.grid.floor # t.inputs.floor \/ t.grid.frame # t.inputs.frame
            \/ ~ValidConfig(t.config) THEN "InvalidTile"
    ELSE IF \/ Len(t.groups) > MAX_SAMPLES \/ Len(samples) > MAX_SAMPLES
            \/ t.inputs.source.bytes > MAX_SOURCE_ARTIFACT_BYTES THEN "ResourceLimit"
    ELSE IF \/ t.aggregation # t.inputs.metric.aggregation
            \/ ~ValidMethod(t.aggregation)
            \/ \E s \in Range(samples) : s.floor # t.inputs.floor \/ s.frame # t.inputs.frame
            \/ Cardinality({s.id : s \in Range(samples)}) < Len(samples)
            \/ \E g \in Range(t.groups) : ~GroupIsSampled(g, samples, t.aggregation)
            \/ ~GroupsPartitionSamples(t.groups, samples) THEN "InvalidTile"
    ELSE IF Contributions(t.cells) > MAX_TOTAL_CONTRIBUTIONS THEN "ResourceLimit"
    ELSE IF \E c \in Range(t.cells) : \/ ~ValidCell(c, Len(t.groups), t.config)
                                      \/ ~ObservedIsMeasured(c, t.groups) THEN "InvalidTile"
    ELSE "none"

-----------------------------------------------------------------------------
(* The scene's wire value and its validation.                               *)

Identity(t) ==
    LET definition == t.inputs.metric.definition IN
    [metric |-> VersionLabel(definition), hash |-> definition,
     aggregation |-> t.aggregation, source |-> t.inputs.source,
     schema |-> t.schema, algorithm |-> t.algorithm]

WireFromTile(t) ==
    [identity |-> Identity(t),
     artifact |-> t.inputs.metric.artifact, definition |-> t.inputs.metric.definition,
     config |-> t.config, samples |-> t.inputs.samples, grid |-> t.grid,
     groups |-> t.groups, cells |-> t.cells]

SceneGroupValid(group, wire) ==
    /\ group.aggregate.method = wire.identity.aggregation
    /\ group.ids # <<>>
    /\ group.aggregate.sample_count = Len(group.ids)
    /\ group.aggregate.observation_order = group.ids

SceneCellValid(cell, wire) ==
    /\ cell.class = "Extrapolated" => wire.config.extrapolation # Disabled
    /\ cell.support_locations <= Len(wire.groups)
    /\ cell.support_observations <= MAX_SAMPLES
    /\ ValueMatchesClass(cell)
    /\ DistinctContributors(cell)
    /\ \A c \in Range(cell.contributors) :
          c.group \in 1..Len(wire.groups) /\ c.weight[1] > 0
    /\ Normalized(cell)
    /\ ObservedIsMeasured(cell, wire.groups)

WireError(w) ==
    LET binding == MetricBinding(w.artifact, w.definition, w.identity.aggregation)
        ids == FlattenSeq([i \in DOMAIN w.groups |-> w.groups[i].ids])
    IN IF ~ValidConfig(w.config) \/ ~IsOk(binding) THEN "InvalidDocument"
       ELSE IF \/ ~MethodMatches(binding[2], w.config)
               \/ w.identity.metric # VersionLabel(w.definition)
               \/ w.identity.hash # w.definition THEN "InvalidDocument"
       ELSE IF \/ w.identity.schema # TILE_SCHEMA_VERSION
               \/ w.identity.algorithm # ALGORITHM_VERSION THEN "UnsupportedVersion"
       ELSE IF w.identity.source.bytes > MAX_SOURCE_ARTIFACT_BYTES THEN "ResourceLimit"
       ELSE IF Len(w.cells) # w.grid.width * w.grid.height THEN "InvalidDocument"
       ELSE IF \/ Temporal(w.identity.aggregation)
               \/ \E g \in Range(w.groups) : ~SceneGroupValid(g, w)
               \/ Cardinality(Range(ids)) < Len(ids) THEN "InvalidDocument"
       ELSE IF Contributions(w.cells) > MAX_TOTAL_CONTRIBUTIONS THEN "ResourceLimit"
       ELSE IF \E c \in Range(w.cells) : ~SceneCellValid(c, w) THEN "InvalidDocument"
       ELSE "none"

(* Rebuilds the scene from the samples it carries. *)
RecomputedWire(w) ==
    Then(TileOf([floor |-> w.grid.floor, frame |-> w.grid.frame,
                 metric |-> MetricBinding(w.artifact, w.definition,
                                          w.identity.aggregation)[2],
                 source |-> w.identity.source, samples |-> w.samples],
                w.config, <<>>, w.grid),
         LAMBDA t : Unless(AdmissionError(TileShape(t, 0)), Ok(WireFromTile(t))))

ComputationError(recomputed, w) ==
    IF recomputed = Limit THEN "ResourceLimit"
    ELSE IF recomputed # Ok(w) THEN "InvalidDocument"
    ELSE "none"

(* The code as it would be if an imported scene were not recomputed. *)
WireComputationTrusted(w) == "none"

WireComputation(w) == ComputationError(RecomputedWire(w), w)

-----------------------------------------------------------------------------
(* from_tile.                                                               *)

FromWire(w, encoded) ==
    Unless(SceneGridError(w.grid, "InvalidDocument"),
    Unless(AdmissionError(WireShape(w, encoded, Exact)),
    Unless(WireError(w),
    Unless(SizeError(WireBytes(w)), Ok(w)))))

FromReplay(t, replayed) ==
    IF ~IsOk(replayed) THEN IF replayed = Limit THEN Limit ELSE Err("InvalidTile")
    ELSE IF replayed[2].cells # t.cells \/ replayed[2].groups # t.groups
         THEN Err("InvalidTile")
    ELSE Unless(AdmissionError(TileShape(replayed[2], TileBytes(t))),
                FromWire(WireFromTile(replayed[2]), TileBytes(t)))

FromTile(t) ==
    Unless(SizeError(TileBytes(t)),
    Unless(SceneGridError(t.grid, "InvalidTile"),
    Unless(AdmissionError(TileShape(t, TileBytes(t))),
    Unless(TileError(t),
    FromReplay(t, TileOf(t.inputs, t.config, <<>>, t.grid))))))

(* from_verified_tile: the caller also supplies the source artifact.        *)
FromVerifiedTile(t, source) ==
    IF source.bytes > MAX_SOURCE_ARTIFACT_BYTES \/ t.inputs.source # source
    THEN Err("SourceArtifactMismatch")
    ELSE FromTile(t)

-----------------------------------------------------------------------------
(* from_canonical_bytes: a lexical pass over the strings, a counting pass   *)
(* over the arrays, the typed decoder, validation and recomputation.        *)

StringsPreflight(d) == IF d.text > MAX_TEXT_BYTES THEN "ResourceLimit" ELSE "none"

BoundedValue(d) == IF d.depth > MAX_SCENE_JSON_DEPTH THEN "ResourceLimit" ELSE "none"

CountArray(n, maximum) == IF n > maximum THEN "ResourceLimit" ELSE "none"

GroupPreflight(g, d) ==
    IF d.repeated = "group" THEN "MalformedBytes"
    ELSE IF Len(g.ids) + Len(g.aggregate.observation_order) > MAX_GROUP_ID_REFERENCES
         THEN "ResourceLimit"
    ELSE CountArray(Len(g.ids), MAX_SAMPLES)

AggregatePreflight(g, d) ==
    IF d.repeated = "aggregate" THEN "MalformedBytes"
    ELSE CountArray(Len(g.aggregate.observation_order), MAX_SAMPLES)

CellPreflight(c, d) ==
    IF d.repeated = "cell" THEN "MalformedBytes"
    ELSE CountArray(Len(c.contributors), MAX_NEIGHBORS)

GroupsPreflight(d) ==
    {CountArray(Len(d.wire.groups), MAX_SAMPLES),
     CountArray(GroupIdCount(d.wire.groups), MAX_GROUP_ID_REFERENCES)}
    \cup {GroupPreflight(g, d) : g \in Range(d.wire.groups)}
    \cup {AggregatePreflight(g, d) : g \in Range(d.wire.groups)}

CellsPreflight(d) ==
    {CountArray(Len(d.wire.cells), MAX_CELLS),
     CountArray(Contributions(d.wire.cells), MAX_TOTAL_CONTRIBUTIONS)}
    \cup {CellPreflight(c, d) : c \in Range(d.wire.cells)}

RootPreflight(d) ==
    {IF d.repeated = "root" THEN "MalformedBytes" ELSE "none",
     CountArray(Len(d.wire.samples), MAX_SAMPLES),
     CountArray(d.wire.definition.bytes, MAX_METRIC_DEFINITION_BYTES),
     BoundedValue(d)}
    \cup GroupsPreflight(d) \cup CellsPreflight(d)

PredecodeCapacity == [n \in 0 .. MaxVector |-> n * PREDECODE_VEC_GROWTH_FACTOR]

(* What the counted arrays may take while they are decoded. *)
PredecodeShape(d) ==
    [WireShape(d.wire, WireBytes(d.wire), PredecodeCapacity)
       EXCEPT !.cell_count = Len(d.wire.cells)]

(* A resource error is reported before a malformed one. *)
PreflightScene(d) ==
    IF WireBytes(d.wire) > MAX_SCENE_BYTES THEN "ResourceLimit"
    ELSE IF StringsPreflight(d) # "none" THEN StringsPreflight(d)
    ELSE IF "ResourceLimit" \in RootPreflight(d) THEN "ResourceLimit"
    ELSE IF "MalformedBytes" \in RootPreflight(d) THEN "MalformedBytes"
    ELSE AdmissionError(PredecodeShape(d))

(* Unknown and repeated fields are refused by the typed decoder. *)
DecodeScene(d) == IF d.unknown THEN Err("MalformedBytes") ELSE Ok(d.wire)

FromWireWithInput(w, d) ==
    Unless(SceneGridError(w.grid, "InvalidDocument"),
    Unless(AdmissionError(WireShape(w, WireBytes(w), Grown)),
    Unless(WireError(w),
    Unless(WireComputation(w),
    IF d.canonical THEN Ok(w) ELSE Err("NonCanonicalBytes")))))

FromCanonicalBytes(d) ==
    Unless(PreflightScene(d),
    Then(DecodeScene(d), LAMBDA w : FromWireWithInput(w, d)))

CanonicalBytes(w) ==
    [wire |-> w, text |-> 1, depth |-> 4, repeated |-> "none", unknown |-> FALSE,
     canonical |-> TRUE]

-----------------------------------------------------------------------------
(* The caller.  Every call polls its cancellation callback.                 *)

ComputeTile ==
    /\ tile = None
    /\ LET barriers == BarrierSet(request.barriers) IN
       tile' \in {Cancelled,
                  IF IsOk(barriers)
                  THEN TileOf(request.inputs, request.config, barriers[2], request.grid)
                  ELSE barriers}
    /\ UNCHANGED <<request, scene, document, reloaded>>

EditedTile(t, edit) ==
    CASE edit = "none" -> t
      [] edit = "value" -> [t EXCEPT !.cells[1].value = Known(<<-4, 1>>)]
      [] edit = "class" -> [t EXCEPT !.cells[1].class = "Interpolated"]
      [] edit = "support" -> [t EXCEPT !.cells[1].support_locations = @ + 1]
      [] edit = "cell" -> [t EXCEPT !.cells = Front(@)]
      [] edit = "order" -> [t EXCEPT !.inputs.samples = Reverse(@)]
      [] edit = "sample" -> [t EXCEPT !.inputs.samples = Tail(@)]
      [] edit = "groups" -> [t EXCEPT !.groups = Reverse(@)]
      [] edit = "radius" -> [t EXCEPT !.config.radius = @ + 1]
      [] edit = "algorithm" -> [t EXCEPT !.algorithm = ALGORITHM_VERSION]
      [] edit = "floor" -> [t EXCEPT !.grid.floor = "otherFloor"]

ProjectTile ==
    /\ scene = None /\ IsOk(tile)
    /\ \E edit \in TileEdits(request) :
          /\ edit = "sample" => tile[2].inputs.samples # <<>>
          /\ tile' = Ok(EditedTile(tile[2], edit))
          /\ scene' \in {Cancelled, FromTile(tile'[2])}
    /\ UNCHANGED <<request, document, reloaded>>

ProjectVerifiedTile ==
    /\ scene = None /\ IsOk(tile)
    /\ \E found \in {tile[2].inputs.source, [bytes |-> 0, hash |-> "other"]} :
          scene' \in {Cancelled, FromVerifiedTile(tile[2], found)}
    /\ TileEdits(request) # {}
    /\ UNCHANGED <<request, tile, document, reloaded>>

EditedDocument(d, edit) ==
    CASE edit = "none" -> d
      [] edit = "spelling" -> [d EXCEPT !.canonical = FALSE]
      [] edit = "unknown" -> [d EXCEPT !.unknown = TRUE]
      [] edit = "depth" -> [d EXCEPT !.depth = MAX_SCENE_JSON_DEPTH + 1]
      [] edit = "text" -> [d EXCEPT !.text = MAX_TEXT_BYTES + 1]
      [] edit \in {"root", "group", "aggregate", "cell"} -> [d EXCEPT !.repeated = edit]
      [] edit = "value" -> [d EXCEPT !.wire.cells[1].nearest = Known(1)]
      [] edit = "order" -> [d EXCEPT !.wire.samples = Reverse(@)]
      [] edit = "metric" -> [d EXCEPT !.wire.definition.revision = @ + 1]
      [] edit = "method" -> [d EXCEPT !.wire.config.method = "nearest"]
      [] edit = "algorithm" -> [d EXCEPT !.wire.identity.algorithm = BARRIER_ALGORITHM_VERSION]

ImportScene ==
    /\ document = None /\ IsOk(scene)
    /\ \E edit \in DocumentEdits(request) :
          LET d == EditedDocument(CanonicalBytes(scene[2]), edit) IN
          /\ document' = Ok(d)
          /\ reloaded' \in {Cancelled, FromCanonicalBytes(d)}
    /\ UNCHANGED <<request, tile, scene>>

SceneInit ==
    /\ request \in Requests
    /\ tile = None /\ scene = None
    /\ document = None /\ reloaded = None

SceneNext == ComputeTile \/ ProjectTile \/ ProjectVerifiedTile \/ ImportScene

SceneSpec == SceneInit /\ [][SceneNext]_sceneVars

-----------------------------------------------------------------------------
(* Properties.                                                              *)

(* What spatial-analysis computes from the samples a wire value carries. *)
Truth(w) ==
    TileOf([floor |-> w.grid.floor, frame |-> w.grid.frame,
            metric |-> MetricBinding(w.artifact, w.definition, w.identity.aggregation)[2],
            source |-> w.identity.source, samples |-> w.samples],
           w.config, <<>>, w.grid)

IsComputed(w) == Then(Truth(w), LAMBDA t : Ok(WireFromTile(t))) = Ok(w)

Unedited == IsOk(tile) /\ tile = TileOf(request.inputs, request.config, <<>>, request.grid)

(* A scene shows exactly what spatial-analysis computes from the samples    *)
(* the scene itself carries, whatever the caller did to the tile or to the  *)
(* bytes in between; a tile computed without barriers and left alone is     *)
(* never refused except by a resource limit, and neither are the canonical  *)
(* bytes of a scene, which import as the same scene.  (The validators of    *)
(* tiles and of wire values, the two recomputations and the estimator have  *)
(* to agree for this.)                                                      *)
ScenesAreComputed ==
    /\ IsOk(scene) => IsComputed(scene[2])
    /\ IsOk(reloaded) => IsComputed(reloaded[2])
    /\ (scene # None /\ Unedited) => IsOk(scene) \/ scene \in {Cancelled, Limit, Err("SourceArtifactMismatch")}
    /\ (IsOk(document) /\ document[2] = CanonicalBytes(scene[2]))
          => reloaded \in {scene, Cancelled, Limit}

(* The groups that some direct path from the point reaches, in order; and  *)
(* whether no path goes through a barrier that lets it pass.               *)
Seen(paths) == SelectSeq([i \in DOMAIN paths |-> i], LAMBDA i : paths[i].blocked = <<>>)

Clear(paths) == \A i \in DOMAIN paths : paths[i].crossed # <<>> => paths[i].blocked # <<>>

(* The Euclidean cell of the survey that consists of the seen groups only. *)
CellOfSeen(m, p, seen) ==
    LET groups == [i \in DOMAIN seen |-> m.groups[seen[i]]]
        cell == EstimateEuclidean([m EXCEPT !.groups = groups], p)
    IN [cell EXCEPT !.contributors = [i \in DOMAIN @ |-> [@[i] EXCEPT !.group = seen[@]]]]

(* Barriers change nothing where no direct path meets one, and an           *)
(* impassable barrier does to a cell exactly what leaving the groups behind *)
(* it out of the survey would do.  The barrier-aware estimator, with its    *)
(* own support counts, heap order and weights, then returns the cell of the *)
(* Euclidean estimator; only when every group is hidden does it say         *)
(* "outside evidence support" where an empty survey says "not measured".    *)
BarriersOnlyWhereCrossed ==
    (scene = None /\ IsOk(tile)) =>
        LET t == tile[2]
            m == [inputs |-> t.inputs, config |-> t.config, groups |-> t.groups,
                  barriers |-> t.barriers]
        IN \A k \in DOMAIN t.cells :
              LET p == Center(t.grid, (k - 1) % t.grid.width, (k - 1) \div t.grid.width)
                  paths == PathAssessments(m, p)
              IN Clear(paths) =>
                    IF Seen(paths) = <<>> /\ t.groups # <<>>
                    THEN t.cells[k].class = "Unknown" /\ t.cells[k].support_locations = 0
                    ELSE t.cells[k] = CellOfSeen(m, p, Seen(paths))

(* Enabling extrapolation does not change a cell that the normal radius     *)
(* already supports (docs/architecture/spatial-analysis.md).                *)
ExtrapolationKeepsSupported ==
    (scene = None /\ IsOk(tile)) =>
        LET t == tile[2]
            without == TileOf(t.inputs, [t.config EXCEPT !.extrapolation = Disabled],
                              t.barriers, t.grid)
        IN \A k \in DOMAIN t.cells :
              t.cells[k].support_locations >= t.config.minimum
                  => t.cells[k] = without[2].cells[k]
=============================================================================
