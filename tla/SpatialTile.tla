----------------------------- MODULE SpatialTile -----------------------------
(***************************************************************************)
(* Numeric signal tiles (crates/spatial-analysis: model.rs, tile.rs,       *)
(* barrier.rs, the artifact binding of registry.rs; the static aggregates  *)
(* of crates/wifi-semantics).                                              *)
(*                                                                         *)
(* Coordinates are integers.  A distance is the integer part of SCALE      *)
(* times the Euclidean distance; radii and traversal costs are in the same *)
(* unit.  Attenuation is in tens of dB, so an inverse-distance weight is   *)
(* the exact fraction 1 / Score ^ power.  Signal values are in quarter dB. *)
(* Group indices count from 1 (from 0 in the code).  Finite coordinates    *)
(* are assumed: overflow to infinity and rounding of weights to zero are   *)
(* outside the model.                                                      *)
(***************************************************************************)
EXTENDS Integers, FiniteSets, SequencesExt

CONSTANTS
    SCALE,                      \* distance units per coordinate unit
    MAX_SAMPLES, MAX_CELLS, MAX_NEIGHBORS, MAX_POWER, MAX_OFFSET,
    MAX_DISTANCE_EVALUATIONS, MAX_BARRIER_EVALUATIONS,
    MAX_BARRIERS, MAX_BARRIER_COORDINATE, MAX_BARRIER_COST, MAX_ATTENUATION

Ok(v) == <<"ok", v>>
Err(e) == <<"err", e>>
IsOk(r) == r[1] = "ok"

(* The two forms of an early return. *)
Then(r, next(_)) == IF IsOk(r) THEN next(r[2]) ELSE r
Unless(error, result) == IF error # "none" THEN Err(error) ELSE result

Known(v) == <<"known", v>>
Unknown(reason) == <<"unknown", reason>>
IsKnown(e) == e[1] = "known"

Disabled == 0

-----------------------------------------------------------------------------
(* Exact arithmetic.                                                        *)

RECURSIVE Gcd(_, _)
Gcd(a, b) == IF b = 0 THEN a ELSE Gcd(b, a % b)

Abs(n) == IF n < 0 THEN -n ELSE n

Fraction(num, den) ==
    LET g == Gcd(Abs(num), den) IN <<num \div g, den \div g>>

Total(seq) == FoldLeft(LAMBDA a, b: a + b, 0, seq)

RECURSIVE SquareRoot(_, _)
SquareRoot(n, r) ==
    IF r * r <= n THEN r ELSE SquareRoot(n, (r + n \div r) \div 2)

Distance(a, b) ==
    LET dx == a[1] - b[1]
        dy == a[2] - b[2]
        n == SCALE * SCALE * (dx * dx + dy * dy)
    IN IF n = 0 THEN 0 ELSE SquareRoot(n, n)

-----------------------------------------------------------------------------
(* Static signal aggregates.  A method is [kind, a, b] with probabilities   *)
(* in quarters.                                                             *)

Temporal(method) == method.kind \in {"ewma", "state_space"}

ValidMethod(method) ==
    /\ method.kind = "trimmed" => method.a < 2
    /\ method.kind = "percentile" => method.a < method.b
    /\ method.kind = "ewma" => method.a > 0

ConvexPair(left, right, quarters) ==
    ((4 - quarters) * left + quarters * right) \div 4

MedianSorted(sorted) ==
    LET middle == Len(sorted) \div 2 IN
    IF Len(sorted) % 2 = 0 THEN ConvexPair(sorted[middle], sorted[middle + 1], 2)
                           ELSE sorted[middle + 1]

TrimmedMean(sorted, quarters) ==
    LET trim == (Len(sorted) * quarters) \div 4
        kept == SubSeq(sorted, trim + 1, Len(sorted) - trim)
    IN Total(kept) \div Len(kept)

Percentile(sorted, quarters) ==
    LET position == quarters * (Len(sorted) - 1)
        lower == position \div 4
        upper == (position + 3) \div 4
    IN ConvexPair(sorted[lower + 1], sorted[upper + 1], position % 4)

AggregateValues(values, method, order) ==
    LET sorted == SortSeq(values, LAMBDA a, b: a < b) IN
    [method |-> method,
     estimate |-> IF method.kind = "trimmed" THEN TrimmedMean(sorted, method.a)
                                             ELSE MedianSorted(sorted),
     interval |-> IF method.kind = "percentile"
                  THEN Known(<<Percentile(sorted, method.a), Percentile(sorted, method.b)>>)
                  ELSE Unknown("NotApplicable"),
     sample_count |-> Len(values),
     observation_order |-> order]

SortedIds(samples) == SetToSortSeq({s.id : s \in Range(samples)}, LAMBDA a, b: a < b)

AggregateStatic(samples, method) ==
    IF ~ValidMethod(method) THEN Err("InvalidAggregationConfiguration")
    ELSE IF Temporal(method) THEN Err("TemporalAggregation")
    ELSE IF Len(samples) > MAX_SAMPLES THEN Err("ResourceLimit")
    ELSE IF Cardinality({s.id : s \in Range(samples)}) < Len(samples)
         THEN Err("DuplicateObservation")
    ELSE Ok(AggregateValues([i \in DOMAIN samples |-> samples[i].value[2]],
                            method, SortedIds(samples)))

-----------------------------------------------------------------------------
(* The verified binding of a metric definition artifact.  A definition's    *)
(* bytes are the record itself, and an artifact names them by content.      *)

VersionLabel(definition) == <<definition.id, definition.revision>>

MetricBinding(artifact, definition, aggregation) ==
    IF artifact.content # definition THEN Err("ArtifactMismatch")
    ELSE IF artifact.media \notin {"metric", "signal"} THEN Err("ArtifactMediaTypeMismatch")
    ELSE IF definition.schema # artifact.media THEN Err("MalformedBytes")
    ELSE IF ~ValidMethod(definition.aggregation) THEN Err("InvalidAggregationConfiguration")
    ELSE IF VersionLabel(definition) # artifact.version THEN Err("ArtifactVersionMismatch")
    ELSE IF definition.aggregation # aggregation THEN Err("SelectionMismatch")
    ELSE Ok([artifact |-> artifact, definition |-> definition,
             aggregation |-> aggregation,
             spatial |-> IF artifact.media = "metric" THEN definition.spatial ELSE "any"])

-----------------------------------------------------------------------------
(* Barriers.                                                                *)

InRange(p) == \A i \in 1..2 : Abs(p[i]) <= MAX_BARRIER_COORDINATE

ValidMaterial(b) == b.cost <= MAX_BARRIER_COST /\ b.attenuation \in 0..MAX_ATTENUATION

ValidSegment(b) ==
    InRange(b.start) /\ InRange(b.end) /\ b.start # b.end /\ ValidMaterial(b)

BarrierSet(barriers) ==
    LET sorted == SortSeq(barriers, LAMBDA a, b: a.id < b.id) IN
    IF Len(barriers) > MAX_BARRIERS THEN Err("ResourceLimit")
    ELSE IF \E i \in 1..(Len(sorted) - 1) : sorted[i].id = sorted[i + 1].id
         THEN Err("InvalidBarrier")
    ELSE IF \E b \in Range(sorted) : ~ValidSegment(b) THEN Err("InvalidBarrier")
    ELSE Ok(sorted)

OrientationSign(a, b, c) ==
    LET det == (b[1] - a[1]) * (c[2] - a[2]) - (b[2] - a[2]) * (c[1] - a[1])
    IN IF det > 0 THEN 1 ELSE IF det < 0 THEN -1 ELSE 0

OnSegment(a, b, p) ==
    \A i \in 1..2 : p[i] >= Min({a[i], b[i]}) /\ p[i] <= Max({a[i], b[i]})

SegmentsIntersect(a, b, c, d) ==
    LET first  == OrientationSign(a, b, c)
        second == OrientationSign(a, b, d)
        third  == OrientationSign(c, d, a)
        fourth == OrientationSign(c, d, b)
    IN \/ first = 0 /\ OnSegment(a, b, c)
       \/ second = 0 /\ OnSegment(a, b, d)
       \/ third = 0 /\ OnSegment(c, d, a)
       \/ fourth = 0 /\ OnSegment(c, d, b)
       \/ first # second /\ third # fourth

-----------------------------------------------------------------------------
(* The model: samples grouped by exact position.                            *)

ValidConfig(c) ==
    /\ c.radius > 0
    /\ c.minimum > 0 /\ c.maximum >= c.minimum /\ c.maximum <= MAX_NEIGHBORS
    /\ c.method = "idw" => c.power \in 1..MAX_POWER
    /\ c.extrapolation # Disabled => c.extrapolation >= c.radius

MethodMatches(binding, config) == binding.spatial \in {"any", config.method}

BeforeSample(a, b) ==
    \/ a.at[1] < b.at[1]
    \/ a.at[1] = b.at[1] /\ a.at[2] < b.at[2]
    \/ a.at = b.at /\ a.id < b.id

PositionRuns(known) ==
    FoldLeft(LAMBDA runs, s :
                 IF runs # <<>> /\ Last(runs)[1].at = s.at
                 THEN [runs EXCEPT ![Len(runs)] = Append(@, s)]
                 ELSE Append(runs, <<s>>),
             <<>>, known)

LocationGroup(run, method) ==
    [at |-> run[1].at, ids |-> [k \in DOMAIN run |-> run[k].id],
     aggregate |-> AggregateStatic(run, method)[2]]

GroupRuns(runs, method) == [i \in DOMAIN runs |-> LocationGroup(runs[i], method)]

LocationGroups(samples, method) ==
    GroupRuns(PositionRuns(SortSeq(SelectSeq(samples, LAMBDA s : IsKnown(s.value)),
                                   BeforeSample)),
              method)

SampleError(inputs, i) ==
    LET s == inputs.samples IN
    IF s[i].floor # inputs.floor THEN "FloorMismatch"
    ELSE IF s[i].frame # inputs.frame THEN "FrameMismatch"
    ELSE IF i > 1 /\ s[i - 1].id = s[i].id THEN "DuplicateObservation"
    ELSE "none"

BadSamples(inputs) == {i \in DOMAIN inputs.samples : SampleError(inputs, i) # "none"}

ModelOf(inputs, config, barriers) ==
    LET samples == inputs.samples
        method  == inputs.metric.aggregation
    IN IF ~ValidConfig(config) THEN Err("InvalidConfiguration")
       ELSE IF ~MethodMatches(inputs.metric, config) THEN Err("SpatialMethodMismatch")
       ELSE IF ~ValidMethod(method) \/ Temporal(method) THEN Err("InvalidAggregation")
       ELSE IF Len(samples) > MAX_SAMPLES THEN Err("ResourceLimit")
       ELSE IF BadSamples(inputs) # {} THEN Err(SampleError(inputs, Min(BadSamples(inputs))))
       ELSE Ok([inputs |-> inputs, config |-> config,
                groups |-> LocationGroups(samples, method), barriers |-> barriers])

Model(inputs, config, barriers) ==
    ModelOf([inputs EXCEPT !.samples = SortSeq(@, LAMBDA a, b : a.id < b.id)],
            config, barriers)

-----------------------------------------------------------------------------
(* Paths from a query point to a group.                                     *)

PathCost(geometric, crossed, blocked) ==
    LET sum(f(_)) == Total([i \in DOMAIN crossed |-> f(crossed[i])]) IN
    [geometric |-> geometric, crossed |-> crossed, blocked |-> blocked,
     cost |-> IF blocked # <<>> THEN Unknown("OutsideEvidenceSupport")
              ELSE Known([total |-> geometric + sum(LAMBDA b : b.cost),
                          attenuation |-> sum(LAMBDA b : b.attenuation)])]

PathBetween(model, from, to) ==
    LET crossed == IF from = to THEN <<>>
                   ELSE SelectSeq(model.barriers,
                                  LAMBDA b : SegmentsIntersect(from, to, b.start, b.end))
    IN PathCost(Distance(from, to), crossed, SelectSeq(crossed, LAMBDA b : b.impassable))

PathAssessments(model, point) ==
    [i \in DOMAIN model.groups |-> PathBetween(model, point, model.groups[i].at)]

-----------------------------------------------------------------------------
(* Estimates at a point.  The two estimators are separate code; they share  *)
(* convex_mean, and here the operators down to ObservedCell.                *)

SearchLimit(config) ==
    IF config.extrapolation = Disabled THEN config.radius ELSE config.extrapolation

(* convex_mean: contributor index[i] has weight w[i], times a common factor. *)
Blended(cell, model, index, w, supported) ==
    LET part(i) == w[i] * model.groups[index[i]].aggregate.estimate IN
    [cell EXCEPT
        !.value = Known(Fraction(Total([i \in DOMAIN w |-> part(i)]), Total(w))),
        !.class = IF supported THEN "Interpolated" ELSE "Extrapolated",
        !.contributors = [i \in DOMAIN w |-> [group |-> index[i],
                                              weight |-> Fraction(w[i], Total(w))]]]

(* Weights in inverse proportion to the losses, times the product of them all. *)
InverseWeights(loss) ==
    [i \in DOMAIN loss |-> FoldSet(LAMBDA j, w : w * loss[j], 1, DOMAIN loss \ {i})]

ObservedCell(cell, model, index) ==
    [cell EXCEPT !.value = Known(<<model.groups[index].aggregate.estimate, 1>>),
                 !.class = "Observed",
                 !.contributors = <<[group |-> index, weight |-> <<1, 1>>]>>]

-----------------------------------------------------------------------------
(* estimate_euclidean.  d[i] is the distance to group i.                    *)

EuclideanEmpty(model, d) ==
    LET supporting == {i \in DOMAIN d : d[i] <= model.config.radius} IN
    [value |-> Unknown(IF d = <<>> THEN "NotMeasured" ELSE "OutsideEvidenceSupport"),
     class |-> "Unknown",
     support_locations |-> Cardinality(supporting),
     support_observations |->
         FoldSet(LAMBDA i, n : n + Len(model.groups[i].ids), 0, supporting),
     nearest |-> IF d = <<>> THEN Unknown("NotMeasured") ELSE Known(Min(Range(d))),
     contributors |-> <<>>]

(* What the bounded heap of Neighbor holds at the end, sorted. *)
EuclideanHeap(d, config) ==
    LET sorted == SetToSortSeq({i \in DOMAIN d : d[i] <= SearchLimit(config)},
                               LAMBDA i, j : d[i] < d[j] \/ (d[i] = d[j] /\ i < j))
    IN SubSeq(sorted, 1, Min({config.maximum, Len(sorted)}))

EuclideanBlend(cell, model, d, neighbors, supported) ==
    LET config == model.config
        used == IF config.method = "nearest" THEN SubSeq(neighbors, 1, 1) ELSE neighbors
        loss == [i \in DOMAIN used |->
                    IF config.method = "nearest" THEN 1 ELSE d[used[i]] ^ config.power]
    IN IF Len(neighbors) < config.minimum THEN cell
       ELSE Blended(cell, model, used, InverseWeights(loss), supported)

(* A supported estimate uses supported neighbours only. *)
EuclideanInterpolated(cell, model, d, neighbors) ==
    LET supported == cell.support_locations >= model.config.minimum IN
    IF model.config.method = "point" \/ (~supported /\ model.config.extrapolation = Disabled)
    THEN cell
    ELSE EuclideanBlend(cell, model, d,
                        IF supported
                        THEN SelectSeq(neighbors, LAMBDA i : d[i] <= model.config.radius)
                        ELSE neighbors,
                        supported)

EuclideanCell(model, d) ==
    LET exact == {i \in DOMAIN d : d[i] = 0} IN
    IF exact # {} THEN ObservedCell(EuclideanEmpty(model, d), model, Max(exact))
    ELSE EuclideanInterpolated(EuclideanEmpty(model, d), model, d,
                               EuclideanHeap(d, model.config))

EstimateEuclidean(model, point) ==
    EuclideanCell(model, [i \in DOMAIN model.groups |-> Distance(point, model.groups[i].at)])

-----------------------------------------------------------------------------
(* estimate_barrier_aware.  A candidate is [index, distance, attenuation],  *)
(* its distance the total cost of the path.                                 *)

(* Linear form of the log weight, reversed: distance^power * 10^attenuation. *)
Loss(config, c) == c.distance ^ config.power * 10 ^ c.attenuation

(* The power-th power of the log form's antilogarithm, which orders alike. *)
SelectionScore(config, c) == IF config.method = "idw" THEN Loss(config, c) ELSE c.distance

(* The code as it would be if a group behind an impassable barrier still     *)
(* counted as support, at its geometric distance.                           *)
CandidatesBehind(paths) ==
    {[index |-> i,
      distance |-> IF IsKnown(paths[i].cost) THEN paths[i].cost[2].total
                                             ELSE paths[i].geometric,
      attenuation |-> IF IsKnown(paths[i].cost) THEN paths[i].cost[2].attenuation ELSE 0] :
        i \in DOMAIN paths}

(* A group behind an impassable barrier is no candidate and no support. *)
Candidates(paths) ==
    {[index |-> i, distance |-> paths[i].cost[2].total,
      attenuation |-> paths[i].cost[2].attenuation] :
        i \in {k \in DOMAIN paths : IsKnown(paths[k].cost)}}

BarrierEmpty(model, candidates) ==
    LET supporting == {c \in candidates : c.distance <= model.config.radius}
        reason == IF model.groups = <<>> THEN "NotMeasured" ELSE "OutsideEvidenceSupport"
    IN [value |-> Unknown(reason), class |-> "Unknown",
        support_locations |-> Cardinality(supporting),
        support_observations |->
            FoldSet(LAMBDA c, n : n + Len(model.groups[c.index].ids), 0, supporting),
        nearest |-> IF candidates = {} THEN Unknown(reason)
                    ELSE Known(Min({c.distance : c \in candidates})),
        contributors |-> <<>>]

BeforeCandidate(config, a, b) ==
    LET x == SelectionScore(config, a)
        y == SelectionScore(config, b)
    IN \/ x < y
       \/ x = y /\ a.distance < b.distance
       \/ x = y /\ a.distance = b.distance /\ a.index < b.index

(* What the bounded heap of BarrierNeighbor holds at the end, sorted. *)
BarrierHeap(candidates, config) ==
    LET sorted == SetToSortSeq({c \in candidates : c.distance <= SearchLimit(config)},
                               LAMBDA a, b : BeforeCandidate(config, a, b))
    IN SubSeq(sorted, 1, Min({config.maximum, Len(sorted)}))

(* The stable sort that puts the strongest contributor first. *)
StrongestFirst(neighbors, loss) ==
    LET rank == SetToSortSeq(DOMAIN neighbors,
                             LAMBDA i, j : loss[i] < loss[j] \/ (loss[i] = loss[j] /\ i < j))
    IN [i \in DOMAIN rank |-> neighbors[rank[i]]]

WeighedCell(cell, model, weighted, supported) ==
    Blended(cell, model, [i \in DOMAIN weighted |-> weighted[i].index],
            InverseWeights([i \in DOMAIN weighted |->
                               IF model.config.method = "nearest" THEN 1
                               ELSE Loss(model.config, weighted[i])]),
            supported)

BarrierBlend(cell, model, neighbors, supported) ==
    LET config == model.config IN
    IF Len(neighbors) < config.minimum THEN cell
    ELSE IF config.method = "nearest"
         THEN WeighedCell(cell, model, SubSeq(neighbors, 1, 1), supported)
    ELSE WeighedCell(cell, model,
                     StrongestFirst(neighbors, [i \in DOMAIN neighbors |->
                                                   Loss(config, neighbors[i])]),
                     supported)

BarrierInterpolated(cell, model, neighbors) ==
    LET config == model.config
        supported == cell.support_locations >= config.minimum
    IN IF config.method = "point" \/ (~supported /\ config.extrapolation = Disabled)
       THEN cell
       ELSE BarrierBlend(cell, model,
                         IF supported
                         THEN SelectSeq(neighbors, LAMBDA c : c.distance <= config.radius)
                         ELSE neighbors,
                         supported)

BarrierCell(model, point, candidates) ==
    LET exact == {i \in DOMAIN model.groups : model.groups[i].at = point} IN
    IF exact # {} THEN ObservedCell(BarrierEmpty(model, candidates), model, Max(exact))
    ELSE BarrierInterpolated(BarrierEmpty(model, candidates), model,
                             BarrierHeap(candidates, model.config))

EstimateBarrierAware(model, point) ==
    BarrierCell(model, point, Candidates(PathAssessments(model, point)))

-----------------------------------------------------------------------------
Estimate(model, point) ==
    IF model.barriers # <<>> THEN EstimateBarrierAware(model, point)
                             ELSE EstimateEuclidean(model, point)

-----------------------------------------------------------------------------
(* Tiles.                                                                   *)

Center(grid, column, row) ==
    <<(2 * (grid.columns + column) + 1) * grid.resolution + grid.origin[1],
      (2 * (grid.rows + row) + 1) * grid.resolution + grid.origin[2]>>

GridError(grid) ==
    IF grid.width * grid.height \notin 1..MAX_CELLS THEN "ResourceLimit"
    ELSE IF grid.resolution <= 0 THEN "InvalidConfiguration"
    ELSE IF grid.columns + grid.width > MAX_OFFSET \/ grid.rows + grid.height > MAX_OFFSET
         THEN "ResourceLimit"
    ELSE "none"

TILE_SCHEMA_VERSION == "tile/2"
ALGORITHM_VERSION == "spatial/2"
BARRIER_ALGORITHM_VERSION == "barrier-idw/1"

CellsOf(model, grid) ==
    [k \in 1..(grid.width * grid.height) |->
        Estimate(model, Center(grid, (k - 1) % grid.width, (k - 1) \div grid.width))]

Tile(model, grid) ==
    LET work == grid.width * grid.height * Len(model.groups) IN
    IF grid.floor # model.inputs.floor THEN Err("FloorMismatch")
    ELSE IF grid.frame # model.inputs.frame THEN Err("FrameMismatch")
    ELSE IF GridError(grid) # "none" THEN Err(GridError(grid))
    ELSE IF work > MAX_DISTANCE_EVALUATIONS THEN Err("ResourceLimit")
    ELSE IF work * Len(model.barriers) > MAX_BARRIER_EVALUATIONS THEN Err("ResourceLimit")
    ELSE Ok([schema |-> TILE_SCHEMA_VERSION,
             algorithm |-> IF model.barriers = <<>> THEN ALGORITHM_VERSION
                                                    ELSE BARRIER_ALGORITHM_VERSION,
             aggregation |-> model.inputs.metric.aggregation,
             inputs |-> model.inputs, config |-> model.config, groups |-> model.groups,
             grid |-> grid, cells |-> CellsOf(model, grid), barriers |-> model.barriers])

TileOf(inputs, config, barriers, grid) ==
    Then(Model(inputs, config, barriers), LAMBDA model : Tile(model, grid))
=============================================================================
