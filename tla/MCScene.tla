------------------------------- MODULE MCScene -------------------------------
(* Small tiles over one floor: up to three samples on a few positions, one  *)
(* barrier, grids of two and four cells.                                    *)
EXTENDS RenderScene

Median == [kind |-> "median", a |-> 0, b |-> 0]
Spread == [kind |-> "percentile", a |-> 1, b |-> 3]

Definition(schema, spatial, method) ==
    [schema |-> schema, id |-> "rssi", revision |-> 1, spatial |-> spatial,
     aggregation |-> method, bytes |-> 2]

Bound(definition) ==
    MetricBinding([content |-> definition, media |-> definition.schema,
                   version |-> VersionLabel(definition)],
                  definition, definition.aggregation)[2]

Metric(spatial) == Bound(Definition("metric", spatial, Median))
Legacy == Bound(Definition("signal", "point", Spread))

Positions == {<<1, 1>>, <<3, 1>>, <<1, 5>>}

Samples(spots, last) ==
    [i \in DOMAIN spots |->
        [id |-> i, floor |-> "floor", frame |-> "frame", at |-> spots[i],
         value |-> IF i = 3 THEN last ELSE Known(-80 * i)]]

Inputs(metric, samples) ==
    [floor |-> "floor", frame |-> "frame", metric |-> metric, samples |-> samples,
     source |-> [bytes |-> 3, hash |-> "survey"]]

Config(method, minimum, maximum, extrapolation) ==
    [method |-> method, power |-> 1, radius |-> 25, minimum |-> minimum,
     maximum |-> maximum, extrapolation |-> extrapolation]

Grid(width, height) ==
    [floor |-> "floor", frame |-> "frame", origin |-> <<0, 0>>, resolution |-> 1,
     columns |-> 0, rows |-> 0, width |-> width, height |-> height]

Wall(start, end, cost, attenuation, impassable) ==
    [id |-> 1, start |-> start, end |-> end, cost |-> cost,
     attenuation |-> attenuation, impassable |-> impassable]

Walls == {Wall(<<2, 0>>, <<2, 4>>, 0, 1, FALSE), Wall(<<2, 2>>, <<2, 4>>, 10, 1, FALSE),
          Wall(<<2, 1>>, <<2, 4>>, 0, 0, TRUE), Wall(<<1, 3>>, <<0, 3>>, 3, 2, FALSE)}

Configs == {Config("idw", min, max, e) : min \in 1..2, max \in 1..3, e \in {Disabled, 45}}
           \cup {[Config("idw", 1, 2, e) EXCEPT !.power = 2] : e \in {Disabled, 45}}
           \cup {Config(m, 1, 2, e) : m \in {"point", "nearest"}, e \in {Disabled, 45}}

Layouts == UNION {[1..k -> Positions] : k \in 0..2}
           \cup {spots \in [1..3 -> Positions] : spots[1] # spots[2]}

(* Every layout with every configuration, with and without a wall. *)
Surveys ==
    {[inputs |-> Inputs(Metric(c.method), Samples(spots, Known(-240))), config |-> c,
      barriers |-> b, grid |-> Grid(2, 2)] :
        spots \in Layouts, c \in Configs, b \in {<<>>} \cup {<<w>> : w \in Walls}}

(* The tiles that are turned into scenes. *)
Projected ==
    {[inputs |-> Inputs(IF spots = <<>> THEN Legacy ELSE Metric(c.method), Samples(spots, last)),
      config |-> c, barriers |-> b, grid |-> Grid(2, h)] :
        spots \in {<<>>, <<<<1, 1>>, <<3, 1>>, <<1, 1>>>>, <<<<1, 5>>, <<3, 1>>, <<1, 5>>>>},
        last \in {Known(-240), Unknown("NotMeasured")},
        c \in {d \in Configs : d.maximum = 2 /\ d.minimum = 1},
        b \in {<<>>, <<CHOOSE w \in Walls : w.impassable>>}, h \in 1..2}

(* Requests that are refused. *)
Refused ==
    LET base == [inputs |-> Inputs(Metric("idw"), Samples(<<<<1, 1>>>>, Known(-240))),
                 config |-> Config("idw", 1, 2, Disabled), barriers |-> <<>>,
                 grid |-> Grid(2, 2)]
    IN {[base EXCEPT !.grid.floor = "otherFloor"], [base EXCEPT !.grid = Grid(3, 3)],
        [base EXCEPT !.grid.width = 0], [base EXCEPT !.grid.columns = 7],
        [base EXCEPT !.grid.resolution = 0], [base EXCEPT !.config.method = "nearest"],
        [base EXCEPT !.inputs.samples[1].frame = "otherFrame"],
        [base EXCEPT !.inputs.samples = @ \o @],
        [base EXCEPT !.barriers = <<Wall(<<2, 0>>, <<2, 0>>, 0, 1, FALSE)>>]}

MCRequests == Surveys \cup Projected \cup Refused

MCTileEdits(r) ==
    IF r \in Projected
    THEN {"none", "value", "class", "support", "cell", "order", "sample", "groups",
          "radius", "algorithm", "floor"}
    ELSE {}

MCDocumentEdits(r) ==
    IF r \in Projected
    THEN {"none", "spelling", "unknown", "depth", "text", "root", "group", "aggregate",
          "cell", "value", "order", "metric", "method", "algorithm"}
    ELSE {}
=============================================================================
