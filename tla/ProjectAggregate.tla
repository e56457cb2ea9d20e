------------------------- MODULE ProjectAggregate -------------------------
(***************************************************************************)
(* crates/domain/src/project.rs and project/commands.rs: the project       *)
(* aggregate (sites, buildings, floors, maps, calibrations, bound          *)
(* evidence), the fourteen commands that change it, the validation every   *)
(* changed aggregate passes, and the linear execution that leaves a        *)
(* receipt with an inverse command.                                        *)
(*                                                                         *)
(* A command is a record kind, id, value; value is a record whose fields   *)
(* depend on the kind.  An active calibration is an identity or Unknown    *)
(* (NotMeasured); other unknown reasons are the value "withheld".          *)
(***************************************************************************)
EXTENDS Integers, Sequences, FiniteSets, Functions, TLC

CONSTANTS
    Initial,        \* the revision-zero hierarchy a project starts from
    Commands,       \* the commands callers try
    MaxRecords      \* bound: commands executed in a row

VARIABLES
    project,        \* the aggregate
    records         \* receipts, oldest first, with the aggregate before

Unknown == "unknown"
NoUndo == [kind |-> "none", id |-> "", value |-> [none |-> ""]]
Command(kind, id, value) == [kind |-> kind, id |-> id, value |-> value]

(* Project::with_initial_hierarchy                                         *)
Baseline ==
    [name |-> Initial.name, sites |-> Initial.sites,
     buildings |-> Initial.buildings, floors |-> Initial.floors,
     maps |-> << >>, calibrations |-> << >>, active |-> << >>,
     bound |-> << >>, applied |-> << >>, revision |-> 0, time |-> 0, schema |-> 1]

(* What an edit changes, without the history counters.                     *)
Content(p) ==
    <<p.name, p.sites, p.buildings, p.floors, p.maps, p.calibrations,
      p.active, p.bound>>
-----------------------------------------------------------------------------
(* unlocked: a floor that exists and that no evidence is bound to.         *)
Unlocked(p, floor) == floor \in DOMAIN p.floors /\ floor \notin DOMAIN p.bound

(* check_calibration: the controls lie in the map's and the floor's frames *)
(* (inside says that the control points are inside the image).             *)
CheckCalibration(p, c) ==
    /\ c.map \in DOMAIN p.maps
    /\ p.maps[c.map].floor \in DOMAIN p.floors
    /\ c.source = p.maps[c.map].frame
    /\ c.target = p.floors[p.maps[c.map].floor].frame
    /\ c.inside

(* check_calibration_ref                                                   *)
CheckCalibrationRef(p, map, ref) ==
    \/ ref = Unknown
    \/ ref \in DOMAIN p.calibrations /\ p.calibrations[ref].map = map

MapUnlocked(p, map) == map \in DOMAIN p.maps /\ Unlocked(p, p.maps[map].floor)
Uses(table, field, id) == \E k \in DOMAIN table : table[k][field] = id

(* The conditions and early returns of Project::apply, for names, sites,   *)
(* buildings and floors.                                                   *)
AdmitsHierarchy(p, c) ==
    CASE c.kind = "SetProjectName" -> TRUE
      [] c.kind = "SetSiteName" -> c.id \in DOMAIN p.sites
      [] c.kind = "CreateSite" -> c.id \notin DOMAIN p.sites
      [] c.kind = "RemoveSite" ->
           c.id \in DOMAIN p.sites /\ ~ Uses(p.buildings, "site", c.id)
      [] c.kind = "CreateBuilding" -> c.id \notin DOMAIN p.buildings
      [] c.kind = "RemoveBuilding" ->
           c.id \in DOMAIN p.buildings /\ ~ Uses(p.floors, "building", c.id)
      [] c.kind = "CreateFloor" -> c.id \notin DOMAIN p.floors
      [] c.kind = "RemoveFloor" -> Unlocked(p, c.id) /\ ~ Uses(p.maps, "floor", c.id)
      [] OTHER -> FALSE

(* The same for maps, calibrations and evidence, activate included.        *)
AdmitsMap(p, c) ==
    CASE c.kind = "ImportMap" -> Unlocked(p, c.value.floor) /\ c.id \notin DOMAIN p.maps
      [] c.kind = "RemoveMap" ->
           MapUnlocked(p, c.id) /\ ~ Uses(p.calibrations, "map", c.id)
      [] c.kind = "CalibrateMap" ->
           /\ c.id \notin DOMAIN p.calibrations
           /\ CheckCalibration(p, c.value)
           /\ MapUnlocked(p, c.value.map)
      [] c.kind = "RemoveCalibration" ->
           /\ c.id \in DOMAIN p.calibrations
           /\ MapUnlocked(p, p.calibrations[c.id].map)
           /\ CheckCalibrationRef(p, p.calibrations[c.id].map, c.value.active)
           /\ c.value.active # c.id
      [] c.kind = "ActivateCalibration" ->
           MapUnlocked(p, c.id) /\ CheckCalibrationRef(p, c.id, c.value.active)
      [] c.kind = "BindFloorEvidence" -> Unlocked(p, c.id) /\ c.value.length # 0
      [] OTHER -> FALSE

Admits(p, c) == AdmitsHierarchy(p, c) \/ AdmitsMap(p, c)

WithEntry(table, key, data) == (key :> data) @@ table
Drop(table, key) == Restrict(table, DOMAIN table \ {key})

(* Mutant of Changed: removing a calibration leaves the active reference.  *)
ChangedKeepingActive(p, c) ==
    IF c.kind = "RemoveCalibration"
    THEN [p EXCEPT !.calibrations = Drop(@, c.id)]
    ELSE IF c.kind = "CalibrateMap"
    THEN [p EXCEPT !.calibrations = WithEntry(@, c.id, c.value)]
    ELSE IF c.kind = "ActivateCalibration"
    THEN [p EXCEPT !.active = WithEntry(@, c.id, c.value.active)]
    ELSE IF c.kind = "ImportMap"
    THEN [p EXCEPT !.maps = WithEntry(@, c.id, c.value), !.active = WithEntry(@, c.id, Unknown)]
    ELSE p

(* The assignments of Project::apply.                                      *)
Changed(p, c) ==
    CASE c.kind = "SetProjectName" -> [p EXCEPT !.name = c.value.name]
      [] c.kind \in {"SetSiteName", "CreateSite"} ->
           [p EXCEPT !.sites = WithEntry(@, c.id, c.value)]
      [] c.kind = "RemoveSite" -> [p EXCEPT !.sites = Drop(@, c.id)]
      [] c.kind = "CreateBuilding" -> [p EXCEPT !.buildings = WithEntry(@, c.id, c.value)]
      [] c.kind = "RemoveBuilding" -> [p EXCEPT !.buildings = Drop(@, c.id)]
      [] c.kind = "CreateFloor" -> [p EXCEPT !.floors = WithEntry(@, c.id, c.value)]
      [] c.kind = "RemoveFloor" -> [p EXCEPT !.floors = Drop(@, c.id)]
      [] c.kind = "ImportMap" ->
           [p EXCEPT !.maps = WithEntry(@, c.id, c.value), !.active = WithEntry(@, c.id, Unknown)]
      [] c.kind = "RemoveMap" ->
           [p EXCEPT !.maps = Drop(@, c.id), !.active = Drop(@, c.id)]
      [] c.kind = "CalibrateMap" ->
           [p EXCEPT !.calibrations = WithEntry(@, c.id, c.value),
                     !.active = WithEntry(@, c.value.map, c.id)]
      [] c.kind = "RemoveCalibration" ->
           [p EXCEPT !.calibrations = Drop(@, c.id),
                     !.active = WithEntry(@, p.calibrations[c.id].map, c.value.active)]
      [] c.kind = "ActivateCalibration" ->
           [p EXCEPT !.active = WithEntry(@, c.id, c.value.active)]
      [] c.kind = "BindFloorEvidence" -> [p EXCEPT !.bound = WithEntry(@, c.id, c.value)]

(* The inverse command Project::apply returns with its event.              *)
InverseOf(p, c) ==
    CASE c.kind = "SetProjectName" -> Command(c.kind, c.id, [name |-> p.name])
      [] c.kind = "SetSiteName" -> Command(c.kind, c.id, p.sites[c.id])
      [] c.kind = "CreateSite" -> Command("RemoveSite", c.id, [none |-> ""])
      [] c.kind = "RemoveSite" -> Command("CreateSite", c.id, p.sites[c.id])
      [] c.kind = "CreateBuilding" -> Command("RemoveBuilding", c.id, [none |-> ""])
      [] c.kind = "RemoveBuilding" -> Command("CreateBuilding", c.id, p.buildings[c.id])
      [] c.kind = "CreateFloor" -> Command("RemoveFloor", c.id, [none |-> ""])
      [] c.kind = "RemoveFloor" -> Command("CreateFloor", c.id, p.floors[c.id])
      [] c.kind = "ImportMap" -> Command("RemoveMap", c.id, [none |-> ""])
      [] c.kind = "RemoveMap" -> Command("ImportMap", c.id, p.maps[c.id])
      [] c.kind = "CalibrateMap" ->
           Command("ActivateCalibration", c.value.map, [active |-> p.active[c.value.map]])
      [] c.kind = "RemoveCalibration" ->
           Command("CalibrateMap", c.id, p.calibrations[c.id])
      [] c.kind = "ActivateCalibration" ->
           Command(c.kind, c.id, [active |-> p.active[c.id]])
      [] c.kind = "BindFloorEvidence" -> NoUndo
-----------------------------------------------------------------------------
(* Project::validate: dense revisions, references that exist, one frame    *)
(* per entity, an active calibration for every map.                        *)
Frames(table) == {<<k, table[k].frame>> : k \in DOMAIN table}

Valid(p) ==
    /\ p.revision = Cardinality(DOMAIN p.applied)
    /\ p.revision > 0 => p.time > 0
    /\ p.schema = 1 => p.time >= p.revision
    /\ {p.applied[o] : o \in DOMAIN p.applied} = 1 .. p.revision
    /\ \A b \in DOMAIN p.buildings : p.buildings[b].site \in DOMAIN p.sites
    /\ \A f \in DOMAIN p.floors :
        /\ p.floors[f].building \in DOMAIN p.buildings
        /\ p.floors[f].under = p.buildings[p.floors[f].building].frame
    /\ \A m \in DOMAIN p.maps :
        /\ p.maps[m].floor \in DOMAIN p.floors
        /\ m \in DOMAIN p.active
        /\ CheckCalibrationRef(p, m, p.active[m])
    /\ DOMAIN p.active = DOMAIN p.maps
    /\ \A c \in DOMAIN p.calibrations : CheckCalibration(p, p.calibrations[c])
    /\ \A f \in DOMAIN p.bound : f \in DOMAIN p.floors
    /\ LET framed == Frames(p.buildings) \cup Frames(p.floors) \cup Frames(p.maps)
       IN  \A x, y \in framed : x[2] = y[2] => x = y

Failed == [ok |-> FALSE, project |-> Baseline]

(* The common tail of execute and apply_materialized.                      *)
Committed(p, op, time, command, schema) ==
    IF op \in DOMAIN p.applied \/ ~ Admits(p, command) THEN Failed
    ELSE LET next == [Changed(p, command) EXCEPT
                        !.revision = p.revision + 1, !.time = time,
                        !.applied = WithEntry(@, op, p.revision + 1), !.schema = schema]
         IN  IF Valid(next) THEN [ok |-> TRUE, project |-> next] ELSE Failed

(* Project::execute: expected revision and a later logical time.           *)
Executed(p, request) ==
    IF request.expected # p.revision \/ request.time <= p.time THEN Failed
    ELSE Committed(p, request.op, request.time, request.command, p.schema)

(* Project::apply_materialized: schema 2, the larger logical time.         *)
Materialized(p, op, time, command) ==
    IF time = 0 THEN Failed
    ELSE Committed(p, op, IF time > p.time THEN time ELSE p.time, command, 2)

(* Project::replay: executes the request again and compares the receipt.   *)
Replayed(p, record) ==
    IF Executed(p, record.request).ok /\ InverseOf(p, record.request.command) = record.undo
    THEN Executed(p, record.request)
    ELSE Failed
-----------------------------------------------------------------------------
AggregateInit == project = Baseline /\ records = << >>

(* One accepted command.  Linear operations have negative identities.      *)
Execute(command) ==
    LET request == [op |-> -1 - Len(records), command |-> command,
                    expected |-> project.revision, time |-> project.time + 1]
        outcome == Executed(project, request)
    IN  /\ Len(records) < MaxRecords
        /\ outcome.ok
        /\ project' = outcome.project
        /\ records' = Append(records,
             [request |-> request, undo |-> InverseOf(project, command), before |-> project])

AggregateNext == \E command \in Commands : Execute(command)

(* Every receipt's inverse is admitted right after it and gives back what  *)
(* the command changed: the whole content, except that a calibration       *)
(* record stays (commands.rs: switch an active revision without deleting   *)
(* historical calibrations), that removing an inactive calibration undoes  *)
(* to an active one, and that binding evidence has no inverse.  Replaying  *)
(* all receipts from the baseline gives the aggregate.                     *)
ReceiptsUndoAndReplay ==
    /\ records # << >> =>
        LET r == records[Len(records)]
            c == r.request.command
            undone == Committed(project, 0, project.time + 1, r.undo, project.schema)
            q == undone.project
        IN  r.undo # NoUndo =>
            /\ undone.ok
            /\ CASE c.kind = "CalibrateMap" ->
                      Content([q EXCEPT !.calibrations = Drop(@, c.id)]) = Content(r.before)
                 [] /\ c.kind = "RemoveCalibration"
                    /\ r.before.active[c.value.map] # c.id ->
                      Content([q EXCEPT !.active = r.before.active]) = Content(r.before)
                 [] OTHER -> Content(q) = Content(r.before)
    /\ LET again[n \in 0 .. Len(records)] ==
            IF n = 0 THEN [ok |-> TRUE, project |-> Baseline]
            ELSE IF again[n - 1].ok THEN Replayed(again[n - 1].project, records[n])
            ELSE Failed
       IN  again[Len(records)] = [ok |-> TRUE, project |-> project]
=============================================================================
