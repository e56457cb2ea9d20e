-------------------------- MODULE MCMaterializer --------------------------
(***************************************************************************)
(* A project with one site, building and floor; commands for every path    *)
(* of the aggregate, and edits of two replicas that meet on one map.       *)
(***************************************************************************)
EXTENDS Materializer

MCInitial ==
    [name |-> "n0", sites |-> "s1" :> [name |-> "home"],
     buildings |-> "b1" :> [site |-> "s1", frame |-> "fb1"],
     floors |-> "f1" :> [building |-> "b1", frame |-> "ff1", under |-> "fb1"]]

None == [none |-> ""]

Cal(target) == [map |-> "m1", source |-> "fm1", target |-> target, inside |-> TRUE]

Import == Command("ImportMap", "m1", [floor |-> "f1", frame |-> "fm1"])
Calibrate(c) == Command("CalibrateMap", c, Cal("ff1"))

MCCommands ==
    {Command("SetProjectName", "", [name |-> "n1"]),
     Command("SetSiteName", "s1", [name |-> "away"]),
     Command("CreateSite", "s2", [name |-> "home"]),
     Command("RemoveSite", "s2", None), Command("RemoveSite", "s1", None),
     Command("CreateBuilding", "b2", [site |-> "s2", frame |-> "fb2"]),
     Command("RemoveBuilding", "b2", None),
     Command("CreateFloor", "f2", [building |-> "b1", frame |-> "ff2", under |-> "fb1"]),
     Command("RemoveFloor", "f1", None), Command("RemoveFloor", "f2", None),
     Command("ImportMap", "m1", [floor |-> "f1", frame |-> "fm1"]),
     Command("ImportMap", "m2", [floor |-> "f2", frame |-> "fm1"]),
     Command("RemoveMap", "m1", None),
     Command("CalibrateMap", "c1", Cal("ff1")),
     Command("CalibrateMap", "c2", Cal("ff1")),
     Command("CalibrateMap", "c3", Cal("ff2")),
     Command("RemoveCalibration", "c1", [active |-> Unknown, map |-> "m1"]),
     Command("RemoveCalibration", "c1", [active |-> "c2", map |-> "m1"]),
     Command("ActivateCalibration", "m1", [active |-> "c1"]),
     Command("ActivateCalibration", "m1", [active |-> Unknown]),
     Command("BindFloorEvidence", "f1", [length |-> 1]),
     Command("BindFloorEvidence", "f1", [length |-> 0])}

NoCommands == {}

Name(n) == Command("SetProjectName", "", [name |-> n])

MCEdits ==
    (1 :> {Import, Calibrate("c1"), Name("n1"),
           Command("BindFloorEvidence", "f1", [length |-> 1])}) @@
    (2 :> {Calibrate("c1"), Calibrate("c2"), Name("n2"),
           Command("ActivateCalibration", "m1", [active |-> "c1"])})

FewEdits ==
    (1 :> {Import, Command("SetSiteName", "s1", [name |-> "away"])}) @@
    (2 :> {Calibrate("c1")})
=============================================================================
