--------------------------- MODULE MCOperationLog ---------------------------
(***************************************************************************)
(* A small world of submissions for OperationLog: root and child applies   *)
(* with right and wrong depths, clocks and projects, toggles against any   *)
(* of them, and a resolution.                                              *)
(***************************************************************************)
EXTENDS OperationLog

CONSTANT MaxId      \* operation identities are 1 .. MaxId

MCShapes(id) ==
    {[parents |-> {}, depth |-> 0], [parents |-> {1}, depth |-> 1]} \cup
    {[parents |-> {id - 1}, depth |-> d] : d \in (id - 2 .. id - 1) \ {0}}

\* The content hash is modelled by the content itself.
MCOp(id, owner, schema, shape, time, kind, target, reversible) ==
    [id |-> id, project |-> owner, schema |-> schema, parents |-> shape.parents,
     depth |-> shape.depth, time |-> time, kind |-> kind, target |-> target,
     reversible |-> reversible,
     hash |-> <<id, owner, schema, shape, time, kind, target, reversible>>]

MCRoots ==
    {MCOp(1, owner, 1, [parents |-> {}, depth |-> 0], 1, "Apply", {}, reversible) :
        owner \in {"p", "q"}, reversible \in BOOLEAN}

MCApplies ==
    MCRoots \cup
    {MCOp(id, "p", 1, shape, time, "Apply", {}, TRUE) :
        id \in {2}, shape \in MCShapes(2), time \in {1, 2}} \cup
    {MCOp(3, "p", 1, shape, 2, "Apply", {}, TRUE) : shape \in MCShapes(3)}

MCTargets ==
    {[id |-> op.id, hash |-> op.hash] :
        op \in {a \in MCApplies : a.id <= 2 /\ a.project = "p"}}

MCToggles ==
    UNION {{MCOp(id, "p", 1, shape, id, kind, {target}, FALSE) :
                shape \in MCShapes(id), kind \in {"Undo", "Redo"},
                target \in MCTargets} : id \in 2 .. MaxId}

MCOddities ==
    {MCOp(2, "p", 2, shape, 2, "Undo", {target}, FALSE) :
        shape \in MCShapes(2), target \in MCTargets} \cup
    {MCOp(2, "p", 1, [parents |-> {1}, depth |-> 1], 2, "Resolve", {}, FALSE)}

MCOperations == MCApplies \cup MCToggles \cup MCOddities
=============================================================================
