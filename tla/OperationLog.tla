---------------------------- MODULE OperationLog ----------------------------
(***************************************************************************)
(* The command-side linear log of crates/operation-log: an append is       *)
(* admitted only as the child of the current tip, a retry of an operation  *)
(* already in the log is answered without a change, and undo/redo toggles  *)
(* are admitted only against an operation in the opposite state.           *)
(*                                                                         *)
(* An operation is an immutable, content-hashed value.  Operations is the  *)
(* set of well-formed operation values callers may submit: the fields are  *)
(* the ones admission reads.  An Option is a set with at most one element. *)
(***************************************************************************)
EXTENDS Integers, FiniteSets

CONSTANTS
    Operations,         \* operation values that pass Operation::try_parts
    ProjectId,          \* the project this log belongs to
    MaxOperationCount   \* MAX_OPERATION_COUNT

Ids == {op.id : op \in Operations}
Hashes == {op.hash : op \in Operations}
Kinds == {"Apply", "Undo", "Redo", "Resolve"}

(* Operation::try_parts: an operation is a root exactly when its causal    *)
(* depth is zero, logical times are positive, and only a toggle carries a  *)
(* target reference.                                                       *)
WellFormed(op) ==
    /\ op.depth \in Nat
    /\ op.time \in Nat \ {0}
    /\ op.kind \in Kinds
    /\ op.reversible \in BOOLEAN
    /\ op.parents \subseteq Ids
    /\ IsFiniteSet(op.parents)
    /\ op.parents = {} <=> op.depth = 0
    /\ op.kind \in {"Undo", "Redo"} <=> op.target # {}
    /\ \A a, b \in op.target : a = b

ASSUME OperationsWellFormed == \A op \in Operations : WellFormed(op)

(* The content hash is SHA-256 over the canonical encoding; equal hashes   *)
(* are taken to mean equal operations.                                     *)
ASSUME HashIsIdentity ==
    \A a, b \in Operations : a.hash = b.hash => a = b

ASSUME CountLimit == MaxOperationCount \in Nat

VARIABLES
    revision,       \* ProjectVersion
    logicalTime,    \* LogicalTimestamp, 0 before the first append
    tip,            \* Option<OperationId>
    operations,     \* BTreeMap<OperationId, Operation>
    active,         \* BTreeMap<OperationId, bool>
    outcome         \* what the last append returned

vars == <<revision, logicalTime, tip, operations, active, outcome>>

Init ==
    /\ revision = 0
    /\ logicalTime = 0
    /\ tip = {}
    /\ operations = [id \in {} |-> {}]
    /\ active = [id \in {} |-> FALSE]
    /\ outcome = [kind |-> "None", revision |-> 0]

Present(id) == id \in DOMAIN operations

(* The stored operation a retry refers to has the same content hash.       *)
IsDuplicate(op) == Present(op.id) /\ operations[op.id].hash = op.hash

ExpectedDepth(d) == \A t \in tip : d = operations[t].depth + 1

(* validate_target: a resolution never enters a linear log; a toggle names *)
(* a stored, reversible Apply of its own schema version by id and hash,    *)
(* and finds it in the state it wants to leave.                            *)
ValidTarget(op) ==
    /\ op.kind # "Resolve"
    /\ \A t \in op.target :
        /\ Present(t.id)
        /\ operations[t.id].hash = t.hash
        /\ operations[t.id].schema = op.schema
        /\ operations[t.id].kind = "Apply"
        /\ operations[t.id].reversible
        /\ t.id \in DOMAIN active
        /\ active[t.id] = (op.kind = "Undo")

(* The checks append makes before it changes anything.                     *)
Admissible(op) ==
    /\ op.project = ProjectId
    /\ ~ Present(op.id)
    /\ Cardinality(DOMAIN operations) < MaxOperationCount
    /\ op.parents = tip
    /\ tip = {} => op.depth = 0
    /\ ExpectedDepth(op.depth)
    /\ op.time > logicalTime
    /\ ValidTarget(op)

Put(f, k, v) == [x \in DOMAIN f \cup {k} |-> IF x = k THEN v ELSE f[x]]

TargetId(op) == (CHOOSE t \in op.target : TRUE).id

(* Mutant of ActiveAfter: a redo is recorded as an undo.                   *)
ActiveAfterRedoLost(op) ==
    IF op.kind = "Apply" THEN Put(active, op.id, TRUE)
    ELSE Put(active, TargetId(op), FALSE)

(* Apply inserts true for itself, undo false and redo true for the target. *)
ActiveAfter(op) ==
    IF op.kind = "Apply" THEN Put(active, op.id, TRUE)
    ELSE Put(active, TargetId(op), op.kind = "Redo")

AppendNew(op) ==
    /\ Admissible(op)
    /\ revision' = revision + 1
    /\ logicalTime' = op.time
    /\ tip' = {op.id}
    /\ active' = ActiveAfter(op)
    /\ operations' = Put(operations, op.id, op)
    /\ outcome' = [kind |-> "Appended", revision |-> revision + 1]

AppendDuplicate(op) ==
    /\ op.project = ProjectId
    /\ IsDuplicate(op)
    /\ outcome' = [kind |-> "Duplicate", revision |-> revision]
    /\ UNCHANGED <<revision, logicalTime, tip, operations, active>>

(* Every error return of append: the log is left as it was.                *)
AppendRejected(op) ==
    /\ ~ Admissible(op)
    /\ ~ (op.project = ProjectId /\ IsDuplicate(op))
    /\ outcome' = [kind |-> "Rejected", revision |-> revision]
    /\ UNCHANGED <<revision, logicalTime, tip, operations, active>>

Submit(op) == AppendNew(op) \/ AppendDuplicate(op) \/ AppendRejected(op)

Next == \E op \in Operations : Submit(op)

Spec == Init /\ [][Next]_vars
-----------------------------------------------------------------------------
(* The type of the log.                                                    *)
TypeOK ==
    /\ revision \in 0 .. MaxOperationCount
    /\ logicalTime \in Nat
    /\ tip \subseteq DOMAIN operations
    /\ DOMAIN operations \subseteq Ids
    /\ \A id \in DOMAIN operations :
        operations[id] \in Operations /\ operations[id].id = id
    /\ DOMAIN active = {id \in DOMAIN operations : operations[id].kind = "Apply"}
    /\ \A id \in DOMAIN active : active[id] \in BOOLEAN
    /\ outcome \in [kind : {"None", "Appended", "Duplicate", "Rejected"},
                    revision : Nat]

(* The stored operations are one chain: depths are exactly 0 .. revision-1,*)
(* no two operations share a depth, the tip is the deepest one, and the    *)
(* only parent of an operation is the one just above it.                   *)
SingleChain ==
    /\ {operations[id].depth : id \in DOMAIN operations} = 0 .. revision - 1
    /\ \A a, b \in DOMAIN operations :
        operations[a].depth = operations[b].depth => a = b
    /\ tip = {id \in DOMAIN operations : operations[id].depth = revision - 1}
    /\ \A id \in DOMAIN operations :
        operations[id].parents =
            {p \in DOMAIN operations : operations[p].depth = operations[id].depth - 1}

(* Logical time grows strictly along the chain and the log's clock is the  *)
(* time of its tip, so sorting stored operations by time is their causal   *)
(* order.                                                                  *)
ClockFollowsChain ==
    /\ \A a, b \in DOMAIN operations :
        operations[a].depth < operations[b].depth =>
            operations[a].time < operations[b].time
    /\ \A id \in tip : logicalTime = operations[id].time

Toggles(id) ==
    {t \in DOMAIN operations : \E r \in operations[t].target : r.id = id}

(* An operation is recorded as active exactly when the deepest toggle that *)
(* names it is a redo, or none names it: the incremental map append keeps  *)
(* is what a replay of the whole chain would compute.                      *)
ActiveIsLastToggle ==
    \A id \in DOMAIN active :
        active[id] <=>
            \A t \in Toggles(id) :
                \/ operations[t].kind = "Redo"
                \/ \E u \in Toggles(id) : operations[u].depth > operations[t].depth

(* Undo and redo of one operation alternate along the chain, starting with *)
(* an undo: between two undos there is a redo and conversely.              *)
TogglesAlternate ==
    \A id \in DOMAIN active : \A t \in Toggles(id) :
        /\ operations[t].kind = "Redo" =>
            \E u \in Toggles(id) : operations[u].depth < operations[t].depth
        /\ \A u \in Toggles(id) :
            (/\ operations[u].depth < operations[t].depth
             /\ operations[u].kind = operations[t].kind) =>
                \E v \in Toggles(id) :
                    /\ operations[u].depth < operations[v].depth
                    /\ operations[v].depth < operations[t].depth
                    /\ operations[v].kind # operations[t].kind

(* The chain as a sequence, root first.                                    *)
Chain ==
    [i \in 1 .. revision |->
        operations[CHOOSE id \in DOMAIN operations : operations[id].depth = i - 1]]

J == INSTANCE Journal WITH Entry <- Operations, entries <- Chain

(* Every step of the log, retries and rejections included, extends the     *)
(* journal by one new operation or leaves it as it is.                     *)
ImplementsJournal == J!Spec
=============================================================================
