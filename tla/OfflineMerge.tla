---------------------------- MODULE OfflineMerge ----------------------------
(***************************************************************************)
(* Devices that edit one project offline and exchange operation sets.      *)
(* A device builds an operation on the heads of its own replica, with the  *)
(* next logical time (derive_map_context_from_set), and admits it when the *)
(* extended set validates and its toggles replay.  Merging is set union    *)
(* with graph validation; conflicts are reported, not resolved.            *)
(***************************************************************************)
EXTENDS OperationSet, FiniteSetsExt, TLC

CONSTANTS
    Devices,        \* actor identities, a set of positive integers
    Fields,         \* FieldKey values
    Values,         \* values a field can be given
    InitialValue,   \* the baseline value of every field
    Schemas,        \* operation schema versions in use
    MaxLocalOps,    \* bound: operations each device issues
    MaxOps          \* bound: operations issued in all

ASSUME DevicesArePositive == Devices \subseteq Nat \ {0}

VARIABLES
    replica,        \* device -> set of operations it holds
    issued          \* device -> number of operations it has issued

mergeVars == <<replica, issued>>

MergeInit ==
    /\ replica = [d \in Devices |-> {}]
    /\ issued = [d \in Devices |-> 0]

(* A new operation of device d with the given parents.                     *)
Build(d, parents, fields) ==
    LET held == {op \in replica[d] : op.id \in parents}
    IN  fields @@
        [id |-> d * 10 + issued[d] + 1,
         actor |-> d,
         parents |-> parents,
         time |-> Max({0} \cup {op.time : op \in replica[d]}) + 1,
         depth |-> IF parents = {} THEN 0 ELSE Max({op.depth : op \in held}) + 1]

(* Mutant of Admitted: the graph is not validated again.                   *)
AdmittedUnvalidated(S) == Replays(S)

(* Append admission of a locally built operation.                          *)
Admitted(S) == ValidGraph(S) /\ Replays(S)

MayIssue(d) ==
    /\ issued[d] < MaxLocalOps
    /\ Cardinality(UNION {replica[e] : e \in Devices}) < MaxOps

Issue(d, op) ==
    /\ Admitted(replica[d] \cup {op})
    /\ replica' = [replica EXCEPT ![d] = @ \cup {op}]
    /\ issued' = [issued EXCEPT ![d] = @ + 1]

(* try_apply: the inverse restores the value the device sees now.          *)
Edit(d, f, v, schema) ==
    Issue(d, Build(d, Heads(replica[d]),
        [kind |-> "Apply", field |-> f, value |-> v,
         prior |-> StateOf(replica[d], Fields, InitialValue)[f],
         schema |-> schema, reversible |-> TRUE, target |-> 0, arms |-> {}]))

(* try_undo, try_redo                                                      *)
IssueToggle(d, t, kind) ==
    Issue(d, Build(d, Heads(replica[d]),
        [kind |-> kind, field |-> t.field, value |-> t.value, prior |-> t.prior,
         schema |-> t.schema, reversible |-> FALSE, target |-> t.id, arms |-> {}]))

(* try_resolve and try_resolve_v2 are the only constructors, and           *)
(* validate_payload_inverse refuses a resolution under V3.                 *)
ResolutionSchemas == {1, 2}

(* A resolution: the arms must be direct parents, so they are joined       *)
(* either with every other head or alone.                                  *)
Resolve(d, c, v, parents, schema) ==
    LET f == FieldOf(replica[d], OpOf(replica[d], CHOOSE id \in c : TRUE))
    IN  Issue(d, Build(d, parents,
            [kind |-> "Resolve", field |-> f, value |-> v,
             prior |-> StateOf(replica[d], Fields, InitialValue)[f],
             schema |-> schema, reversible |-> FALSE, target |-> 0, arms |-> c]))

(* merge: the union is validated as a graph and scanned for conflicts; it  *)
(* is not replayed.                                                        *)
MergeFrom(d, e) ==
    LET union == replica[d] \cup replica[e]
    IN  /\ ValidGraph(union)
        /\ ~ ConflictScan(union).overflow
        /\ replica' = [replica EXCEPT ![d] = union]
        /\ UNCHANGED issued

MergeNext ==
    \E d \in Devices :
        \/ /\ MayIssue(d)
           /\ \/ \E f \in Fields, v \in Values, s \in Schemas : Edit(d, f, v, s)
              \/ \E t \in replica[d], k \in {"Undo", "Redo"} : IssueToggle(d, t, k)
              \/ \E c \in Conflicts(replica[d]), v \in Values, s \in ResolutionSchemas :
                    \E parents \in {c, Heads(replica[d])} : Resolve(d, c, v, parents, s)
        \/ \E e \in Devices \ {d} : MergeFrom(d, e)

MergeSpec == MergeInit /\ [][MergeNext]_mergeVars
-----------------------------------------------------------------------------
(* Whatever was issued where, any two replicas can be merged: no identity  *)
(* stands for two operations and the union is a valid causal graph.        *)
ReplicasAlwaysMerge ==
    \A d, e \in Devices : d < e =>
        LET union == replica[d] \cup replica[e]
        IN  /\ Cardinality(union) = Cardinality(OpIds(union))
            /\ ValidGraph(union)

Concurrent(anc, a, b) == a.id # b.id /\ a.id \notin anc[b.id] /\ b.id \notin anc[a.id]

(* Every reported conflict is a pair of concurrent operations on one field *)
(* with different values or different undo/redo intents; and when both     *)
(* have a schema that has resolutions, a resolution of the pair is a valid *)
(* operation that clears it.                                               *)
ConflictsAreResolvable ==
    \A d \in Devices :
        LET S == replica[d]
            anc == AncestorMap(S)
        IN  \A c \in Conflicts(S) : \E a, b \in S :
                LET r == Build(d, c, [kind |-> "Resolve", field |-> FieldOf(S, a),
                                      value |-> EffectOf(S, a), prior |-> EffectOf(S, b),
                                      schema |-> a.schema, reversible |-> FALSE,
                                      target |-> 0, arms |-> c])
                IN  /\ c = {a.id, b.id}
                    /\ Concurrent(anc, a, b)
                    /\ FieldOf(S, a) = FieldOf(S, b)
                    /\ a.schema = b.schema /\ a.schema \in ResolutionSchemas =>
                        ValidGraph(S \cup {r}) /\ c \notin Conflicts(S \cup {r})

(* A field-maximal operation has no descendant that writes its field.      *)
MaximalOn(S, anc, op) ==
    \A x \in S : FieldOf(S, x) = FieldOf(S, op) => op.id \notin anc[x.id]

-----------------------------------------------------------------------------
(* Documented: "incompatible concurrent values must remain explicit        *)
(* conflicts".  In a replica without reported conflicts, the maximal       *)
(* operations of a field leave one value.                                  *)
ConcurrentValuesConflict ==
    \A d \in Devices :
        LET S == replica[d]
            anc == AncestorMap(S)
        IN  Conflicts(S) = {} =>
            \A a, b \in S :
                (/\ FieldOf(S, a) = FieldOf(S, b)
                 /\ Concurrent(anc, a, b)
                 /\ MaximalOn(S, anc, a) /\ MaximalOn(S, anc, b)) =>
                    EffectOf(S, a) = EffectOf(S, b)

(* Documented: concurrent duplicate toggles are replay no-ops after the    *)
(* first.  A merged replica without reported conflicts then replays.       *)
ConflictFreeMergeReplays ==
    \A d \in Devices : Applyable(replica[d]) => Replays(replica[d])
=============================================================================
