---------------------------- MODULE OperationSet ----------------------------
(***************************************************************************)
(* The pure part of crates/operation-log: what an OperationSet (a finite   *)
(* set of immutable operations closed under parents) means.  Validation of *)
(* the causal graph, the deterministic order, replay of undo/redo toggles, *)
(* and detection of semantic conflicts, each as a function of the set.     *)
(*                                                                         *)
(* An operation is a record                                                *)
(*   id, actor, time, depth, parents (a set of ids), schema, kind,         *)
(*   field, value, prior   for Apply and Resolve: the field written, its   *)
(*                         new value and the value its inverse restores,   *)
(*   reversible            FALSE for a non-reversible Apply,               *)
(*   target                the id a toggle names (0 otherwise),            *)
(*   arms                  the two ids a Resolve names ({} otherwise).     *)
(* A value stands for the canonical identity of an effect, so a known      *)
(* calibration and its activation are one value.  Content hashes are left  *)
(* out: OperationLog models admission by hash.                             *)
(***************************************************************************)
EXTENDS Integers, Sequences, FiniteSets

CONSTANTS
    MaxParents,     \* MAX_PARENTS
    MaxConflicts,   \* MAX_CONFLICTS
    MaxFrontier     \* MAX_MERGE_FRONTIER

ASSUME LimitsAreCounts ==
    MaxParents \in Nat /\ MaxConflicts \in Nat /\ MaxFrontier \in Nat

OpIds(S) == {op.id : op \in S}
OpOf(S, id) == CHOOSE op \in S : op.id = id

IsToggle(op) == op.kind \in {"Undo", "Redo"}
IsValue(op) == ~ IsToggle(op)

(* Operation::sort_key: logical time, then actor, then identity.           *)
Before(a, b) ==
    \/ a.time < b.time
    \/ a.time = b.time /\ a.actor < b.actor
    \/ a.time = b.time /\ a.actor = b.actor /\ a.id < b.id

(* ancestor: the strict ancestors of every operation, found by walking     *)
(* parents inside the set.                                                 *)
AncestorMap(S) ==
    LET anc[id \in OpIds(S)] ==
            LET known == OpOf(S, id).parents \cap OpIds(S)
            IN  OpOf(S, id).parents \cup UNION {anc[p] : p \in known}
    IN  anc

(* ordered: Kahn's algorithm with a heap keyed by sort_key.  When no       *)
(* operation is ready the order stays short, which the code reports as     *)
(* CyclicCausality.                                                        *)
Ordered(S) ==
    LET Ready(done) ==
            {op \in S : op.id \notin done /\ op.parents \subseteq done}
        First(R) == CHOOSE a \in R : \A b \in R \ {a} : Before(a, b)
        prefix[n \in 0 .. Cardinality(S)] ==
            IF n = 0 THEN <<>>
            ELSE LET p == prefix[n - 1]
                     R == Ready({p[i].id : i \in DOMAIN p})
                 IN  IF R = {} THEN p ELSE Append(p, First(R))
    IN  prefix[Cardinality(S)]

(* effect_event: the field an operation writes and the value it leaves.    *)
Source(S, op) == IF IsToggle(op) THEN OpOf(S, op.target) ELSE op
FieldOf(S, op) == Source(S, op).field
EffectOf(S, op) ==
    IF op.kind = "Undo" THEN Source(S, op).prior ELSE Source(S, op).value

(* same_toggle_intent                                                      *)
SameIntent(a, b) ==
    IsToggle(a) /\ IsToggle(b) /\ a.target = b.target /\ a.kind = b.kind
-----------------------------------------------------------------------------
(* validate_resolution: the two arms are concurrent direct parents of one  *)
(* schema version, write the field the resolution writes, and differ in    *)
(* value unless they are toggles of distinct intent.                       *)
ValidResolution(S, anc, op) ==
    /\ Cardinality(op.arms) = 2
    /\ op.arms \subseteq op.parents
    /\ \A a, b \in op.arms : a # b =>
        LET left == OpOf(S, a)
            right == OpOf(S, b)
        IN  /\ left.schema = op.schema
            /\ a \notin anc[b]
            /\ FieldOf(S, left) = op.field
            /\ \/ EffectOf(S, left) # EffectOf(S, right)
               \/ IsToggle(left) /\ IsToggle(right) /\ ~ SameIntent(left, right)

(* The causal checks validate_graph makes on one operation.                *)
ValidParents(S, anc, op) ==
    /\ Cardinality(op.parents) <= MaxParents
    /\ op.id \notin op.parents
    /\ op.parents \subseteq OpIds(S)
    /\ \A p \in op.parents : OpOf(S, p).time < op.time
    /\ \A p, q \in op.parents : p \notin anc[q]
    /\ IF op.parents = {} THEN op.depth = 0
       ELSE /\ \A p \in op.parents : OpOf(S, p).depth < op.depth
            /\ \E p \in op.parents : OpOf(S, p).depth = op.depth - 1

ValidToggleTarget(S, anc, op) ==
    /\ op.target \in OpIds(S)
    /\ op.target \in anc[op.id]
    /\ LET t == OpOf(S, op.target)
       IN  t.kind = "Apply" /\ t.schema = op.schema /\ t.reversible

(* validate_graph                                                          *)
ValidGraph(S) ==
    LET anc == AncestorMap(S)
    IN  \A op \in S :
            /\ ValidParents(S, anc, op)
            /\ IsToggle(op) => ValidToggleTarget(S, anc, op)
            /\ op.kind = "Resolve" => ValidResolution(S, anc, op)
-----------------------------------------------------------------------------
(* A toggle that finds its target already switched is a concurrent         *)
(* duplicate when there are earlier toggles of its intent and none of them *)
(* is its ancestor; otherwise the repetition is sequential and an error.   *)
ConcurrentDuplicate(S, anc, history, op) ==
    LET prior == {h \in history : SameIntent(OpOf(S, h), op)}
    IN  prior # {} /\ prior \cap anc[op.id] = {}

(* One step of the replay fold: active holds the applies in force, history *)
(* the toggles seen, effects what is emitted.                              *)
ReplayStep(S, anc, st, op) ==
    LET emit == [id |-> op.id, field |-> FieldOf(S, op), value |-> EffectOf(S, op)]
        switchable == (op.target \in st.active) <=> (op.kind = "Undo")
    IN  CASE st.error -> st
          [] ~ st.error /\ op.kind = "Apply" ->
               [st EXCEPT !.active = @ \cup {op.id}, !.effects = Append(@, emit)]
          [] ~ st.error /\ op.kind = "Resolve" ->
               [st EXCEPT !.effects = Append(@, emit)]
          [] ~ st.error /\ op.kind = "Undo" /\ switchable ->
               [st EXCEPT !.active = @ \ {op.target}, !.history = @ \cup {op.id},
                          !.effects = Append(@, emit)]
          [] ~ st.error /\ op.kind = "Redo" /\ switchable ->
               [st EXCEPT !.active = @ \cup {op.target}, !.history = @ \cup {op.id},
                          !.effects = Append(@, emit)]
          [] OTHER ->
               IF ConcurrentDuplicate(S, anc, st.history, op)
               THEN [st EXCEPT !.history = @ \cup {op.id}]
               ELSE [st EXCEPT !.error = TRUE]

FoldOrdered(S, Step(_, _, _, _), init) ==
    LET order == Ordered(S)
        anc == AncestorMap(S)
        state[n \in 0 .. Len(order)] ==
            IF n = 0 THEN init ELSE Step(S, anc, state[n - 1], order[n])
    IN  state[Len(order)]

(* replay_effects_without_conflict_check                                   *)
Replay(S) ==
    FoldOrdered(S, ReplayStep,
        [active |-> {}, history |-> {}, effects |-> <<>>, error |-> FALSE])

(* validate_replay_semantics: what append admission asks of a set.         *)
Replays(S) == ~ Replay(S).error
-----------------------------------------------------------------------------
(* A frontier entry is superseded by a descendant, and by a concurrent     *)
(* operation of equal value when both are value writes or both are the     *)
(* same toggle intent.                                                     *)
Supersedes(S, anc, op, e) ==
    \/ e.id \in anc[op.id]
    \/ /\ EffectOf(S, e) = EffectOf(S, op)
       /\ \/ IsValue(e) /\ IsValue(op)
          \/ SameIntent(e, op)

(* Mutant of Clashes: a value and a toggle restoring it are reported.      *)
ClashesAlways(S, op, e) == FieldOf(S, e) = FieldOf(S, op)

(* What is left clashes when values differ, or when two toggles of         *)
(* different intent happen to restore the same value.                      *)
Clashes(S, op, e) ==
    \/ EffectOf(S, e) # EffectOf(S, op)
    \/ IsToggle(e) /\ IsToggle(op)

(* remove_superseded_conflicts: a conflict of a superseded entry goes away *)
(* unless its other arm is an ancestor of the operation too, for joining   *)
(* both arms is not a resolution.                                          *)
Obsolete(anc, op, superseded, c) ==
    \E e \in c \cap superseded : (c \ {e}) \cap anc[op.id] = {}

(* One step of conflict detection.  frontier holds, over all fields, the   *)
(* operations not yet superseded; conflicts is a set of unordered pairs.   *)
ConflictStep(S, anc, st, op) ==
    LET open == st.conflicts \ {op.arms}
        previous == {e \in S : e.id \in st.frontier /\ FieldOf(S, e) = FieldOf(S, op)}
        superseded == {e.id : e \in {x \in previous : Supersedes(S, anc, op, x)}}
        kept == {e \in previous : e.id \notin superseded}
        conflicts ==
            {c \in open : ~ Obsolete(anc, op, superseded, c)}
                \cup {{e.id, op.id} : e \in {x \in kept : Clashes(S, op, x)}}
    IN  [frontier |-> (st.frontier \ superseded) \cup {op.id},
         conflicts |-> conflicts,
         overflow |->
            \/ st.overflow
            \/ Cardinality(conflicts) > MaxConflicts
            \/ Cardinality(kept) + 1 > MaxFrontier]

ConflictScan(S) ==
    FoldOrdered(S, ConflictStep,
        [frontier |-> {}, conflicts |-> {}, overflow |-> FALSE])

(* conflicts                                                               *)
Conflicts(S) == ConflictScan(S).conflicts

(* merge succeeds and MergeOutcome::into_applyable hands the set out.      *)
Applyable(S) ==
    ValidGraph(S) /\ ~ ConflictScan(S).overflow /\ Conflicts(S) = {}

(* replay_state: the last effect on each field.                            *)
StateOf(S, fields, initial) ==
    LET effects == Replay(S).effects
        last[n \in 0 .. Len(effects)] ==
            IF n = 0 THEN [f \in fields |-> initial]
            ELSE [last[n - 1] EXCEPT ![effects[n].field] = effects[n].value]
    IN  last[Len(effects)]

(* The heads a new operation takes as parents.                             *)
Heads(S) == {id \in OpIds(S) : \A op \in S : id \notin op.parents}
=============================================================================
