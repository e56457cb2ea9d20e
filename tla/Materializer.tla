--------------------------- MODULE Materializer ---------------------------
(***************************************************************************)
(* crates/causal-materializer/src/lib.rs over the aggregate of             *)
(* ProjectAggregate and the operation sets of OperationSet: replicas that  *)
(* edit maps, calibrations, evidence and names of one baseline project     *)
(* offline, exchange their operations, resolve conflicts, and materialize  *)
(* what they hold.  An operation's value and prior are the commands that   *)
(* apply_local_effect turns them into.  Byte and work budgets are left     *)
(* out; they only turn an answer into a refusal.                           *)
(***************************************************************************)
EXTENDS OperationSet, ProjectAggregate

CONSTANTS
    Replicas,       \* the actors, numbers: they are part of the sort key
    Edits,          \* Edits[r]: the commands replica r applies as operations
    MAX_MATERIALIZATION_OPERATIONS,
    MaxSteps        \* bound: linear commands and operations together

VARIABLE view       \* view[r]: the operations replica r holds

(* Mutation::field_key and InversePrior::field_key.                        *)
FieldKey(c) ==
    CASE c.kind \in {"SetProjectName", "SetSiteName", "BindFloorEvidence", "none"} ->
           <<c.kind, c.id>>
      [] c.kind \in {"ImportMap", "RemoveMap"} -> <<"MapAsset", c.id>>
      [] c.kind = "ActivateCalibration" -> <<"MapCalibration", c.id>>
      [] OTHER -> <<"MapCalibration", c.value.map>>

(* The map an effect touches, when it touches one.                         *)
MapOf(c) == FieldKey(c)[2]
TouchesMap(c) == FieldKey(c)[1] \in {"MapAsset", "MapCalibration"}
-----------------------------------------------------------------------------
(* ancestor_ids and is_ancestor.                                           *)
Ancestors(S) == AncestorMap(S)

(* direct_mutation_effect, inverse_effect, resolution_effect: the command  *)
(* an operation amounts to.                                                *)
EffectCommand(S, op) == EffectOf(S, op)

(* CausalReplay::apply: like replay, but a toggle that finds its target    *)
(* not switchable is skipped without an error.  events are the effects.    *)
CausalStep(S, st, op) ==
    LET command == EffectCommand(S, op)
        outcome == Materialized(st.project, op.id, op.time, command)
        skipped == \/ op.kind = "Undo" /\ op.target \notin st.active
                   \/ op.kind = "Redo" /\ op.target \notin st.undone
    IN  CASE st.error \/ skipped -> st
          [] OTHER ->
               [error |-> ~ outcome.ok, project |-> outcome.project,
                active |-> IF op.kind = "Apply" THEN st.active \cup {op.id}
                           ELSE IF op.kind = "Redo" THEN st.active \cup {op.target}
                           ELSE IF op.kind = "Undo" THEN st.active \ {op.target}
                           ELSE st.active,
                undone |-> IF op.kind = "Undo" THEN st.undone \cup {op.target}
                           ELSE st.undone \ {op.target},
                events |-> st.events \cup {op.id}]

(* causal_before and common_causal_state: the operations in ids, replayed  *)
(* from the baseline in the deterministic order.                           *)
CausalState(base, S, order, ids) ==
    LET state[n \in 0 .. Len(order)] ==
            IF n = 0
            THEN [error |-> FALSE, project |-> base, active |-> {}, undone |-> {},
                  events |-> {}]
            ELSE IF order[n].id \in ids THEN CausalStep(S, state[n - 1], order[n])
            ELSE state[n - 1]
    IN  state[Len(order)]

(* reject_ambiguous_prior: the maximal events on the field agree.          *)
Ambiguous(S, anc, events, field) ==
    LET relevant == {e \in events : FieldOf(S, OpOf(S, e)) = field}
        maximal == {e \in relevant : \A f \in relevant : e \notin anc[f]}
    IN  \E e, f \in maximal : EffectCommand(S, OpOf(S, e)) # EffectCommand(S, OpOf(S, f))

(* validate_legacy_prior and validate_typed_prior: the value an inverse    *)
(* would restore is the value the field has.                               *)
PriorHolds(p, prior) ==
    CASE prior.kind = "SetProjectName" -> p.name = prior.value.name
      [] prior.kind = "SetSiteName" ->
           prior.id \in DOMAIN p.sites /\ p.sites[prior.id] = prior.value
      [] prior.kind = "ActivateCalibration" ->
           prior.id \in DOMAIN p.maps /\ p.active[prior.id] = prior.value.active
      [] prior.kind = "RemoveMap" -> prior.id \notin DOMAIN p.maps
      [] prior.kind = "RemoveCalibration" ->
           /\ prior.id \notin DOMAIN p.calibrations
           /\ prior.value.map \in DOMAIN p.maps
           /\ p.active[prior.value.map] = prior.value.active
      [] OTHER -> FALSE

(* field_value is present: what a resolution's field must be.              *)
FieldPresent(p, field) ==
    CASE field[1] = "SetProjectName" -> TRUE
      [] field[1] = "SetSiteName" -> field[2] \in DOMAIN p.sites
      [] field[1] \in {"MapAsset", "MapCalibration"} -> field[2] \in DOMAIN p.maps
      [] OTHER -> FALSE

(* common_causal_state: what both arms of a resolution had seen.           *)
CommonState(base, S, anc, order, arms) ==
    CausalState(base, S, order, {id \in OpIds(S) : \A a \in arms : id \in anc[a]})

(* validate_resolution_prior                                               *)
ValidResolutionPrior(base, S, anc, order, op) ==
    LET before == CommonState(base, S, anc, order, op.arms)
    IN  /\ ~ before.error
        /\ ~ Ambiguous(S, anc, before.events, op.field)
        /\ PriorHolds(before.project, op.prior)
        /\ FieldPresent(before.project, op.field)

(* validate_operation_prior                                                *)
ValidPrior(base, S, anc, order, op) ==
    CASE op.kind = "Apply" /\ op.reversible ->
           LET before == CausalState(base, S, order, anc[op.id])
           IN  /\ op.value.kind # "BindFloorEvidence"
               /\ ~ Ambiguous(S, anc, before.events, op.field)
               /\ PriorHolds(before.project, op.prior)
      [] op.kind = "Apply" /\ ~ op.reversible ->
           op.schema = 2 /\ op.value.kind = "BindFloorEvidence"
      [] op.kind = "Resolve" -> ValidResolutionPrior(base, S, anc, order, op)
      [] OTHER -> TRUE
-----------------------------------------------------------------------------
(* map_floor with its replay-visible overrides: the floor of the map an    *)
(* effect touches, from the last import or removal before it.              *)
FloorTouched(base, effects, n) ==
    LET c == effects[n].value
        earlier == {k \in 1 .. n - 1 :
                      effects[k].value.kind \in {"ImportMap", "RemoveMap"}
                      /\ effects[k].value.id = MapOf(c)}
        last == CHOOSE k \in earlier : \A j \in earlier : j <= k
    IN  CASE ~ TouchesMap(c) -> {}
          [] c.kind = "ImportMap" -> {c.value.floor}
          [] OTHER ->
               IF earlier = {}
               THEN {base.maps[m].floor : m \in {MapOf(c)} \cap DOMAIN base.maps}
               ELSE IF effects[last].value.kind = "ImportMap"
               THEN {effects[last].value.value.floor} ELSE {}

(* Mutant of AggregateConflict: the binding need only not come first.      *)
AggregateConflictOneWay(base, S, effects) ==
    \E i, j \in DOMAIN effects :
        /\ effects[i].value.kind = "BindFloorEvidence"
        /\ effects[i].value.id \in FloorTouched(base, effects, j)
        /\ effects[i].id \in Ancestors(S)[effects[j].id]

(* reject_cross_field_aggregate_conflicts: binding evidence to a floor and *)
(* changing a map or calibration of that floor are causally ordered.       *)
AggregateConflict(base, S, effects) ==
    LET anc == Ancestors(S)
    IN  \E i, j \in DOMAIN effects :
            /\ effects[i].value.kind = "BindFloorEvidence"
            /\ effects[i].value.id \in FloorTouched(base, effects, j)
            /\ effects[i].id \notin anc[effects[j].id]
            /\ effects[j].id \notin anc[effects[i].id]

(* The fold of apply_effect over the effects.                              *)
ApplyEffects(base, S, effects) ==
    LET state[n \in 0 .. Len(effects)] ==
            IF n = 0 THEN [ok |-> TRUE, project |-> base]
            ELSE IF state[n - 1].ok
            THEN Materialized(state[n - 1].project, effects[n].id,
                              OpOf(S, effects[n].id).time, effects[n].value)
            ELSE Failed
    IN  state[Len(effects)]

(* Mutant of AdmissibleSet: unresolved conflicts are let through.             *)
AdmissibleUnresolved(base, S) ==
    /\ ValidGraph(S)
    /\ Replays(S)
    /\ ~ AggregateConflict(base, S, Replay(S).effects)

(* materialize_with_budget up to the application of the effects: baseline  *)
(* collisions, conflicts, aggregate conflicts, and the prior of every      *)
(* operation against its causal state.                                     *)
AdmissibleSet(base, S) ==
    LET anc == Ancestors(S)
        order == Ordered(S)
    IN  /\ Cardinality(S) <= MAX_MATERIALIZATION_OPERATIONS
        /\ \A op \in S : op.id \notin DOMAIN base.applied
        /\ \A op \in S : op.parents = {} => op.time > base.time
        /\ ValidGraph(S)
        /\ Replays(S)
        /\ Conflicts(S) = {}
        /\ ~ AggregateConflict(base, S, Replay(S).effects)
        /\ \A op \in S :
            /\ ~ CausalState(base, S, order, anc[op.id]).error
            /\ ValidPrior(base, S, anc, order, op)

(* materialize                                                             *)
Materialize(base, S) ==
    IF AdmissibleSet(base, S) THEN ApplyEffects(base, S, Replay(S).effects) ELSE Failed
-----------------------------------------------------------------------------
(* The prior an editor records for a command on the project it sees, among *)
(* those InversePrior::validate_for accepts: a removal has none.           *)
PriorOf(p, c) ==
    CASE c.kind = "SetProjectName" -> {Command(c.kind, c.id, [name |-> p.name])}
      [] c.kind = "SetSiteName" ->
           {Command(c.kind, c.id, p.sites[s]) : s \in {c.id} \cap DOMAIN p.sites}
      [] c.kind = "ImportMap" -> {Command("RemoveMap", c.id, [none |-> ""])}
      [] c.kind = "CalibrateMap" ->
           {Command("RemoveCalibration", c.id, [map |-> m, active |-> p.active[m]])
              : m \in {c.value.map} \cap DOMAIN p.maps}
      [] c.kind = "ActivateCalibration" ->
           {Command(c.kind, c.id, [active |-> p.active[m]]) : m \in {c.id} \cap DOMAIN p.maps}
      [] c.kind = "BindFloorEvidence" -> {NoUndo}
      [] OTHER -> {}

All == UNION {view[r] : r \in Replicas}

(* Mutation::is_pre_v3 and InversePrior::is_pre_v3.                        *)
PreV3(c) ==
    c.kind \in {"SetProjectName", "SetSiteName", "ActivateCalibration", "BindFloorEvidence"}

(* validate_payload_inverse for V2 and V3: structural effects need V3, and *)
(* resolutions exist below it.                                             *)
ValidPayload(op) ==
    CASE op.kind = "Apply" /\ op.reversible ->
           op.schema = 2 => PreV3(op.value) /\ PreV3(op.prior)
      [] op.kind = "Apply" /\ ~ op.reversible -> op.value.kind = "BindFloorEvidence"
      [] op.kind = "Resolve" -> op.schema = 2 /\ PreV3(op.value) /\ PreV3(op.prior)
      [] OTHER -> TRUE

(* The operation replica r would write next on the heads of S.             *)
NextOp(r, S, schema, kind, target, arms, value, prior) ==
    LET heads == Heads(S)
        tops == {OpOf(S, h) : h \in heads}
        top(F(_), floor) ==
            CHOOSE n \in {F(t) : t \in tops} \cup {floor} :
                \A t \in tops : F(t) <= n /\ floor <= n
        time(t) == t.time
        depth(t) == t.depth
    IN  [id |-> Cardinality(All) + 1, actor |-> r,
         time |-> top(time, project.time) + 1,
         depth |-> IF heads = {} THEN 0 ELSE top(depth, 0) + 1,
         parents |-> heads, schema |-> schema, kind |-> kind,
         field |-> FieldKey(value), value |-> value, prior |-> prior,
         reversible |-> prior # NoUndo, target |-> target, arms |-> arms]

Room == Len(records) + Cardinality(All) < MaxSteps

(* Append: the log takes an operation that the new set materializes with.  *)
Write(r, S, op) ==
    /\ ValidPayload(op)
    /\ Materialize(project, S \cup {op}).ok
    /\ view' = [view EXCEPT ![r] = S \cup {op}]
    /\ UNCHANGED <<project, records>>

(* try_apply_v2, try_apply_v3 and try_apply_v2_non_reversible.             *)
ApplyEdit(r, c, schema) ==
    /\ Room
    /\ \E prior \in PriorOf(Materialize(project, view[r]).project, c) :
        Write(r, view[r], NextOp(r, view[r], schema, "Apply", 0, {}, c, prior))

ToggleEdit(r, kind, t) ==
    /\ Room /\ t.kind = "Apply" /\ t.reversible
    /\ Write(r, view[r], [NextOp(r, view[r], t.schema, kind, t.id, {}, NoUndo, NoUndo)
                            EXCEPT !.reversible = TRUE])

(* Receive: conflict-free operations of another replica that still         *)
(* materialize with one's own.                                             *)
Receive(r, q) ==
    /\ ~ view[q] \subseteq view[r]
    /\ Materialize(project, view[r] \cup view[q]).ok
    /\ view' = [view EXCEPT ![r] = @ \cup view[q]]
    /\ UNCHANGED <<project, records>>

(* Receive and resolve the one conflict the merge shows, for either arm,   *)
(* with try_resolve_v2.                                                    *)
ResolveWith(r, q) ==
    LET S == view[r] \cup view[q]
    IN  /\ Room
        /\ \E pair \in Conflicts(S) : \E a \in pair :
            LET seen == CommonState(project, S, Ancestors(S), Ordered(S), pair).project
                value == EffectOf(S, OpOf(S, a))
            IN  /\ pair \subseteq Heads(S)
                /\ \E prior \in PriorOf(seen, value) :
                    Write(r, S, NextOp(r, S, 2, "Resolve", 0, pair, value, prior))

Linear == AggregateNext /\ All = {} /\ UNCHANGED view

MaterializerInit == AggregateInit /\ view = [r \in Replicas |-> {}]

MaterializerNext ==
    \/ Linear
    \/ \E r \in Replicas :
        \/ \E c \in Edits[r], schema \in {2, 3} : ApplyEdit(r, c, schema)
        \/ \E t \in view[r], kind \in {"Undo", "Redo"} : ToggleEdit(r, kind, t)
        \/ \E q \in Replicas \ {r} : Receive(r, q) \/ ResolveWith(r, q)

materializerVars == <<project, records, view>>
MaterializerSpec == MaterializerInit /\ [][MaterializerNext]_materializerVars
-----------------------------------------------------------------------------
(* The orders of S that respect causality.                                 *)
CausalOrders(S) ==
    LET orders[T \in SUBSET S] ==
            IF T = {} THEN {<< >>}
            ELSE UNION {{Append(o, op) : o \in orders[T \ {op}]} :
                          op \in {x \in T : \A y \in T : x.id \notin y.parents}}
    IN  orders[S]

EffectsIn(S, order) ==
    LET anc == Ancestors(S)
        state[n \in 0 .. Len(order)] ==
            IF n = 0 THEN [active |-> {}, history |-> {}, effects |-> << >>, error |-> FALSE]
            ELSE ReplayStep(S, anc, state[n - 1], order[n])
    IN  state[Len(order)].effects

(* Concurrent operations of equal effect, which conflict detection folds   *)
(* into one (OfflineMerge shows what that hides).                          *)
EqualTwins(S) ==
    LET anc == Ancestors(S)
    IN  \E a, b \in S :
            /\ a # b /\ a.id \notin anc[b.id] /\ b.id \notin anc[a.id]
            /\ FieldOf(S, a) = FieldOf(S, b) /\ EffectOf(S, a) = EffectOf(S, b)

(* materialize picks no concurrent winner: every causal order of an        *)
(* admitted set whose effects apply at all gives the same content, as long *)
(* as no two concurrent operations have one effect.                        *)
OrdersAgree ==
    ~ EqualTwins(All) /\ AdmissibleSet(project, All) =>
        Cardinality({Content(m.project) : m \in
            {x \in {ApplyEffects(project, All, EffectsIn(All, o)) : o \in CausalOrders(All)}
               : x.ok}}) <= 1

(* unlocked and reject_cross_field_aggregate_conflicts together: in a set  *)
(* that materializes, a floor's evidence is bound after every map and      *)
(* calibration change of that floor its author had seen, and no change of  *)
(* that floor is concurrent with the binding or follows it.                *)
EvidenceFreezesFloor ==
    LET effects == Replay(All).effects
        anc == Ancestors(All)
    IN  \A i, j \in DOMAIN effects :
            /\ effects[i].value.kind = "BindFloorEvidence"
            /\ effects[i].value.id \in FloorTouched(project, effects, j)
            /\ Materialize(project, All).ok
            => effects[j].id \in anc[effects[i].id]
=============================================================================
