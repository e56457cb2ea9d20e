--------------------------- MODULE ProjectSession ---------------------------
(***************************************************************************)
(* Application sessions (crates/application) on one project bundle: the    *)
(* life of a project from create to its published materializations.        *)
(* Sessions are independent processes.  A map import or calibration is     *)
(* many store transactions: read the operation set, derive the causal      *)
(* context, register the image, validate the candidate set, append,        *)
(* read again, materialize, publish, read back.  Each transaction is one   *)
(* step here (BundleStore models what happens inside one); other sessions  *)
(* step in between, the caller's budget may cancel the call, and the       *)
(* process may die.                                                        *)
(*                                                                         *)
(* A project value is determined by the operations replayed onto the       *)
(* baseline, so the set of operations stands for it.  The bundle revision  *)
(* is left to BundleStore.  An Option is a set with at most one element.   *)
(***************************************************************************)
EXTENDS OperationSet

CONSTANTS
    Sessions,       \* processes that may open the project
    Calls           \* the map mutations their callers may ask for

ASSUME CallsAreMutations ==
    \A c \in Calls :
        /\ c.via \in {"Intent", "Request"}
        /\ c.kind \in {"Import", "Calibrate"}
        /\ c.utc \in Nat
        /\ c.via = "Request" => c.expected \in Nat

VARIABLES
    baseline,       \* "Missing" (no bundle), "None", "Empty" or "Floor"
    log,            \* persisted operations; position is project_revision
    sources,        \* registered map images: pairs of bytes and provenance
    updated,        \* updated_utc_ms of the manifest
    publications,   \* rows [ops, revision] of materialized_project_publications
    current,        \* materialized_project_state, an Option of a row
    local           \* session -> its mode, position and local values

store == <<baseline, log, sources, updated, publications, current>>
sessionVars == <<store, local>>

Absent == "absent"
NoSessionCall == [via |-> "None"]
NoOp == [id |-> 0]
Silent == [tag |-> "None"]
Closed ==
    [mode |-> "Closed", at |-> "Idle", call |-> NoSessionCall, ops |-> {}, op |-> NoOp,
     expected |-> 0, receipt |-> {}, fresh |-> FALSE, reply |-> Silent]

SessionInit ==
    /\ baseline = "Missing"
    /\ log = <<>>
    /\ sources = {}
    /\ updated = 0
    /\ publications = {}
    /\ current = {}
    /\ local = [s \in Sessions |-> Closed]

Persisted == {log[i] : i \in DOMAIN log}

CallAt(s, stage) == local[s].mode # "Closed" /\ local[s].at = stage

CallGoes(s, stage) == local' = [local EXCEPT ![s].at = stage]

(* The call ends; what it had in hand is dropped.                          *)
CallReplies(s, answer) ==
    local' = [local EXCEPT ![s] =
        [Closed EXCEPT !.mode = local[s].mode, !.reply = answer]]

Fails(s) == CallReplies(s, [tag |-> "Failed"]) /\ UNCHANGED store

(* What a call that reached its append reports.  A request returns only    *)
(* when its readback is good; an intent returns its receipt regardless.    *)
Reports(s, view) ==
    IF local[s].call.via = "Request" /\ view = {}
    THEN CallReplies(s, [tag |-> "Failed"])
    ELSE CallReplies(s, [tag |-> "Receipt", op |-> local[s].op, call |-> local[s].call,
                         revision |-> CHOOSE r \in local[s].receipt : TRUE,
                         fresh |-> local[s].fresh, view |-> view])
-----------------------------------------------------------------------------
(* The causal materializer, for the two mutations sessions append.         *)

MapField(m) == <<"map", m>>
CalibrationField(m) == <<"calibration", m>>
FieldsOf(S) ==
    {op.field : op \in S} \cup {MapField(op.field[2]) : op \in S}

(* causal_before and validate_typed_prior: what an operation's inverse     *)
(* says it found must be what its ancestors leave; apply needs the floor,  *)
(* and the map that is calibrated.                                         *)
PriorHolds(base, S, op) ==
    LET ids == AncestorMap(S)[op.id]
        ancestors == {a \in S : a.id \in ids}
        before == StateOf(ancestors, FieldsOf(S), Absent)
    IN  IF op.field[1] = "map"
        THEN base = "Floor" /\ before[op.field] = Absent
        ELSE /\ before[MapField(op.field[2])] # Absent
             /\ before[op.field] = op.prior
             /\ \A a \in ancestors : a.value # op.value

(* materialize                                                             *)
Materializes(base, S) ==
    /\ Applyable(S)
    /\ Replays(S)
    /\ \A op \in S : PriorHolds(base, S, op)

(* OperationSet::from_operations on the persisted set and one more.        *)
Admits(S, op) ==
    /\ \A other \in S : other.id = op.id => other = op
    /\ ValidGraph(S \cup {op})
-----------------------------------------------------------------------------
(* execute: create commits the bundle, then registers the baseline in a    *)
(* transaction of its own.                                                 *)
Create(s) ==
    /\ local[s].mode = "Closed"
    /\ baseline = "Missing"
    /\ baseline' = "None"
    /\ local' = [local EXCEPT ![s] = [Closed EXCEPT !.mode = "ReadWrite", !.at = "Baseline"]]
    /\ UNCHANGED <<log, sources, updated, publications, current>>

RegisterBaseline(s) ==
    /\ CallAt(s, "Baseline")
    /\ baseline' \in {"Empty", "Floor"}
    /\ CallGoes(s, "Idle")
    /\ UNCHANGED <<log, sources, updated, publications, current>>

Open(s) ==
    /\ local[s].mode = "Closed"
    /\ baseline # "Missing"
    /\ \E mode \in {"ReadOnly", "ReadWrite"} :
        local' = [local EXCEPT ![s] = [Closed EXCEPT !.mode = mode]]
    /\ UNCHANGED store

(* The session drops its handle or its process dies, anywhere in a call.   *)
Close(s) ==
    /\ local[s].mode # "Closed"
    /\ local' = [local EXCEPT ![s] = Closed]
    /\ UNCHANGED store

(* A request brings its causal context; an intent leaves it to the         *)
(* session.                                                                *)
Operation(c, time, depth, parents, prior) ==
    [id |-> c.op, actor |-> c.actor, time |-> time, depth |-> depth,
     parents |-> parents, schema |-> 3, kind |-> "Apply",
     field |-> IF c.kind = "Import" THEN MapField(c.map) ELSE CalibrationField(c.map),
     value |-> c.value, prior |-> prior, reversible |-> TRUE, target |-> 0, arms |-> {}]

FirstStage(c) ==
    CASE c.via = "Intent" -> "Read"
      [] c.via = "Request" /\ c.kind = "Import" -> "Put"
      [] OTHER -> "Validate"

Begin(s, c) ==
    /\ CallAt(s, "Idle")
    /\ IF local[s].mode = "ReadWrite"
       THEN local' = [local EXCEPT ![s] =
               [@ EXCEPT !.at = FirstStage(c), !.call = c, !.reply = Silent,
                         !.expected = IF c.via = "Request" THEN c.expected ELSE 0,
                         !.op = IF c.via = "Request"
                                THEN Operation(c, c.time, c.depth, c.parents, c.prior)
                                ELSE NoOp]]
       ELSE CallReplies(s, [tag |-> "Failed"])
    /\ UNCHANGED store

(* canonical_map_state, first half: the baseline and the operation set,    *)
(* which is copied out of its transaction.  The baseline never changes     *)
(* once it is registered.                                                  *)
ReadOperations(s) ==
    /\ CallAt(s, "Read")
    /\ IF baseline = "None" THEN Fails(s)
       ELSE /\ local' = [local EXCEPT ![s].ops = Persisted, ![s].at = "Derive"]
            /\ UNCHANGED store

(* existing_import_matches and existing_calibration_matches                *)
SameIntentAs(c, op) ==
    /\ op.actor = c.actor
    /\ op.field = Operation(c, 0, 0, {}, Absent).field
    /\ op.value = c.value

(* The image is read back and compared before a retried import is believed. *)
RetryMatches(c, op) ==
    SameIntentAs(c, op) /\ (c.kind = "Import" => \E p \in sources : p[1] = c.value)

(* derive_map_context_from_set: the heads are the parents.                 *)
NextTime(S) == 1 + CHOOSE t \in {op.time : op \in S} \cup {0} : \A op \in S : op.time <= t
NextDepth(S) ==
    IF S = {} THEN 0
    ELSE LET depths == {OpOf(S, id).depth : id \in Heads(S)}
         IN  1 + CHOOSE d \in depths : \A e \in depths : e <= d

(* The prerequisites an intent checks on the project it has replayed, and  *)
(* the value its inverse will restore.                                     *)
Prerequisites(c, S) ==
    /\ Cardinality(Heads(S)) <= MaxParents
    /\ IF c.kind = "Import" THEN baseline = "Floor"
       ELSE \E op \in S : op.field = MapField(c.map)

ActiveCalibration(S, m) ==
    IF \E op \in S : op.field = CalibrationField(m)
    THEN StateOf(S, FieldsOf(S), Absent)[CalibrationField(m)] ELSE Absent

Derived(c, S) ==
    Operation(c, NextTime(S), NextDepth(S), Heads(S),
              IF c.kind = "Import" THEN Absent ELSE ActiveCalibration(S, c.map))

(* canonical_map_state, second half, and the rest of the intent up to its  *)
(* first write: the store state is read in another transaction and must    *)
(* still count the operations that were copied.                            *)
Derive(s) ==
    LET c == local[s].call
        S == local[s].ops
        existing == {op \in S : op.id = c.op}
    IN  /\ CallAt(s, "Derive")
        /\ \/ /\ \/ Len(log) # Cardinality(S)
                 \/ ~ Materializes(baseline, S)
                 \/ \E op \in existing : ~ RetryMatches(c, op)
                 \/ existing = {} /\ ~ Prerequisites(c, S)
              /\ Fails(s)
           \/ /\ Len(log) = Cardinality(S)
              /\ Materializes(baseline, S)
              /\ \/ /\ \E op \in existing :
                        /\ RetryMatches(c, op)
                        /\ local' = [local EXCEPT ![s].op = op, ![s].at = "Retry"]
                 \/ /\ existing = {}
                    /\ Prerequisites(c, S)
                    /\ local' = [local EXCEPT ![s].op = Derived(c, S),
                                              ![s].expected = Len(log),
                                              ![s].at = IF c.kind = "Import" THEN "Put" ELSE "Validate"]
              /\ UNCHANGED store
-----------------------------------------------------------------------------
(* put_artifact for the image: the clock may not go back, registered bytes *)
(* keep their provenance, and only new ones move the manifest's time.      *)
Put(s) ==
    LET c == local[s].call
        image == <<c.value, c.provenance>>
        accepted ==
            /\ c.utc >= updated
            /\ \A p \in sources : p[1] = c.value => p = image
    IN  /\ CallAt(s, "Put")
        /\ IF accepted
           THEN /\ sources' = sources \cup {image}
                /\ updated' = IF image \in sources THEN updated ELSE c.utc
                /\ CallGoes(s, "Validate")
                /\ UNCHANGED <<baseline, log, publications, current>>
           ELSE Fails(s)

(* commit_operation_with_outcome: the candidate set is materialized before *)
(* anything is appended.                                                   *)
Validate(s) ==
    LET op == local[s].op
        accepted ==
            /\ baseline # "None"
            /\ Admits(Persisted, op)
            /\ Materializes(baseline, Persisted \cup {op})
    IN  /\ CallAt(s, "Validate")
        /\ IF accepted THEN CallGoes(s, "Append") /\ UNCHANGED store ELSE Fails(s)

(* What append admission asks: a causal graph that replays, and images     *)
(* that are registered.  Conflicts are not its concern.                    *)
Appendable(op) ==
    /\ Admits(Persisted, op)
    /\ Replays(Persisted \cup {op})
    /\ op.field[1] = "map" => \E p \in sources : p[1] = op.value

(* Mutant of AppendOutcome: the bytes of a stored identity are not         *)
(* compared.                                                               *)
AppendByIdentity(op, expected) ==
    CASE op.id \in OpIds(Persisted) -> "Duplicate"
      [] op.id \notin OpIds(Persisted) /\ (\A e \in expected : e = Len(log)) /\ Appendable(op) -> "Appended"
      [] OTHER -> "Refused"

(* append_operation_inner_with_budget: an exact duplicate is recognised    *)
(* before the expected revision is compared.                               *)
AppendOutcome(op, expected) ==
    CASE op \in Persisted -> "Duplicate"
      [] op \notin Persisted /\ (\A e \in expected : e = Len(log)) /\ Appendable(op) -> "Appended"
      [] OTHER -> "Refused"

AppendOperation(s) ==
    LET op == local[s].op
        outcome == AppendOutcome(op, {local[s].expected})
        revision == IF outcome = "Appended" THEN Len(log) + 1 ELSE Len(log)
    IN  /\ CallAt(s, "Append")
        /\ IF outcome = "Refused" THEN Fails(s)
           ELSE /\ log' = IF outcome = "Appended" THEN Append(log, op) ELSE log
                /\ local' = [local EXCEPT ![s].receipt = {revision}, ![s].fresh = TRUE,
                                          ![s].at = "Reread"]
                /\ UNCHANGED <<baseline, sources, updated, publications, current>>

(* exact_duplicate_outcome: no revision is expected, and an append would   *)
(* be an error.                                                            *)
RetryOperation(s) ==
    LET op == local[s].op
        outcome == AppendOutcome(op, {})
    IN  /\ CallAt(s, "Retry")
        /\ IF outcome = "Duplicate"
           THEN /\ local' = [local EXCEPT ![s].receipt = {Len(log)}, ![s].at = "Readback"]
                /\ UNCHANGED store
           ELSE /\ log' = IF outcome = "Appended" THEN Append(log, op) ELSE log
                /\ CallReplies(s, [tag |-> "Failed"])
                /\ UNCHANGED <<baseline, sources, updated, publications, current>>
-----------------------------------------------------------------------------
(* The set is read again after the append; its materialization is what     *)
(* gets published.                                                         *)
Reread(s) ==
    /\ CallAt(s, "Reread")
    /\ IF Materializes(baseline, Persisted)
       THEN local' = [local EXCEPT ![s].ops = Persisted, ![s].at = "Publish"]
       ELSE Reports(s, {})
    /\ UNCHANGED store

(* Mutant of Publishable: nothing is compared with what is persisted now.  *)
PublishableAnySet(S, expected) == \A row \in current : row.revision < Len(log)

(* publish_materialized_project_inner on a set that has no row yet.        *)
Publishable(S, expected) ==
    /\ S = Persisted
    /\ expected = Len(log)
    /\ \A row \in current : row.revision < Len(log)

(* An exact publication is resolved before any revision is compared.       *)
Publish(s) ==
    LET S == local[s].ops
        row == [ops |-> S, revision |-> Len(log)]
        published == \E p \in publications : p.ops = S
    IN  /\ CallAt(s, "Publish")
        /\ \/ published /\ CallGoes(s, "Readback") /\ UNCHANGED store
           \/ /\ ~ published
              /\ \E revision \in local[s].receipt : Publishable(S, revision)
              /\ publications' = publications \cup {row}
              /\ current' = {row}
              /\ updated' = IF local[s].call.utc > updated THEN local[s].call.utc ELSE updated
              /\ CallGoes(s, "Readback")
              /\ UNCHANGED <<baseline, log, sources>>
           \/ /\ ~ published
              /\ \A revision \in local[s].receipt : ~ Publishable(S, revision)
              /\ Reports(s, {})
              /\ UNCHANGED store

(* verify_materialized_project_publication: every row repeats the prefix   *)
(* of the log it names, replays, and none is past the current one.         *)
RowVerifies(row) ==
    /\ row.revision <= Len(log)
    /\ row.ops = {log[i] : i \in 1 .. row.revision}
    /\ Materializes(baseline, row.ops)

Verifies ==
    /\ \A row \in publications : RowVerifies(row)
    /\ current \subseteq publications
    /\ publications # {} => current # {}
    /\ \A row \in current, other \in publications : other.revision <= row.revision

(* current_snapshot_with_budget: the whole publication history is verified *)
(* before the current row is shown; a project that has none shows its      *)
(* baseline.                                                               *)
Shown == IF current = {} THEN {} ELSE (CHOOSE row \in current : TRUE).ops

Readback(s) ==
    LET same == local[s].fresh => Shown = local[s].ops
    IN  /\ CallAt(s, "Readback")
        /\ Reports(s, IF Verifies /\ same THEN {Shown} ELSE {})
        /\ UNCHANGED store

Query(s) ==
    /\ CallAt(s, "Idle")
    /\ CallReplies(s, [tag |-> IF Verifies THEN "View" ELSE "Failed"])
    /\ UNCHANGED store

(* The budget is exhausted or its owner cancels.  Once the append is       *)
(* durable only the readback is lost.                                      *)
CancelCall(s) ==
    /\ local[s].mode # "Closed"
    /\ local[s].at \notin {"Idle", "Baseline"}
    /\ IF local[s].receipt = {} THEN CallReplies(s, [tag |-> "Failed"]) ELSE Reports(s, {})
    /\ UNCHANGED store

SessionNext(s) ==
    \/ Create(s) \/ RegisterBaseline(s) \/ Open(s) \/ Close(s)
    \/ \E c \in Calls : Begin(s, c)
    \/ ReadOperations(s) \/ Derive(s) \/ Put(s) \/ Validate(s)
    \/ AppendOperation(s) \/ RetryOperation(s) \/ Reread(s)
    \/ Publish(s) \/ Readback(s) \/ Query(s) \/ CancelCall(s)

SessionsNext == \E s \in Sessions : SessionNext(s)

SessionSpec == SessionInit /\ [][SessionsNext]_sessionVars
-----------------------------------------------------------------------------
CallReplied == {local[s].reply : s \in Sessions}

(* commit_operation_with_outcome validates the candidate set "before any   *)
(* operation append.  Domain failures ... therefore cannot poison the      *)
(* immutable operation history": it can always be materialized.  The       *)
(* expected revision is compared by the append only, so a request that     *)
(* names a revision ahead of the log is validated without the operations   *)
(* another session appends before the revisions agree.                     *)
HistoryMaterializes == Materializes(baseline, Persisted)

(* The publication history always verifies: each row is the replay of the  *)
(* log prefix it names and the current row is the latest.  The set that is *)
(* published was read, and replayed, outside the publication's             *)
(* transaction, while other sessions append and publish, so the            *)
(* publication must compare it with what is persisted by then; otherwise   *)
(* every later query would report the project as corrupt.  It holds even   *)
(* of a history that can no longer be materialized.                        *)
PublicationsVerify == Verifies

(* A receipt is the truth: the mutation its caller asked for is in the log *)
(* at or before the revision it names, and when the call was not a retry   *)
(* and came with a view, the view shows the mutation.                      *)
ReceiptsAreTrue ==
    \A r \in CallReplied : r.tag = "Receipt" =>
        /\ r.revision <= Len(log)
        /\ \E i \in 1 .. r.revision : log[i].id = r.call.op /\ SameIntentAs(r.call, log[i])
        /\ r.fresh => \A view \in r.view : r.op \in view
=============================================================================
