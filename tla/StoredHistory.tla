---------------------------- MODULE StoredHistory ----------------------------
(***************************************************************************)
(* The operation and materialization tables of a bundle as their readers   *)
(* verify them: operation rows with their state row, the registered        *)
(* baseline, the publications with the current pointer, and the artifacts  *)
(* behind them.  A verification is a walk of polls, charges and checks that *)
(* ends at the first that fails, under one cumulative budget and a          *)
(* cancellation hook.  After one damaged cell, row or file the readers     *)
(* answer from what is left.                                               *)
(*                                                                         *)
(* A hash is the tagged value it is computed from.  An operation is [id,   *)
(* parents, depth, time, value]; a project is [revision, time, schema,      *)
(* values].                                                                *)
(***************************************************************************)
EXTENDS Integers, Sequences, FiniteSets, SequencesExt, FiniteSetsExt, TLC

CONSTANTS Project, Foreign,      \* this bundle's project id and another one
          Appended,              \* the operations callers append, in order
          BaselineProject,       \* the project registered as the baseline
          OperationBytes, ProjectBytes, ManifestBytes,   \* encoded lengths
          LibraryWork,           \* charge per operation of the set, replay and identity code
          Limits, Patience,      \* working-set limits, and polls before a caller cancels
          DefaultLimit, MAX_OPERATION_COUNT, MAX_PUBLICATIONS

VARIABLES db, files, written, hurt, verdict

vars == <<db, files, written, hurt, verdict>>

MATERIALIZER_PROTOCOL_VERSION == 1
ID_TEXT == 32
HASH_TEXT == 64
Unlimited == 1000000
None == <<>>

-----------------------------------------------------------------------------
(* What is written                                                         *)

OperationRow(op, revision) ==
    [id |-> op.id, project |-> Project, revision |-> revision, time |-> op.time,
     depth |-> op.depth, hash |-> <<"operation", op>>, canonical |-> op, wire |-> op]

BaselineArtifact(p) == <<"baseline", p>>
ProjectArtifact(p) == <<"project", p>>
BaselineHash(p) == <<"identity", p>>
SetHash(ops) == <<"set", ops>>
PublicationId(project, baseline, set) == <<"publication", <<project, baseline, set>>>>

Entry(kind, media) == [kind |-> kind, media |-> media, bytes |-> ProjectBytes]

BaselineRow(p) ==
    [hash |-> BaselineHash(p), project |-> Project, artifact |-> BaselineArtifact(p),
     bytes |-> ProjectBytes, protocol |-> MATERIALIZER_PROTOCOL_VERSION,
     revision |-> p.revision, time |-> p.time, committed |-> 5]

MaxDepth(ops) == Max({0} \cup {op.depth : op \in ops})

\* The causal materializer: every operation leaves its value in the project.
Materialize(p, ops) ==
    [p EXCEPT !.revision = @ + Cardinality(ops),
              !.time = Max({@} \cup {op.time : op \in ops}),
              !.values = @ \cup {op.value : op \in ops}]

PublicationRow(p, ops, revision) ==
    LET result == Materialize(p, ops)
    IN [id |-> PublicationId(Project, BaselineHash(p), SetHash(ops)), project |-> Project,
        protocol |-> MATERIALIZER_PROTOCOL_VERSION, schema |-> result.schema,
        baseline |-> BaselineHash(p), baselineArtifact |-> BaselineArtifact(p),
        baselineBytes |-> ProjectBytes, set |-> SetHash(ops), count |-> Cardinality(ops),
        operations |-> Cardinality(ops), depth |-> MaxDepth(ops),
        baselineRevision |-> p.revision, baselineTime |-> p.time,
        artifact |-> ProjectArtifact(result), bytes |-> ProjectBytes,
        revision |-> result.revision, time |-> result.time,
        bundle |-> revision, committed |-> 5]

StateRow(row) ==
    [project |-> row.project, publication |-> row.id, operations |-> row.operations,
     bundle |-> row.bundle]

Init ==
    /\ db = [revision |-> 1, artifacts |-> <<>>,
             log |-> {[project |-> Project, revision |-> 0]}, operations |-> {},
             baselines |-> {}, publications |-> {}, state |-> {}]
    /\ files = <<>> /\ hurt = FALSE
    /\ written = [operations |-> <<>>, baseline |-> None, publications |-> <<>>]
    /\ verdict = [call |-> "none"]

AppendOperation ==
    LET n == Len(written.operations) + 1
    IN /\ ~hurt /\ n <= Len(Appended)
       /\ db' = [db EXCEPT !.revision = @ + 1,
                           !.log = {[project |-> Project, revision |-> n]},
                           !.operations = @ \cup {OperationRow(Appended[n], n)}]
       /\ written' = [written EXCEPT !.operations = Append(@, Appended[n])]
       /\ verdict' = [call |-> "none"]
       /\ UNCHANGED <<files, hurt>>

Register ==
    LET artifact == BaselineArtifact(BaselineProject)
    IN /\ ~hurt /\ db.baselines = {}
       /\ db' = [db EXCEPT !.revision = @ + 1,
                           !.artifacts = (artifact :> Entry("baseline", "identity")) @@ @,
                           !.baselines = {BaselineRow(BaselineProject)}]
       /\ files' = (artifact :> artifact) @@ files
       /\ written' = [written EXCEPT !.baseline = <<BaselineProject>>]
       /\ verdict' = [call |-> "none"]
       /\ UNCHANGED hurt

\* A publication needs operations the current one does not have yet.
PublishCurrent ==
    LET row == PublicationRow(BaselineProject, ToSet(written.operations), db.revision + 1)
    IN /\ ~hurt /\ db.baselines # {}
       /\ \A s \in db.state : s.operations < Len(written.operations)
       /\ db' = [db EXCEPT !.revision = @ + 1,
                           !.artifacts = (row.artifact :> Entry("project", row.schema)) @@ @,
                           !.publications = @ \cup {row}, !.state = {StateRow(row)}]
       /\ files' = (row.artifact :> row.artifact) @@ files
       /\ written' = [written EXCEPT !.publications = Append(@, row)]
       /\ verdict' = [call |-> "none"]
       /\ UNCHANGED hurt

-----------------------------------------------------------------------------
(* A metered walk                                                          *)

Poll == <<"poll", 0>>
Charge(n) == <<"charge", n>>
Check(ok) == <<"check", IF ok THEN 1 ELSE 0>>
Within(ok) == <<"within", IF ok THEN 1 ELSE 0>>

\* Steps that only make sense once ok holds.
Guarded(ok, steps) == IF ok THEN steps ELSE <<Check(FALSE)>>

ForEach(seq, Steps(_)) == FlattenSeq([i \in DOMAIN seq |-> Steps(seq[i])])

\* A charge polls first, and charges nothing when it would pass the limit.
Take(meter, step, limit, patience) ==
    LET polls == step[1] \in {"poll", "charge"}
    IN IF meter.outcome # "ok" THEN meter
       ELSE IF polls /\ meter.polls = patience THEN [meter EXCEPT !.outcome = "cancelled"]
       ELSE IF step[1] = "charge"
            THEN IF meter.used + step[2] > limit THEN [meter EXCEPT !.outcome = "limit"]
                 ELSE [meter EXCEPT !.used = @ + step[2], !.polls = @ + 1]
       ELSE IF polls THEN [meter EXCEPT !.polls = @ + 1]
       ELSE IF step[2] = 1 THEN meter
       ELSE [meter EXCEPT !.outcome = IF step[1] = "within" THEN "limit" ELSE "corrupt"]

RECURSIVE WalkFrom(_, _, _, _)
WalkFrom(meter, steps, limit, patience) ==
    IF steps = <<>> \/ meter.outcome # "ok" THEN meter
    ELSE IF Len(steps) = 1 THEN Take(meter, steps[1], limit, patience)
    ELSE LET half == Len(steps) \div 2
         IN WalkFrom(WalkFrom(meter, SubSeq(steps, 1, half), limit, patience),
                     SubSeq(steps, half + 1, Len(steps)), limit, patience)

Walk(steps, limit, patience) ==
    WalkFrom([used |-> 0, polls |-> 0, outcome |-> "ok"], steps, limit, patience)

Copies(bytes, copies) == Charge(bytes * copies + 128)

-----------------------------------------------------------------------------
(* The operation inventory                                                 *)

OperationRowStands(row) ==
    /\ row.project = Project
    /\ row.revision > 0 /\ row.time > 0 /\ row.depth >= 0
    /\ row.wire.id = row.id /\ row.wire.time = row.time /\ row.wire.depth = row.depth
    /\ row.hash = <<"operation", row.wire>> /\ row.canonical = row.wire

LogStateStands(d) ==
    /\ Cardinality(d.log) = 1
    /\ \A s \in d.log : s.project = Project /\ s.revision \in 0..MAX_OPERATION_COUNT

LogRevision(d) == (CHOOSE s \in d.log : TRUE).revision

OperationRows(d) ==
    SetToSortSeq(d.operations,
                 LAMBDA a, b : a.revision < b.revision \/ (a.revision = b.revision /\ a.id < b.id))

GraphStands(ops) ==
    /\ \A a, b \in ops : a.id = b.id => a = b
    /\ \A a \in ops : a.parents \subseteq {b.id : b \in ops}
    /\ \A a \in ops : a.depth = 1 + Max({-1} \cup {b.depth : b \in {c \in ops : c.id \in a.parents}})

ReadRows(d) ==
    LET rows == OperationRows(d)
    IN ForEach(rows, LAMBDA r : <<Charge(0)>>)
         \o <<Check(Len(rows) <= MAX_OPERATION_COUNT)>>
         \o ForEach(rows, LAMBDA r : <<Charge(0), Charge(2 * ID_TEXT + HASH_TEXT + 128)>>)
         \o ForEach(rows, LAMBDA r : <<Charge(0)>>)
         \o ForEach(rows, LAMBDA r : <<Charge(5 * OperationBytes + 256), Charge(0),
                                       Check(OperationRowStands(r))>>)

Inventory(d) ==
    LET rows == OperationRows(d)
    IN <<Charge(256), Check(LogStateStands(d))>> \o ReadRows(d)
         \o Guarded(LogStateStands(d),
              <<Check(Len(rows) = LogRevision(d)),
                Check(\A i \in DOMAIN rows : rows[i].revision = i)>>)
         \o ForEach(rows, LAMBDA r : <<Charge(2 * OperationBytes + 128)>>)
         \o <<Charge(Len(rows) * LibraryWork), Check(GraphStands({r.wire : r \in d.operations}))>>

\* The operations of the first `revision` rows.
PrefixSteps(d, revision) ==
    <<Check(revision <= LogRevision(d)),
      Charge(revision * (2 * OperationBytes + 128)), Charge(revision * LibraryWork)>>

Prefix(d, revision) == {OperationRows(d)[i].wire : i \in 1..revision}

-----------------------------------------------------------------------------
(* The baseline                                                            *)

\* A registered artifact reads back when its file holds what its hash names.
ArtifactReads(hash) == hash \in DOMAIN files /\ files[hash] = hash

EntryStands(d, hash, kind, media, bytes) ==
    /\ hash \in DOMAIN d.artifacts
    /\ d.artifacts[hash] = [kind |-> kind, media |-> media, bytes |-> bytes]

BaselineRowStands(p, row, artifact, bytes) ==
    /\ row.hash = BaselineHash(p) /\ row.project = Project
    /\ row.artifact = artifact /\ row.bytes = bytes
    /\ row.protocol = MATERIALIZER_PROTOCOL_VERSION
    /\ row.revision = p.revision /\ row.time = p.time /\ row.committed >= 0

\* The texts of at most one row are measured before they are read.
BaselineInventory(d) == Charge(256 + IF d.baselines = {} THEN 0 ELSE ID_TEXT + 2 * HASH_TEXT)

\* The one baseline row, its entry, its file and its decoded project.
VerifiedBaseline(d) ==
    LET row == CHOOSE r \in d.baselines : TRUE
    IN <<Poll, BaselineInventory(d)>>
         \o IF d.baselines = {} THEN <<>>
            ELSE <<Poll, Check(row.project = Project), Check(row.bytes >= 0),
                   Check(EntryStands(d, row.artifact, "baseline", "identity", row.bytes)),
                   Charge(Max({row.bytes, 0}) + 128)>>
                 \o Guarded(ArtifactReads(row.artifact),
                      <<Copies(ProjectBytes, 4),
                        Check(BaselineRowStands(row.artifact[2], row, row.artifact, row.bytes)),
                        Charge(ProjectBytes)>>)

BaselineOf(d) == {r.artifact[2] : r \in {q \in d.baselines : Len(q.artifact) = 2}}

-----------------------------------------------------------------------------
(* One publication                                                         *)

\* The greatest causal depth goes unchecked.
HistoricalOperationsAnyDepth(d, row, loaded) ==
    <<Poll, Check(row.operations \in 0..MAX_OPERATION_COUNT)>>
      \o (IF loaded THEN <<>> ELSE Inventory(d))
      \o Guarded(LogStateStands(d) /\ row.operations \in 0..LogRevision(d)
                   /\ LogRevision(d) = Cardinality(d.operations),
           PrefixSteps(d, row.operations)
             \o <<Charge(row.operations * LibraryWork),
                  Check(row.count = row.operations /\ row.set = SetHash(Prefix(d, row.operations)))>>)

HistoricalOperations(d, row, loaded) ==
    <<Poll, Check(row.operations \in 0..MAX_OPERATION_COUNT)>>
      \o (IF loaded THEN <<>> ELSE Inventory(d))
      \o Guarded(LogStateStands(d) /\ row.operations \in 0..LogRevision(d)
                   /\ LogRevision(d) = Cardinality(d.operations),
           PrefixSteps(d, row.operations)
             \o <<Charge(row.operations * LibraryWork),
                  Check(row.count = row.operations /\ row.set = SetHash(Prefix(d, row.operations))),
                  Check(row.depth = MaxDepth(Prefix(d, row.operations)))>>)

BaselineEvidence(d, row, baselineRow, verified) ==
    (IF verified # {} THEN <<Check(\A p \in verified : BaselineHash(p) = row.baseline)>>
     ELSE <<Charge(row.baselineBytes + 128), Check(ArtifactReads(row.baselineArtifact)),
            Copies(ProjectBytes, 4)>>)
      \o <<Check(/\ BaselineHash(row.baselineArtifact[2]) = row.baseline
                 /\ row.baselineArtifact[2].revision = row.baselineRevision
                 /\ row.baselineArtifact[2].time = row.baselineTime),
           Check(BaselineRowStands(row.baselineArtifact[2], baselineRow,
                                   row.baselineArtifact, row.baselineBytes))>>

ProjectEvidence(d, row, verified) ==
    LET project == row.artifact[2]
    IN <<Charge(row.bytes + 128), Check(ArtifactReads(row.artifact)), Copies(ProjectBytes, 3),
         Check(/\ project.revision = row.revision /\ project.time = row.time
               /\ project.schema = row.schema)>>
         \o (IF verified # {} THEN <<>> ELSE <<Charge(ProjectBytes)>>)

ValidateArtifacts(d, row, baselineRow, verified, loaded) ==
    LET registered == EntryStands(d, row.baselineArtifact, "baseline", "identity", row.baselineBytes)
        stored == EntryStands(d, row.artifact, "project", row.schema, row.bytes)
        replays == /\ LogStateStands(d) /\ row.operations \in 0..Cardinality(d.operations)
                   /\ row.artifact[2] = Materialize(row.baselineArtifact[2], Prefix(d, row.operations))
    IN <<Poll, Check(row.bundle \in 1..d.revision),
         Check(row.protocol = MATERIALIZER_PROTOCOL_VERSION),
         Check(row.id = PublicationId(row.project, row.baseline, row.set))>>
         \o Guarded(registered, BaselineEvidence(d, row, baselineRow, verified))
         \o <<Check(row.schema \in {1, 2})>>
         \o Guarded(registered /\ stored,
              ProjectEvidence(d, row, verified) \o HistoricalOperations(d, row, loaded)
                \o <<Charge(row.operations * LibraryWork), Check(replays)>>)

StateStands(d, state, row) ==
    /\ state = StateRow(row) /\ state.project = Project
    /\ state.bundle \in 1..d.revision

-----------------------------------------------------------------------------
(* The calls                                                               *)

ManifestDecode == Copies(ManifestBytes, 4)

\* The rows up to the limit are measured before one is read.
PreflightPublications(publications) ==
    ForEach(SubSeq(publications, 1, Min({Len(publications), MAX_PUBLICATIONS})),
            LAMBDA r : <<Poll, Charge(ID_TEXT + 5 * HASH_TEXT + 256)>>)
      \o <<Within(Len(publications) <= MAX_PUBLICATIONS)>>

PreflightBaseline(rows) == IF rows = {} THEN <<>> ELSE <<Charge(ID_TEXT + 2 * HASH_TEXT + 256)>>

PreflightState == <<Charge(ID_TEXT + HASH_TEXT + 128)>>

\* Every publication, in one transaction under one budget.
VerifyHistory(d) ==
    LET publications == SetToSeq(d.publications)
        current(s) == {r \in d.publications : r.id = s.publication}
    IN <<Poll, ManifestDecode>> \o VerifiedBaseline(d)
         \o PreflightPublications(publications)
         \o (IF publications = <<>> THEN <<>> ELSE Inventory(d))
         \o ForEach(publications, LAMBDA r :
              LET rows == {b \in d.baselines : b.hash = r.baseline}
              IN PreflightBaseline(rows)
                   \o Guarded(rows # {}, ValidateArtifacts(d, r, CHOOSE b \in rows : TRUE,
                                                           BaselineOf(d), TRUE)))
         \o (IF d.state = {} THEN <<Check(publications = <<>>)>>
             ELSE PreflightState
                  \o <<Check(\A s \in d.state : current(s) # {}
                            /\ (\A r \in current(s) : StateStands(d, s, r))),
                       Check(\A s \in d.state, r \in d.publications : r.operations <= s.operations)>>)
         \o <<Poll>>

BaselineWithBudget(d) == <<Poll, ManifestDecode>> \o VerifiedBaseline(d) \o <<Poll>>

OperationSetWithBudget(d) ==
    <<Poll, ManifestDecode>> \o Inventory(d)
      \o <<Charge(Cardinality(d.operations) * LibraryWork), Poll>>

\* The current publication, re-verified on its own under the default budget.
CurrentProject(d) ==
    IF d.state = {} THEN <<>>
    ELSE LET state == CHOOSE s \in d.state : TRUE
             rows == {r \in d.publications : r.id = state.publication}
             row == CHOOSE r \in rows : TRUE
             baselines == {b \in d.baselines : b.hash = row.baseline}
         IN Guarded(rows # {} /\ baselines # {} /\ StateStands(d, state, row),
              ValidateArtifacts(d, row, CHOOSE b \in baselines : TRUE, {}, FALSE)
                \o <<Check(row.committed >= 0)>>)

\* What the current pointer names.
Current(d) ==
    {r.artifact[2] : r \in {q \in d.publications : /\ Len(q.artifact) = 2
                                                  /\ \E s \in d.state : q.id = s.publication}}

\* The baseline and the current publication, each under a budget of its own,
\* from one transaction.
Snapshot(d) ==
    LET first == Walk(VerifiedBaseline(d), DefaultLimit, Unlimited)
    IN IF first.outcome # "ok" THEN first ELSE Walk(CurrentProject(d), DefaultLimit, Unlimited)

Answer(call, meter, ok) ==
    verdict' = IF meter.outcome = "ok" THEN [call |-> call, outcome |-> "ok", found |-> ok]
               ELSE [call |-> call, outcome |-> meter.outcome]

VerifyCall ==
    \E limit \in Limits, patience \in Patience :
      Answer("verify", Walk(VerifyHistory(db), limit, patience), {})

BaselineCall ==
    \E limit \in Limits, patience \in Patience :
      Answer("baseline", Walk(BaselineWithBudget(db), limit, patience), BaselineOf(db))

OperationsCall ==
    \E limit \in Limits \cup {Unlimited}, patience \in Patience :
      Answer("operations", Walk(OperationSetWithBudget(db), limit, patience),
             {r.wire : r \in db.operations})

CurrentCall == Answer("current", Walk(CurrentProject(db), DefaultLimit, Unlimited), Current(db))

SnapshotCall == Answer("snapshot", Snapshot(db), <<BaselineOf(db), Current(db)>>)

\* A call changes nothing: one from each state of the bundle is enough.
Read ==
    /\ verdict.call = "none"
    /\ VerifyCall \/ BaselineCall \/ OperationsCall \/ CurrentCall \/ SnapshotCall
    /\ UNCHANGED <<db, files, written, hurt>>

-----------------------------------------------------------------------------
(* Damage                                                                  *)

Numbers == {"revision", "time", "depth", "bytes", "committed", "baselineBytes", "count",
            "operations", "baselineRevision", "baselineTime", "bundle"}

\* Another value in one cell, of those the CHECK constraint of its column lets in.
Altered(row) ==
    UNION {IF c = "protocol" THEN {}
           ELSE IF c = "project" THEN {[row EXCEPT ![c] = Foreign]}
           ELSE IF c = "schema" THEN {[row EXCEPT ![c] = 3 - @]}
           ELSE IF c \in {"canonical", "wire"}
                THEN {[row EXCEPT ![c].value = 0], [row EXCEPT ![c].id = 9]}
           ELSE IF c = "id" /\ "wire" \in DOMAIN row THEN {[row EXCEPT ![c] = 9]}
           ELSE IF c \in Numbers
                THEN {[row EXCEPT ![c] = @ + 1]} \cup (IF row[c] > 1 THEN {[row EXCEPT ![c] = @ - 1]} ELSE {})
           ELSE {[row EXCEPT ![c] = <<"damaged">>]} : c \in DOMAIN row}

\* One row altered or lost.
Spoiled(rows) ==
    UNION {{rows \ {r}} \cup {(rows \ {r}) \cup {q} : q \in Altered(r)} : r \in rows}

Damage ==
    /\ ~hurt /\ hurt' = TRUE
    /\ verdict' = [call |-> "none"]
    /\ UNCHANGED written
    /\ \/ /\ \E t \in {"log", "operations", "baselines", "publications", "state"} :
               \E rows \in Spoiled(db[t]) : db' = [db EXCEPT ![t] = rows]
          /\ UNCHANGED files
       \/ /\ \E h \in DOMAIN files :
               files' \in {[files EXCEPT ![h] = <<"damaged">>],
                           [g \in DOMAIN files \ {h} |-> files[g]]}
          /\ UNCHANGED db

Next == AppendOperation \/ Register \/ PublishCurrent \/ Read \/ Damage

Spec == Init /\ [][Next]_vars

-----------------------------------------------------------------------------
(* Correctness                                                             *)

\* What nothing in the bundle repeats, and so no reader can miss: when a row
\* was committed, and at which bundle revision a superseded one was.
Unwitnessed(row) == [row EXCEPT !.committed = 0, !.bundle = 0]

AsWritten ==
    LET published == written.publications
        last == published[Len(published)]
    IN /\ db.log = {[project |-> Project, revision |-> Len(written.operations)]}
       /\ db.operations = {OperationRow(written.operations[i], i) : i \in DOMAIN written.operations}
       /\ {[b EXCEPT !.committed = 5] : b \in db.baselines} = {BaselineRow(BaselineProject)}
       /\ {Unwitnessed(r) : r \in db.publications} \subseteq {Unwitnessed(r) : r \in ToSet(published)}
       /\ db.state = {StateRow(last)}
       /\ \E r \in db.publications : [r EXCEPT !.committed = 0] = [last EXCEPT !.committed = 0]

LastProject ==
    LET published == written.publications
    IN IF published = <<>> THEN {} ELSE {published[Len(published)].artifact[2]}

\* A reader of the history says "corrupt" only of a bundle that was damaged,
\* verification passes only a history that is as it was written (but for commit
\* times, and for rows of superseded publications that are gone altogether), a
\* verified history can then be read, and whatever the baseline, operation and
\* current-project readers return was written (verify_materialized_project_
\* publication_with_budget, read_current_project, validate_inventory_with_budget).
VerdictIsTrue ==
    /\ verdict.call # "none" /\ ~hurt => verdict.outcome # "corrupt"
    /\ verdict.call = "verify" /\ verdict.outcome = "ok" =>
         /\ written.publications # <<>> => AsWritten
         /\ Snapshot(db).outcome = "ok"
    /\ verdict.call = "baseline" /\ verdict.outcome = "ok" =>
         /\ verdict.found \subseteq ToSet(written.baseline)
         /\ ~hurt => verdict.found = ToSet(written.baseline)
    /\ verdict.call = "operations" /\ verdict.outcome = "ok" =>
         verdict.found = ToSet(written.operations)
    /\ verdict.call = "current" /\ verdict.outcome = "ok" =>
         /\ verdict.found \subseteq LastProject
         /\ ~hurt => verdict.found = LastProject
    /\ verdict.call = "snapshot" /\ verdict.outcome = "ok" =>
         verdict.found[1] \subseteq ToSet(written.baseline) /\ verdict.found[2] \subseteq LastProject
=============================================================================
