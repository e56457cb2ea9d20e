# Verification of the survey instrument

The repository is a local-first Wi-Fi survey instrument. A project is a directory
(a *bundle*) that several processes may open at once: desktop, command line, capture
pipeline. Everything a user does ends as immutable rows and content-addressed files in
that bundle, and everything a user sees is recomputed from them. This directory holds
TLA+ models of the parts in which order, concurrency, crashes, retries or boundaries
decide whether that works, the model-checking runs over them, and machine-checked proofs
of the properties that matter most.

## The system and its parts

| Part | Source | Modules | What is hard |
|---|---|---|---|
| Operation log | `crates/operation-log` | `Journal`, `OperationLog`, `OperationSet`, `OfflineMerge` | devices edit offline and merge in any order; undo of undone things; conflicts that must survive |
| Project aggregate and materializer | `crates/domain/src/project*`, `crates/causal-materializer` | `ProjectAggregate`, `Materializer` | inverse commands, concurrent edits of things that depend on each other |
| Bundle store | `crates/project-store` (`bundle`, `operation_log`, `survey_snapshot`, `observation_chunks`) | `BundleStore` | files and rename before commit, crash anywhere, several processes, busy timeouts, exact retries |
| Readers of the store | same, and `capture_sessions`, `materialized_project`, `parquet_codec`, `crates/resource-budget` | `ObservationReads`, `SnapshotPages`, `SessionCatalog`, `StoredHistory`, `ChunkCodec` | a read is several transactions; damage must be found and soundness not denied; cursors; unions of columns |
| Capture publication | `capture_publication`, `capture_sessions`, `crates/observation-pipeline` (`lib`, `bundle`, `spool`) | `CapturePublication` | a chain of commits per request, each may fail; two processes with the same capture |
| Collector supervision | `crates/observation-pipeline/src/process.rs` | `CollectorProcess` | exit, overflow, deadline, cancellation and surviving descendants race |
| macOS collector and its decoders | `collectors/macos`, `crates/capture-adapter/src/macos.rs` | `CollectorWire` | three threads may end the stream; permission is revoked in between; two decoders |
| Native acquisition | `crates/capture-adapter/src/macos/normalize.rs`, capture contracts of `crates/domain` | `NativeAcquisition` | what one stage accepts the next must not refuse |
| Application sessions | `crates/application`, `materialized_project` | `ProjectSession` | a call is many transactions and other sessions step in between |
| Desktop shell | `apps/desktop/src-tauri` | `DesktopCommands` | async handlers over two locks, cancellation, one-shot grants, retained retries |
| Surveys | `crates/survey` | `PointSurvey`, `ManualPath` | operator clicks and late samples on two clocks; pauses; interval arithmetic |
| Active measurement | `crates/active-measurement`, `crates/domain/src/active.rs` | `ActiveMeasurement`, `ActiveContracts` | time and cancellation fall between the reads of one sample |
| Kismet adapters | `crates/kismet-adapter` | `KismetLive`, `KismetImport` | retries under one deadline; a file that changes while it is read |
| Tiles and scenes | `crates/spatial-analysis`, `crates/rendering-scene` | `SpatialTile`, `RenderScene` | two computations, two validators and a decoder have to agree |

A collector writes a stream (`CollectorWire`), the supervisor accepts or refuses it as a
whole (`CollectorProcess`), the adapter normalizes it and composes a session record
(`NativeAcquisition`), the pipeline publishes it into the bundle (`CapturePublication`,
each step a transaction of `BundleStore`), sessions append operations to the same bundle
and publish materializations of the log (`ProjectSession` over `OperationSet`), and the
desktop drives sessions from several handlers (`DesktopCommands`).

## How the models correspond to the code

Each component is a module with its state, one action per step that other actors can
interleave with, and its properties. `PROJECT.json` maps every definition to its lines.

* **Operations.** An operation is a record of what the checks read: identity, actor,
  parents, depth, logical time, kind, field, value, the value found before, target,
  schema. Canonical bytes and hashes are equality of these records. `OperationLog` is the
  linear log of one device (`append`); `OperationSet` has validation, order, replay and
  the conflict scan as functions of a set; `OfflineMerge` lets devices build, toggle,
  resolve and merge. `ProjectAggregate` has the fourteen project commands with their
  inverses; `Materializer` turns an admitted set into commands and applies them in the
  code's order.
* **Bundle.** `db` is the committed content of the SQLite file, `work[h]` what the
  transaction of handle `h` sees, `files` the artifact directory, `projection` is
  `manifest.json`, `hot` says that a rollback journal is left behind. A call runs through
  the stages File (bytes written and renamed), Lock (`BEGIN IMMEDIATE`), Prepared (checks
  passed, rows written), Projected (manifest renamed), and ends with the commit. A crash,
  a timeout or an I/O error can hit each stage. `verify` reads manifest and projection in
  one deferred transaction and audits the tables in later ones. What the operation set
  says of a graph is the constant operator `Replays`; `OperationSet` models it.
* **Readers.** One cell, row or file may be damaged before or between the reader's
  transactions, and a writer commits between them. `StoredHistory` models a verification
  as the sequence of polls, charges and checks the code makes, so its budget and its
  cancellation can end it at each. `ChunkCodec` models flattening to columns and
  rebuilding; the Parquet container is external. `MaxDecodedRows` stands for the rows the
  decoder's memory allowance covers, in `ObservationReads`, `SessionCatalog` and
  `CapturePublication`: a longer chunk is published all the same, and since a reader of
  one chunk verifies the whole inventory, every such read then says corrupt.
* **Publication and sessions.** In `CapturePublication` and `ProjectSession` a whole
  transaction of the store is one step; what happens inside one is `BundleStore`'s
  subject. A materialized project is represented in `ProjectSession` by the operations
  replayed onto the baseline, which determine it.
* **Processes and threads.** In `CollectorProcess` a record on a pipe is a model value
  and the deadline may fall at any moment. In `CollectorWire` writing a record is one
  step (it is under a lock) and `finish` is two, since `exit` is called after the lock is
  released. In `DesktopCommands` a section that takes the state lock and waits for
  nothing is one step; a handler that waits for the session with the state locked holds
  it over several.
* **Surveys and sources.** Observations keep only what admission tells apart. Times and
  positions are small integers; a placed position is the exact fraction the code rounds.
  `KismetLive` takes one step per request, backoff or decoded resource; `KismetImport`
  copies one row at a time, as the code copies one buffer.
* **Tiles.** Coordinates are integers, a distance is the integer part of `SCALE` times
  the Euclidean one, weights are exact fractions. The Euclidean and the barrier-aware
  estimator are two definitions, as they are two functions with their own support counts,
  heap order and weights. Overflow and rounding of doubles are outside the model.

## Runs

The runs that must pass put several components side by side: a behaviour is one of the
instances, chosen at the start by the variable `part` or `which`, and the others stay as
they start. The comment above each property explains it.

| Run | States | Instances | What it shows |
|---|---|---|---|
| `operations` | 169,000 | one log under every candidate operation over six identities, well and ill formed; two devices, one field, two values, two schemas; two replicas of a project with maps, calibrations, evidence and names | toggles alternate, any replicas merge, reported conflicts can be resolved where their schema has resolutions, receipts undo and replay, every causal order of an admitted set gives one project, bound evidence freezes its floor |
| `stored_evidence` | 697,000 | a collector's stream; two processes that save snapshots and publish chunks with colliding bytes, identities and observations; the five kinds of readers with one damage; tiles and scenes with edited fields | complete streams decode alike in both decoders and stop at a revocation, no observation is stored twice, reads and verdicts are true or refused for a reason, chunks read back as written, scenes show what their samples compute to, an impassable barrier is as good as leaving out what is behind it |
| `field_capture` | 615,000 | two processes that ingest, spool and register sessions, captures beyond the decoder's allowance among them, with a failure or crash between any two commits; a point survey; a manual path; an active measurement; a Kismet poll; a Kismet import; a native acquisition | what is stored can be read again and is what happened, a completed survey has its evidence, nothing is placed across a pause, an admitted interval can be scheduled, a poll or import is whole or absent |
| `application` | 625,000 | two sessions that create, open, import, calibrate, retry, cancel, crash and query; two desktop calls in flight with cancellation, unwinding workers and expiring grants | what is published verifies, receipts are true, a cancelled call publishes nothing, abandoned bundles are moved aside, failed imports keep their bytes, images stay in their project |
| `calls_return` | 361,000 | two processes that register sources, append, recover and verify with crashes everywhere; two callers that retry an ingest around two failures; one collector run with one kind of trouble | files before rows, projection exact or one ahead, true receipts, journal refined, accepted output whole; with fairness every call returns, retries converge, the session ends with its child reaped and its readers gone |

Seven runs show disagreements between documents and code: `silent_winner`,
`merged_toggles`, `capture_clock`, `desktop_locks`, `poisoned_history`, `chunk_budget`,
`extrapolation` (see below).

**Bounds.** Two actors are enough for every race the code can have with one lock, one
field frontier or one row: each property relates at most two calls, and a third party
appears only as the committed state it leaves behind. Three operations per device and
four in all let a device edit, undo and redo while the other interferes at each point;
five entries let the linear log undo, redo and undo again; four aggregate commands reach
a removal after everything that depends on it. Two chunks with a common observation, two
snapshots with common bytes and two wall times are the smallest collisions. One failure
leaves each prefix of a publication, and a second one is allowed where convergence is
checked. Readers have limits that are just enough and one short, and one damage, after
which the code promises an answer. Surveys have four ticks, two windows and two records,
so dwells overlap, nest and touch, and a pause lies between. The Kismet poll has
one retry of each resource, and its deadline can fall at any of them. The desktop has one place in its
retry table; any four calls reach an image picked for another project, and five calls
that only create, pick and import reach a second import that meets a retained one. Code limits that the properties do not depend on are
scaled down to one or two; those of the chunk codec are the code's own, since
`chunk_budget` is about them. Every bound is a constant of its module (`MaxOperations`,
`MaxLocalOps`, `MaxFaults`, `MaxTroubles`, `EnvChanges`, `MaxCalls`, ...).
`field_capture` and `application` use the symmetry of handles, sessions and callers,
which appear only as domains of functions.

**Deadlock** is checked in `calls_return`, where a caller can always call again and a
session that has returned stays so by an explicit step. Elsewhere behaviours really end:
a collector exits, a survey is finished, a poll returns, or the bound on calls is used up.

**Fairness** (`CallsSpec` of `MCCallsReturn`, `FairSpec` of `DesktopCommands`). A live
process takes its next step, because a store call is straight-line code with a busy
timeout on every wait; nothing is assumed of crashes, of callers or of opening. The
supervisor's loop sleeps two milliseconds and polls, the readers' blocking reads return
when bytes or end of file are there, and the deadline passes; nothing is assumed of the
child. Only for `RetriesConverge` are callers assumed to call again, with a current
clock, whenever a process is free again and again: that is what the documentation asks of
them. The capture is one whose chunk can be decoded; of one that cannot, the link fails
for ever. In `desktop_locks` a handler that can proceed does, and a mutex is handed to
somebody who waits for it.

## Theorems

`OperationLogProofs` (any operations, any limit). The inductive invariant is
`TypeOK /\ Counted /\ SingleChain /\ ClockFollowsChain`: the chain property alone is not
inductive, for `append` checks a candidate against the count, the tip and the clock, so
these have to be known to agree. From it follow that the log is one chain, that sorting
by logical time is causal order, and that the log refines `Journal`. With
`TargetsStored` and `ActiveIsLastToggle` it gives that the incrementally kept activity
is what a replay of the chain computes, and that toggles alternate.

`BundleStoreProofs` (any processes, any calls). The inductive invariant `IInv` joins the
properties of the committed content with what each open transaction knows:

* `DbInv(db)`: types, evidence registered under its kind, an operation graph that
  replays, disjoint chunks, contiguous operation revisions, one mutation per revision;
* `OneWriter` and `TransactionInv`: at most one handle is between lock and commit, and
  what it is about to commit is its own call's effect on the *current* content, again
  satisfies `DbInv`, and needs only bytes already on disk;
* `FileFirst`: a call that waits for the lock has its bytes on disk;
* `ReaderInv`: while a reader holds its transaction nothing is committed;
* `NoDanglingArtifact` and `ProjectionExactOrAhead`.

Per call, a lemma shows that its effect on a content that
satisfies `DbInv` and that it accepts again satisfies `DbInv` and extends it
(`PutFollows`, `AppendFollows`, `SnapshotFollows`, `ChunkFollows`); per action, a lemma
shows that `IInv` is kept. The assumption on the constants (`RequestsAreCalls`) only says
that calls are well formed.

Two theorems need more than `IInv`. `ReceiptsAlwaysHold` is inductive with `ReceiptInv`:
each step leaves an answer alone, withdraws it, or gives one that holds of what is then
committed (`AnswersHold`), and a receipt that holds survives every extension
(`HoldsIsStable`). `BundleImplementsJournal` maps the rows, ordered by revision, to the
journal: contiguous and unrepeated revisions make that a sequence (`JournalByRevision`),
an accepted append is its new last entry, and no other call touches it.

`CaptureProofs` (any processes, captures and requests, any number of failures and
crashes). The rows' readability is not inductive alone: a publication is several
transactions, and each relies on what an earlier one found or wrote. `CallInv` lists, per
stage, what the call relies on (its manifest is registered, its receipts hold, its
snapshot was built from the survey it names, the preflight saw the row's chunk). `Grows`
says what a commit of anybody may change, and `CallInv` is stable under it; so a call's
own transaction is the only step that has to establish anything. This gives
`RowsStayReadable`, `ReceiptsStayTrue`, `StoreOnlyGrows` and, from what each refusal has
compared, `CorruptionIsReal`. A row whose chunk is beyond the decoder's allowance agrees
with everything it names and still cannot be read; the two theorems say so and no more.
Assumed: captures are manifests (`CapturesAreManifests`),
requests are well formed (`RequestsAreCalls`), faults are counted (`FaultsAreCounted`).

`CollectorProofs` (any pipe capacity, output limits, records, exit codes, number of
troubles). The acceptance test reads flags, channels and an exit status left by two reader
threads and a process, so the invariant says what each of these means: without an overflow
flag, what was written is what was kept followed by what the pipe holds (`StreamWhole`); a
reader that ended by itself saw the pipe empty and no writer left (`EndReached`); a
supervisor that killed remembers it until it returns (`SupervisorInv`). From it follow
`AcceptedOutputIsWhole` and `ReturnedChildIsReaped`. Assumed: limits and capacity are
numbers (`PipesAreBounded`), an exit status is an optional code (`ExitsAreOptions`).

`CollectorStreamProofs` and `CollectorWireProofs` (any interfaces and listings, any command
lines, any number of changes of permission and power). The properties are about the
finished stream, and what makes them true is where each of the threads stood when it wrote.
The inductive invariant `WireInv` has four parts:

* the types;
* `History`: what every record satisfies in view of the records before it, whoever wrote
  it (in order, hello first, nothing after the end, a start only under an announced and
  powered source, an observation only under its start and inside its window, an end whose
  counts are those of the stream);
* `ThreadsOK`, while the process runs: what a thread's place says of the stream (`MainOK`),
  of the listing and the scan the collecting thread has in its variables (`CollectOK`), and
  of the scan numbers already used (`ScanOK`);
* `OneLate`: at most one observation follows a revocation, and none yet while the
  collecting thread is between its check and its write.

`CollectorStreamProofs` has the lemmas about appending one record: `History` of the longer
stream follows from `History` of the shorter one and a condition on the new record alone.
`CollectorWireProofs` shows for each step that the condition is met, and that the other
threads' places survive it (`CollectKept`, `ScanKept`, `MainDuring`). What a place says of
the stream is claimed only until the stream has ended, since any thread may end it. The
assumptions about power are claimed only while no interface has changed it, which is what
`CompleteStreamsDecode` supposes. The decoders then accept because each of their checks is
a conjunct of `History`, and they agree because the two checks that only the Rust decoder
makes follow from it: `WindowsClosed` is a conjunct, and
a final permission (`FinalHolds`) is reported by the authorize command only
(`FinalsAreAuthorize`). Assumed (`CollectorWireAssumption`): the interfaces are finitely
many and ordered, and a command line has a command, a positive limit and at most one
interface.

`DesktopProofs` (any number of calls in flight, projects, grants, any table limits). Each
handler locks the state several times and carries a project, a source or an outcome from
one lock to the next. The inductive invariant says what it still knows at each step
(`CallInv`) and what the state holds in between (`SharedInv`): a call has a job exactly
between admission and its last step, and there is at most one job, hence no second session
and nobody else who fills the retry table; who works on the session found one; a create's
bundle exists, and is aside once the create is known to be cancelled; the retry table has
room for the import at work; the source that is carried belongs to the project that is
carried, which is still the open one. `CancellationWins`, `AbandonedBundlesAside`, `RetriesNeverLost` and
`ImportsInTheirProject` follow. Assumed: the limits are positive (`DesktopAssumption`) and
the free lock is no caller (`NobodyIsNoCaller`).

`SessionProofs` (any number of sessions, any calls). `ReceiptsTellTheTruth` rests on an
invariant that follows a call through its transactions: its operation is the one that was
asked for (`Asked`), what it has read or appended is in the log (`Known`, which the growth
of the log keeps), and the set a fresh receipt is shown with has the operation (`Shows`);
`BaselineInv` adds that nothing is appended or published before the one baseline.
`PublicationsAlwaysVerify` adds `PublicationInv`: every row is the replay of the prefix it
names, the current row is the latest, and a set that waits to be published was replayed
(`RereadsGood`). It needs nothing of the requests, and holds even of a history that can no
longer be materialized: a publication compares its set with what is persisted by then.
That the history itself materializes needs `CandidatesGood`: a candidate whose expected
revision matches the log materializes *with the present log*. This is not inductive for
every request, and the run `poisoned_history` refutes it for requests that name a revision
ahead of the log. `IntentHistoriesMaterialize` proves it for intents, which take the
revision from the log and are never ahead (`Timely`). Assumed: calls are imports and
calibrations with their fields (`CallsAreMutations`), limits are numbers
(`LimitsAreCounts`).

The theorems listed without a property in `PROJECT.json` (types, the single chain and its
clock, contiguous revisions, one mutation per revision, commits and publications that only
add, the optimistic append, the reaped child, the log's refinement of `Journal`) have a
proof and need no run.

Only model-checked:

* liveness (`EveryCallReturns`, `RetriesConverge`, `SessionEnds`), which is out of the
  prover's reach;
* what recursive definitions compute: the operators of `ChunkCodec`, `PointSurvey`,
  `SpatialTile` and `StoredHistory`, the replay and conflict scan of `OperationSet` and
  the folds of `Materializer` (`ReplicasAlwaysMerge`, `ConflictsAreResolvable`,
  `ReceiptsUndoAndReplay`, `OrdersAgree`, `EvidenceFreezesFloor`, `EncodingRoundTrips`,
  `ScenesAreComputed` and their like). `SessionProofs` uses of them only that the empty
  set replays to nothing;
* the readers of a bundle and the components of `field_capture` other than the publication
  of captures.

## Disagreements found

* `silent_winner`: the conflict scan drops an entry whose value equals that of a
  concurrent operation. If the other one is then overwritten, two different concurrent
  values remain and no conflict is reported.
* `merged_toggles`: a device undoes, redoes and undoes while another undoes once. The
  merge reports no conflict, and the merged set cannot be replayed.
* `capture_clock`: an exact retry is refused once another commit has a later wall time,
  because the time is compared before the duplicate is recognised.
* `desktop_locks`: a map command that fails locks the state while it still holds the
  session (the guard is a temporary of the `match`), and another map command waits for
  the session with the state locked; both stop, and every cancel with them.
* `poisoned_history`: a direct request is validated without a look at its expected
  revision, which only the append compares (`port.rs:318-336`). A calibration that names
  revision 2 and is validated at revision 1, while another session appends a second
  calibration of the map, then matches the revision and is appended beside it: the history
  no longer materializes, although the comment at `port.rs:315-317` says that domain
  failures "cannot poison the immutable operation history".
* `chunk_budget`: a chunk of 399 rows is encoded and published, and the decoder's budget
  refuses it ever after; the documented maximum is 65,536 rows. One such chunk makes every
  listing, chunk read and session read of the bundle report corruption, since all of them
  decode the whole inventory.
* `extrapolation`: with barriers, candidates beyond the support radius can push supported
  ones out of the neighbour limit, and a cell that is interpolated with extrapolation off
  becomes unknown with extrapolation on.

Seen while modelling, without a run of their own:

* `survey_snapshot.rs:830` refuses an exact retry for the same reason as
  `capture_clock`.
* A resolution names one schema version for both arms (`operation-log/src/lib.rs:2567`),
  so a conflict between operations of different versions cannot be resolved by one; and
  a version 3 operation has no resolution at all.
* The undo of a map import and a calibration of that map, added and undone concurrently,
  write different fields, so no conflict is reported; whether the union materializes
  depends on which actor identity sorts first (`causal-materializer/src/lib.rs:331`),
  although the comment at lines 196-198 says that the total order "is never used to
  choose a concurrent winner".
* A wait of the active executor may return before its time (`executor.rs:347`); the model
  lets it, and the reports still decode.
* The exit code of the collector can belong to another thread's ending than the terminal
  record (`Wire.swift:94`), although `docs/adapters/macos.md` ties them; the supervisor
  refuses such a run. A signal before the first record leaves a stream without hello.
* Power is read three times (`main.swift:125` and after); a change in between makes the
  collector's own stream undecodable.
* An intent whose append succeeded and whose publication did not is not published by its
  exact retry nor by a query (`port.rs:571`), so the current view lacks it until the next
  mutation; a direct request's retry does publish. A direct request loses its receipt
  when the readback fails (`port.rs:291`).
* Two sessions: one that publishes while the other is between its publication and its
  readback makes the other report a readback mismatch (`port.rs:373`).
* A crash between create and the baseline leaves a project that refuses every map
  mutation (`command.rs:74`).
* `verify` may report a stale projection while a writer is between rename and commit.
* The codec refuses a known but empty SSID, which `crates/domain/src/identity.rs:142`
  calls valid evidence.
* `rendering-scene/src/lib.rs:46` doubles decoded sizes to cover the growth of vectors; a
  vector of one small element grows to a capacity of four.
* After a late attempt the active executor catches up, and two attempts can be closer than
  the minimum spacing; the reports still decode.
* A timed-out Kismet attempt is mapped to `DeadlineExceeded` and not retried, though time
  may be left.
* `normalize` accepts contexts with unused observation rows, or with equal identities
  among sources that are not in the stream, which `from_session` then refuses.

## Not modelled

The reasons are in `PROJECT.json` with each component. In short:

* byte-level parsers and encoders (packet and frame parsers, PNG, canonical JSON, the
  Parquet container): no interaction, and a model would repeat the code;
* floating-point algorithms (geometry, pose fusion, planning scores, spectrum power, the
  rounding inside tiles): out of TLC's reach;
* contract validation of single values (plugin manifests, most value types of
  `crates/domain`), channel arithmetic and other pure functions of one record;
* SQLite's schema probes and the additive migration of older bundles, which are one
  admission step of `BundleStore`; the materializer's byte and work budgets, which only
  turn an answer into a refusal;
* the command line (one application call per process), the desktop's web view, the Sionna
  worker, the laboratory server, the developer tools and the research prototypes, which
  lie outside the product's workspace or only call what is modelled.
