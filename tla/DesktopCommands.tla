-------------------------- MODULE DesktopCommands --------------------------
(***************************************************************************)
(* The native side of the desktop application (apps/desktop/src-tauri):    *)
(* the Tauri commands over one DesktopState behind a mutex, the session    *)
(* behind a mutex of its own, one admitted job at a time, one-shot grants  *)
(* for picked files, retained retries of failed imports and the picker     *)
(* child process.                                                          *)
(*                                                                         *)
(* A command is an async handler: it locks the state, admits its job,      *)
(* unlocks, runs a blocking worker, then locks the state again to finish.  *)
(* A section that takes the state lock, waits for nothing and releases it  *)
(* is one step that needs the lock free; a handler that waits for the      *)
(* session lock with the state locked holds stateLock over several steps.  *)
(* A caller has one call in flight; MaxCalls bounds the calls ever made.   *)
(***************************************************************************)
EXTENDS Naturals, FiniteSets

CONSTANTS
    Callers,            \* renderer calls in flight at the same time
    MaxCalls,           \* bound on the calls made
    MaxProjects,        \* bound on the bundles create makes
    MaxGrantIds,        \* bound on the grants issued
    MAX_OPEN_GRANTS,
    MAX_MAP_SOURCE_GRANTS,
    MAX_MAP_RETRY_ENTRIES

ASSUME DesktopAssumption ==
    /\ MaxCalls \in Nat /\ MaxProjects \in Nat /\ MaxGrantIds \in Nat
    /\ MAX_OPEN_GRANTS \in Nat \ {0}
    /\ MAX_MAP_SOURCE_GRANTS \in Nat \ {0}
    /\ MAX_MAP_RETRY_ENTRIES \in Nat \ {0}

VARIABLES
    stateLock,          \* caller that holds the DesktopState mutex, or Nobody
    sessionLock,        \* caller that holds the session mutex, or Nobody
    session,            \* an Option of [project, writable, poisoned]
    jobs,               \* callers whose job is admitted
    cancelled,          \* JobControl::cancelled of each caller's call
    grants,             \* project selections [id, path, old]
    mapGrants,          \* image selections [id, project, old]
    mapRetries,         \* retained imports [id, project, old]
    bundles,            \* project -> "Live" or "Trash"
    committed,          \* imports appended: pairs of project and grant id
    issued,             \* grant ids used so far
    started,            \* calls made so far
    call                \* caller -> its command, position and local values

vars == <<stateLock, sessionLock, session, jobs, cancelled, grants, mapGrants,
          mapRetries, bundles, committed, issued, started, call>>
tables == <<grants, mapGrants, mapRetries, issued>>
locks == <<stateLock, sessionLock>>

Nobody == "nobody"

ASSUME NobodyIsNoCaller == Nobody \notin Callers

Commands == {"Create", "SelectOpen", "Open", "SelectMap", "Import", "Calibrate", "Current"}
UsesSession == {"SelectMap", "Import", "Calibrate"}
Picks == {"SelectOpen", "SelectMap"}
NoSource == [id |-> 0]
NoCall ==
    [cmd |-> "None", at |-> "Idle", grant |-> 0, project |-> 0, source |-> NoSource,
     outcome |-> "None", selector |-> 1, child |-> "None", reply |-> "None"]

Init ==
    /\ stateLock = Nobody /\ sessionLock = Nobody
    /\ session = {} /\ jobs = {}
    /\ cancelled = [c \in Callers |-> FALSE]
    /\ grants = {} /\ mapGrants = {} /\ mapRetries = {}
    /\ bundles = <<>>
    /\ committed = {} /\ issued = 0 /\ started = 0
    /\ call = [c \in Callers |-> NoCall]

At(c, stage) == call[c].at = stage
Goes(c, stage) == call' = [call EXCEPT ![c].at = stage]
Replies(c, answer) ==
    call' = [call EXCEPT ![c] = [NoCall EXCEPT !.cmd = call[c].cmd, !.child = call[c].child,
                                     !.project = call[c].project, !.reply = answer]]
Current == CHOOSE s \in session : TRUE
Fresh(entries) == {e \in entries : ~ e.old}
StateFree == stateLock = Nobody
SessionFree == sessionLock = Nobody
-----------------------------------------------------------------------------
(* The renderer calls a command.  The two that take a grant name one that  *)
(* was issued, or one that never was.                                      *)
Start(c, cmd, grant) ==
    /\ At(c, "Idle")
    /\ started < MaxCalls
    /\ started' = started + 1
    /\ grant # 0 <=> cmd \in {"Open", "Import"}
    /\ call' = [call EXCEPT ![c] = [NoCall EXCEPT !.cmd = cmd, !.at = "Enter", !.grant = grant]]
    /\ cancelled' = [cancelled EXCEPT ![c] = FALSE]
    /\ UNCHANGED <<locks, session, jobs, tables, bundles, committed>>

(* Mutant of CanBegin: a second job is admitted.                           *)
BeginAny == TRUE

(* begin_job                                                               *)
CanBegin == jobs = {}

(* The entry of a grant table that a command may use.                      *)
GrantFor(entries, id, project) == {e \in entries : e.id = id /\ e.project = project}

(* project_create_blank and project_select_open up to the worker.          *)
Admit(c) ==
    /\ At(c, "Enter")
    /\ call[c].cmd \in {"Create", "SelectOpen"}
    /\ StateFree
    /\ IF CanBegin
       THEN jobs' = jobs \cup {c} /\ Goes(c, "Work")
       ELSE Replies(c, "resource_limit") /\ UNCHANGED jobs
    /\ UNCHANGED <<locks, session, cancelled, tables, bundles, committed, started>>

(* consume_open_grant: the selection a grant id stands for.                *)
OpenGrant(id) == {g \in Fresh(grants) : g.id = id}

(* begin_open_job: admission comes first, so a busy desktop leaves the     *)
(* grant; a bad grant gives the slot back.                                 *)
AdmitOpen(c) ==
    LET found == OpenGrant(call[c].grant)
    IN  /\ At(c, "Enter")
        /\ call[c].cmd = "Open"
        /\ StateFree
        /\ \/ /\ ~ CanBegin
              /\ Replies(c, "resource_limit")
              /\ UNCHANGED <<jobs, grants>>
           \/ /\ CanBegin /\ found = {}
              /\ Replies(c, "invalid_grant")
              /\ grants' = Fresh(grants)
              /\ UNCHANGED jobs
           \/ /\ CanBegin
              /\ \E g \in found :
                    /\ grants' = Fresh(grants) \ {g}
                    /\ call' = [call EXCEPT ![c].at = "Work", ![c].project = g.path]
              /\ jobs' = jobs \cup {c}
        /\ UNCHANGED <<locks, session, cancelled, mapGrants, mapRetries, issued,
                       bundles, committed, started>>

(* current_project_job_with up to the worker.                              *)
AdmitQuery(c) ==
    /\ At(c, "Enter")
    /\ call[c].cmd = "Current"
    /\ StateFree
    /\ \/ session = {} /\ Replies(c, IF jobs = {} THEN "no_project" ELSE "resource_limit")
                       /\ UNCHANGED jobs
       \/ session # {} /\ ~ CanBegin /\ Replies(c, "resource_limit") /\ UNCHANGED jobs
       \/ session # {} /\ CanBegin /\ jobs' = jobs \cup {c} /\ Goes(c, "Work")
    /\ UNCHANGED <<locks, session, cancelled, tables, bundles, committed, started>>

(* The three map commands look at the session with the state locked: the   *)
(* state lock is held while they wait for the session lock.                *)
LockState(c) ==
    /\ At(c, "Enter")
    /\ call[c].cmd \in UsesSession
    /\ StateFree
    /\ IF session = {}
       THEN Replies(c, "prerequisite") /\ UNCHANGED stateLock
       ELSE Goes(c, "Mode") /\ stateLock' = c
    /\ UNCHANGED <<sessionLock, session, jobs, cancelled, tables, bundles, committed, started>>

AdmitMap(c) ==
    /\ At(c, "Mode")
    /\ SessionFree
    /\ stateLock' = Nobody
    /\ IF Current.writable /\ CanBegin
       THEN jobs' = jobs \cup {c} /\ Goes(c, "Target")
       ELSE /\ Replies(c, IF Current.writable THEN "resource_limit" ELSE "read_only")
            /\ UNCHANGED jobs
    /\ UNCHANGED <<sessionLock, session, cancelled, tables, bundles, committed, started>>

(* map_target_for_session: the session is queried under its lock.  The     *)
(* query may fail and the project may have no floor.  In                   *)
(* project_select_map the guard is dropped with its block; in              *)
(* project_import_map it is a temporary of the match and lives until the   *)
(* arms are done.                                                          *)
Target(c) ==
    /\ At(c, "Target") /\ call[c].cmd \in {"SelectMap", "Import"}
    /\ SessionFree
    /\ \/ /\ call' = [call EXCEPT ![c].project = Current.project,
                ![c].at = IF call[c].cmd = "Import" THEN "Take" ELSE "Work"]
          /\ UNCHANGED sessionLock
       \/ /\ Goes(c, "Refused")
          /\ sessionLock' = IF call[c].cmd = "SelectMap" THEN Nobody ELSE c
    /\ UNCHANGED <<stateLock, session, jobs, cancelled, tables, bundles, committed, started>>

(* calibration_intent: the identities, the map and the two control points  *)
(* of the request are checked against the queried project.  Its guard too  *)
(* lives through the match.                                                *)
Intent(c) ==
    /\ At(c, "Target") /\ call[c].cmd = "Calibrate"
    /\ SessionFree
    /\ \/ /\ call' = [call EXCEPT ![c].project = Current.project, ![c].at = "Work"]
          /\ UNCHANGED sessionLock
       \/ Goes(c, "Refused") /\ sessionLock' = c
    /\ UNCHANGED <<stateLock, session, jobs, cancelled, tables, bundles, committed, started>>

(* The early return: the state is locked again to give the slot back.      *)
Refuse(c) ==
    /\ At(c, "Refused")
    /\ StateFree
    /\ jobs' = jobs \ {c}
    /\ sessionLock' = IF sessionLock = c THEN Nobody ELSE sessionLock
    /\ Replies(c, "refused")
    /\ UNCHANGED <<stateLock, session, cancelled, tables, bundles, committed, started>>

(* Mutant of RoomForRetry: a grant is taken whatever is retained.          *)
RoomAlways == TRUE

(* A new import starts only when its failure could be retained.            *)
RoomForRetry == Cardinality(Fresh(mapRetries)) < MAX_MAP_RETRY_ENTRIES

(* take_map_import_source: a retained retry is preferred to a grant.       *)
Take(c) ==
    LET id == call[c].grant
        retained == {r \in Fresh(mapRetries) : r.id = id}
        retry == GrantFor(Fresh(mapRetries), id, call[c].project)
        grant == GrantFor(Fresh(mapGrants), id, call[c].project)
        taken == IF retained # {} THEN retry ELSE IF RoomForRetry THEN grant ELSE {}
    IN  /\ At(c, "Take")
        /\ StateFree
        /\ mapRetries' = Fresh(mapRetries) \ taken
        /\ mapGrants' = Fresh(mapGrants) \ taken
        /\ \/ taken = {} /\ Goes(c, "Refused")
           \/ \E e \in taken : call' = [call EXCEPT ![c].at = "Work", ![c].source = e]
        /\ UNCHANGED <<locks, session, jobs, cancelled, grants, issued, bundles, committed, started>>
-----------------------------------------------------------------------------
(* Workers, on their own threads.  A worker leaves its outcome for the     *)
(* handler that awaits it.                                                 *)
Ends(c, outcome) == call' = [call EXCEPT ![c].at = "Finish", ![c].outcome = outcome]

WorkerOnly == UNCHANGED <<stateLock, jobs, cancelled, tables, started>>

(* native_project_selection, native_map_source_selection: on Linux the     *)
(* selector that is not available is replaced by another one.              *)
Unavailable(c) ==
    IF call[c].selector = 1
    THEN call' = [call EXCEPT ![c].at = "Work", ![c].selector = 2]
    ELSE Ends(c, "capability_unavailable")

(* run_owned_picker: nothing is spawned for a cancelled job.              *)
Spawn(c) ==
    /\ At(c, "Work") /\ call[c].cmd \in Picks
    /\ IF cancelled[c] THEN Ends(c, "cancelled")
       ELSE \/ call' = [call EXCEPT ![c].at = "Picking", ![c].child = "Running"]
            \/ Unavailable(c)
    /\ WorkerOnly /\ UNCHANGED <<sessionLock, session, bundles, committed>>

(* External: the selector process ends by itself.                          *)
ChildExits(c) ==
    /\ At(c, "Picking") /\ call[c].child = "Running"
    /\ call' = [call EXCEPT ![c].child = "Exited"]
    /\ WorkerOnly /\ UNCHANGED <<sessionLock, session, bundles, committed>>

(* terminate_and_reap_picker: kill and wait; when either fails the call    *)
(* says so.                                                                *)
Terminate(c, outcome) ==
    \/ call' = [call EXCEPT ![c].child = "Reaped", ![c].at = "Finish", ![c].outcome = outcome]
    \/ Ends(c, "storage")

(* The poll loop: cancellation, then the timeout, then try_wait.  An       *)
(* unmonitorable first selector is replaced like a missing one.            *)
PollCancelled(c) ==
    /\ At(c, "Picking") /\ cancelled[c]
    /\ Terminate(c, "cancelled")
    /\ WorkerOnly /\ UNCHANGED <<sessionLock, session, bundles, committed>>

PollTimeout(c) ==
    /\ At(c, "Picking") /\ ~ cancelled[c]
    /\ Terminate(c, "timeout")
    /\ WorkerOnly /\ UNCHANGED <<sessionLock, session, bundles, committed>>

PollExit(c) ==
    /\ At(c, "Picking") /\ ~ cancelled[c]
    /\ \/ /\ call[c].child = "Exited"
          /\ \E outcome \in {"selected", "none", "invalid_response"} :
                call' = [call EXCEPT ![c].child = "Reaped", ![c].at = "Finish",
                                     ![c].outcome = outcome]
       \/ call[c].selector = 2 /\ Terminate(c, "capability_unavailable")
       \/ /\ call[c].selector = 1
          /\ \/ call' = [call EXCEPT ![c].child = "Reaped", ![c].at = "Work", ![c].selector = 2]
             \/ Ends(c, "storage")
    /\ WorkerOnly /\ UNCHANGED <<sessionLock, session, bundles, committed>>

(* The bundle a create made is moved aside, or the move fails.             *)
Retained(c, outcome) ==
    \/ /\ bundles' = [p \in DOMAIN bundles |->
                        IF p = call[c].project THEN "Trash" ELSE bundles[p]]
       /\ Ends(c, outcome)
    \/ call[c].project # 0 /\ UNCHANGED bundles /\ Ends(c, "storage")

(* create_with_initial_floor: the bundle is created, then its baseline     *)
(* registered; a failure leaves the bundle or not.                         *)
CreateBundle(c) ==
    /\ At(c, "Work") /\ call[c].cmd = "Create"
    /\ \/ cancelled[c] /\ Ends(c, "cancelled") /\ UNCHANGED bundles
       \/ /\ ~ cancelled[c]
          /\ Cardinality(DOMAIN bundles) < MaxProjects
          /\ LET p == Cardinality(DOMAIN bundles) + 1
             IN  /\ bundles' = [q \in 1 .. p |-> IF q = p THEN "Live" ELSE bundles[q]]
                 /\ \E at \in {"Respond", "CreateFailed"} :
                        call' = [call EXCEPT ![c].project = p, ![c].at = at]
       \/ ~ cancelled[c] /\ Goes(c, "CreateFailed") /\ UNCHANGED bundles
    /\ WorkerOnly /\ UNCHANGED <<sessionLock, session, committed>>

CreateFailed(c) ==
    /\ At(c, "CreateFailed")
    /\ IF cancelled[c] THEN Retained(c, "cancelled")
       ELSE Ends(c, "storage") /\ UNCHANGED bundles
    /\ WorkerOnly /\ UNCHANGED <<sessionLock, session, committed>>

(* The new session answers its first query before it is handed over.       *)
RespondCreate(c) ==
    /\ At(c, "Respond") /\ call[c].cmd = "Create"
    /\ IF cancelled[c] THEN Retained(c, "cancelled")
       ELSE \E outcome \in {"ok", "storage"} : Ends(c, outcome) /\ UNCHANGED bundles
    /\ WorkerOnly /\ UNCHANGED <<sessionLock, session, committed>>

(* run_atomic_project_step around open: polled before and after it.        *)
OpenBundle(c) ==
    /\ At(c, "Work") /\ call[c].cmd = "Open"
    /\ IF cancelled[c] THEN Ends(c, "cancelled")
       ELSE \/ call[c].project \in DOMAIN bundles /\ bundles[call[c].project] = "Live"
                  /\ Goes(c, "Respond")
            \/ Ends(c, "storage")
    /\ WorkerOnly /\ UNCHANGED <<sessionLock, session, bundles, committed>>

RespondOpen(c) ==
    /\ At(c, "Respond") /\ call[c].cmd = "Open"
    /\ IF cancelled[c] THEN Ends(c, "cancelled") ELSE \E o \in {"ok", "storage"} : Ends(c, o)
    /\ WorkerOnly /\ UNCHANGED <<sessionLock, session, bundles, committed>>

(* read_map_source: only for a grant; a retry has its bytes.  A cancelled  *)
(* or changed file is not retained.                                        *)
ReadSource(c) ==
    /\ At(c, "Work") /\ call[c].cmd = "Import"
    /\ IF "bytes" \in DOMAIN call[c].source THEN Goes(c, "LockSession")
       ELSE IF cancelled[c] THEN Ends(c, "cancelled")
       ELSE Goes(c, "LockSession") \/ Ends(c, "invalid_request")
    /\ WorkerOnly /\ UNCHANGED <<sessionLock, session, bundles, committed>>

(* Queries recover a poisoned session lock; mutations refuse it.           *)
LockSession(c) ==
    /\ \/ At(c, "LockSession")
       \/ At(c, "Work") /\ call[c].cmd \in {"Calibrate", "Current"}
    /\ SessionFree
    /\ IF Current.poisoned /\ call[c].cmd # "Current"
       THEN Ends(c, "retryable") /\ UNCHANGED sessionLock
       ELSE sessionLock' = c /\ Goes(c, "Apply")
    /\ WorkerOnly /\ UNCHANGED <<session, bundles, committed>>

(* import_map_intent_with_budget, calibrate_map_intent_with_budget or the  *)
(* query, with the session locked.  A mutation that is durable reports     *)
(* success; a cancelled one fails before its append.                       *)
Apply(c) ==
    /\ At(c, "Apply")
    /\ sessionLock' = Nobody
    /\ \E outcome \in {"ok", "retryable", "refused"} \cup (IF cancelled[c] THEN {"cancelled"} ELSE {}) :
        /\ Ends(c, outcome)
        /\ committed' = IF outcome = "ok" /\ call[c].cmd = "Import"
                        THEN committed \cup {<<Current.project, call[c].source.id>>} ELSE committed
    /\ WorkerOnly /\ UNCHANGED <<session, bundles>>

(* A worker unwinds.  With the session locked it poisons the lock; a       *)
(* mutation may already be durable.                                        *)
Unwind(c) ==
    /\ c \in jobs
    /\ call[c].at \in {"Work", "Respond", "CreateFailed", "LockSession", "Apply"}
    /\ Ends(c, "unwound")
    /\ IF sessionLock = c
       THEN sessionLock' = Nobody /\ session' = {[Current EXCEPT !.poisoned = TRUE]}
       ELSE UNCHANGED <<sessionLock, session>>
    /\ \/ UNCHANGED committed
       \/ /\ At(c, "Apply") /\ call[c].cmd = "Import"
          /\ committed' = committed \cup {<<Current.project, call[c].source.id>>}
    /\ WorkerOnly /\ UNCHANGED bundles
-----------------------------------------------------------------------------
(* The handler has its worker back: it locks the state, gives the slot     *)
(* back and only then publishes what the worker produced.                  *)
Finishing(c, cmds) ==
    /\ At(c, "Finish") /\ call[c].cmd \in cmds
    /\ StateFree
    /\ jobs' = jobs \ {c}
    /\ UNCHANGED <<stateLock, cancelled, started>>

(* Mutant of Publishes: the cancellation is not looked at under the lock.  *)
PublishesAny(c) == TRUE

(* The last look at the cancellation, with the state locked.               *)
Publishes(c) == ~ cancelled[c]

(* Mutant of RetainsBundle: only a cancelled create is moved aside.        *)
RetainsCancelled(c) == call[c].outcome = "ok" /\ ~ Publishes(c)

(* finish_created_project_job: an unwound worker's bundle is moved aside,  *)
(* and so is one whose cancellation came last.                             *)
RetainsBundle(c) == call[c].outcome = "unwound" \/ (call[c].outcome = "ok" /\ ~ Publishes(c))

FinishCreate(c) ==
    LET outcome == call[c].outcome
    IN  /\ Finishing(c, {"Create"})
        /\ \/ /\ RetainsBundle(c)
              /\ \/ /\ bundles' = [p \in DOMAIN bundles |->
                                    IF p = call[c].project THEN "Trash" ELSE bundles[p]]
                    /\ Replies(c, IF outcome = "ok" THEN "cancelled" ELSE "stopped")
                 \/ call[c].project # 0 /\ UNCHANGED bundles /\ Replies(c, "storage")
              /\ UNCHANGED <<session, sessionLock>>
           \/ /\ outcome = "ok" /\ Publishes(c)
              /\ session' = {[project |-> call[c].project, writable |-> TRUE, poisoned |-> FALSE]}
              /\ sessionLock' = Nobody
              /\ Replies(c, "ok") /\ UNCHANGED bundles
           \/ /\ outcome # "ok" /\ ~ RetainsBundle(c)
              /\ Replies(c, IF outcome = "unwound" THEN "stopped" ELSE outcome)
              /\ UNCHANGED <<bundles, session, sessionLock>>
        /\ UNCHANGED <<tables, committed>>

(* The rest of project_open_grant.                                         *)
FinishOpen(c) ==
    LET published == call[c].outcome = "ok" /\ Publishes(c)
    IN  /\ Finishing(c, {"Open"})
        /\ \/ /\ published
              /\ \E writable \in BOOLEAN : session' =
                    {[project |-> call[c].project, writable |-> writable, poisoned |-> FALSE]}
              /\ sessionLock' = Nobody
              /\ Replies(c, "ok")
           \/ /\ ~ published
              /\ Replies(c, IF call[c].outcome = "ok" THEN "cancelled" ELSE call[c].outcome)
              /\ UNCHANGED <<session, sessionLock>>
        /\ UNCHANGED <<tables, bundles, committed>>

(* issue_open_grant: the table is bounded by forgetting the oldest.        *)
OpenGrantAdded(entry) ==
    LET kept == Fresh(grants)
        oldest == CHOOSE g \in kept : \A h \in kept : g.id <= h.id
    IN  (IF Cardinality(kept) >= MAX_OPEN_GRANTS THEN kept \ {oldest} ELSE kept) \cup {entry}

FinishSelectOpen(c) ==
    /\ Finishing(c, {"SelectOpen"})
    /\ \/ /\ call[c].outcome = "selected" /\ Publishes(c)
          /\ issued < MaxGrantIds
          /\ \E p \in DOMAIN bundles :
                /\ bundles[p] = "Live"
                /\ grants' = OpenGrantAdded([id |-> issued + 1, path |-> p, old |-> FALSE])
                /\ issued' = issued + 1
          /\ Replies(c, "ok")
       \/ /\ call[c].outcome = "selected" /\ Publishes(c)
          /\ grants' = Fresh(grants)
          /\ Replies(c, "invalid_request") /\ UNCHANGED issued
       \/ /\ call[c].outcome # "selected" \/ ~ Publishes(c)
          /\ Replies(c, IF call[c].outcome \in {"selected", "none"} /\ cancelled[c]
                        THEN "cancelled" ELSE call[c].outcome)
          /\ UNCHANGED <<grants, issued>>
    /\ UNCHANGED <<sessionLock, session, mapGrants, mapRetries, bundles, committed>>

(* issue_map_source_grant: this table refuses when it is full.             *)
FinishSelectMap(c) ==
    LET kept == Fresh(mapGrants)
        selected == call[c].outcome = "selected" /\ Publishes(c)
    IN  /\ Finishing(c, {"SelectMap"})
        /\ \/ /\ selected
              /\ Cardinality(kept) < MAX_MAP_SOURCE_GRANTS
              /\ issued < MaxGrantIds
              /\ mapGrants' = kept \cup {[id |-> issued + 1, project |-> call[c].project, old |-> FALSE]}
              /\ issued' = issued + 1
              /\ mapRetries' = Fresh(mapRetries)
              /\ Replies(c, "ok")
           \/ /\ selected
              /\ mapGrants' = kept /\ mapRetries' = Fresh(mapRetries)
              /\ Replies(c, "resource_limit") /\ UNCHANGED issued
           \/ /\ ~ selected
              /\ Replies(c, IF call[c].outcome \in {"selected", "none"} /\ cancelled[c]
                            THEN "cancelled" ELSE call[c].outcome)
              /\ UNCHANGED <<mapGrants, mapRetries, issued>>
        /\ UNCHANGED <<sessionLock, session, grants, bundles, committed>>

(* retain_map_import_retry keeps the intent and the bytes of an import     *)
(* that may be repeated, under the grant's identity and age.               *)
FinishImport(c) ==
    LET kept == Fresh(mapRetries)
        retry == [id |-> call[c].grant, project |-> call[c].project, old |-> FALSE, bytes |-> TRUE]
        full == Cardinality(kept) >= MAX_MAP_RETRY_ENTRIES
    IN  /\ Finishing(c, {"Import"})
        /\ \/ /\ call[c].outcome = "retryable"
              /\ mapRetries' = IF full THEN kept ELSE kept \cup {retry}
              /\ Replies(c, IF full THEN "retry_lost" ELSE "retryable")
           \/ /\ call[c].outcome # "retryable"
              /\ Replies(c, call[c].outcome) /\ UNCHANGED mapRetries
        /\ UNCHANGED <<sessionLock, session, grants, mapGrants, issued, bundles, committed>>

FinishOther(c) ==
    /\ Finishing(c, {"Calibrate", "Current"})
    /\ Replies(c, call[c].outcome)
    /\ UNCHANGED <<sessionLock, session, tables, bundles, committed>>

(* project_cancel: only an admitted job has a control to set.              *)
Cancel(c) ==
    /\ StateFree
    /\ c \in jobs
    /\ cancelled' = [cancelled EXCEPT ![c] = TRUE]
    /\ UNCHANGED <<locks, session, jobs, tables, bundles, committed, started, call>>

(* Time passes a grant or a retry by; it is dropped when a command prunes. *)
Expire ==
    /\ \/ \E g \in Fresh(mapGrants) : mapGrants' = (mapGrants \ {g}) \cup {[g EXCEPT !.old = TRUE]}
                                      /\ UNCHANGED <<grants, mapRetries>>
       \/ \E g \in Fresh(grants) : grants' = (grants \ {g}) \cup {[g EXCEPT !.old = TRUE]}
                                      /\ UNCHANGED <<mapGrants, mapRetries>>
       \/ \E r \in Fresh(mapRetries) : mapRetries' = (mapRetries \ {r}) \cup {[r EXCEPT !.old = TRUE]}
                                      /\ UNCHANGED <<mapGrants, grants>>
    /\ UNCHANGED <<locks, session, jobs, cancelled, issued, bundles, committed, started, call>>

Handler(c) ==
    \/ Admit(c) \/ AdmitOpen(c) \/ AdmitQuery(c) \/ LockState(c) \/ AdmitMap(c)
    \/ Target(c) \/ Intent(c) \/ Refuse(c) \/ Take(c)
    \/ FinishCreate(c) \/ FinishOpen(c) \/ FinishSelectOpen(c) \/ FinishSelectMap(c)
    \/ FinishImport(c) \/ FinishOther(c)

Worker(c) ==
    \/ Spawn(c) \/ PollCancelled(c) \/ PollTimeout(c) \/ PollExit(c)
    \/ CreateBundle(c) \/ CreateFailed(c) \/ RespondCreate(c)
    \/ OpenBundle(c) \/ RespondOpen(c) \/ ReadSource(c) \/ LockSession(c) \/ Apply(c)

Next ==
    \/ \E c \in Callers, cmd \in Commands, g \in 0 .. MaxGrantIds : Start(c, cmd, g)
    \/ \E c \in Callers : Handler(c) \/ Worker(c) \/ ChildExits(c) \/ Unwind(c) \/ Cancel(c)
    \/ Expire

Spec == Init /\ [][Next]_vars

(* The runtime polls every handler that can go on, and a worker thread     *)
(* that can run runs; a mutex is handed over as soon as it is free.        *)
FairSpec == Spec /\ \A c \in Callers : SF_vars(Handler(c)) /\ WF_vars(Worker(c))
-----------------------------------------------------------------------------
Replied(c, cmds) == At(c, "Idle") /\ call[c].cmd \in cmds

(* A cancellation that project_cancel acknowledged wins: a create, an open *)
(* or a selection that was cancelled while its job was admitted never      *)
(* reports success, so it has published neither a session nor a grant,     *)
(* whatever its worker had finished by then.                               *)
CancelledPublishesNothing ==
    \A c \in Callers :
        Replied(c, {"Create", "Open"} \cup Picks) /\ cancelled[c] => call[c].reply # "ok"

(* A create that ends cancelled or unwound leaves no bundle where projects *)
(* live: it was moved aside, or the call said that it could not be.        *)
AbandonedBundlesRetained ==
    \A c \in Callers :
        Replied(c, {"Create"}) /\ call[c].reply \in {"cancelled", "stopped"}
        /\ call[c].project # 0 => bundles[call[c].project] = "Trash"

(* The bytes of an import that may be repeated are never lost: the bounded *)
(* retry table has room when the failed import comes back to it, though it *)
(* was looked at when the import began.                                    *)
RetryAlwaysRetained ==
    \A c \in Callers : Replied(c, {"Import"}) => call[c].reply # "retry_lost"

(* An image is imported into the project that was current when it was      *)
(* picked, and a worker always works on the current session: no create or  *)
(* open swaps the session under it.                                        *)
ImportsStayInTheirProject ==
    \A c \in Callers :
        /\ call[c].source.id # 0 => call[c].source.project = call[c].project
        /\ c \in jobs /\ call[c].cmd \in UsesSession /\ call[c].project # 0
           => Current.project = call[c].project

(* "can invoke Cancel while the original command is pending": while a job  *)
(* is admitted the state lock that project_cancel and project_job_status   *)
(* need is always eventually free.                                         *)
CancelStaysAvailable ==
    \A c \in Callers : c \in jobs ~> (c \notin jobs \/ StateFree)
=============================================================================
