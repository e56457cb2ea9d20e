--------------------------- MODULE DesktopProofs ---------------------------
(***************************************************************************)
(* Proofs about DesktopCommands: its inductive invariant, the steps that   *)
(* keep it, and the theorems that follow.                                  *)
(*                                                                         *)
(* A call has a job exactly between its admission and its last step, at    *)
(* most one call has a job, and what a call carries from one step to the   *)
(* next (its project, its source, its outcome) still agrees with the       *)
(* tables, the bundles and the session that other calls may have changed   *)
(* in between.                                                             *)
(***************************************************************************)
EXTENDS DesktopCommands, FiniteSetTheorems, TLAPS

-----------------------------------------------------------------------------
(* Types                                                                   *)

OpenGrants == [id : Nat, path : Nat, old : BOOLEAN]
MapGrant == [id : Nat \ {0}, project : Nat, old : BOOLEAN]
MapRetry == [id : Nat \ {0}, project : Nat, old : BOOLEAN, bytes : {TRUE}]
Stages ==
    {"Idle", "Enter", "Mode", "Target", "Refused", "Take", "Work", "Picking", "Respond",
     "CreateFailed", "LockSession", "Apply", "Finish"}

Outcomes ==
    {"None", "ok", "none", "selected", "cancelled", "refused", "retryable", "storage", "timeout",
     "unwound", "invalid_request", "invalid_response", "capability_unavailable"}
Answers ==
    Outcomes \cup {"resource_limit", "invalid_grant", "no_project", "prerequisite", "read_only",
                   "stopped", "retry_lost"}
Children == {"None", "Running", "Exited", "Reaped"}

CallRecord ==
    [cmd : Commands \cup {"None"}, at : Stages, grant : Nat, project : Nat,
     source : {NoSource} \cup MapGrant \cup MapRetry, outcome : Outcomes, selector : Nat,
     child : Children, reply : Answers]

DesktopTypeOK ==
    /\ stateLock \in Callers \cup {Nobody} /\ sessionLock \in Callers \cup {Nobody}
    /\ session \in SUBSET [project : Nat, writable : BOOLEAN, poisoned : BOOLEAN]
    /\ jobs \in SUBSET Callers
    /\ cancelled \in [Callers -> BOOLEAN]
    /\ grants \in SUBSET OpenGrants
    /\ mapGrants \in SUBSET MapGrant
    /\ mapRetries \in SUBSET MapRetry
    /\ issued \in Nat
    /\ \E n \in Nat : bundles \in [1 .. n -> {"Live", "Trash"}]
    /\ call \in [Callers -> CallRecord]

-----------------------------------------------------------------------------
(* The inductive invariant                                                 *)

Admitted == Stages \ {"Idle", "Enter", "Mode"}
AtWork == {"Work", "LockSession", "Apply", "Finish"}

\* The calls that have a job are those that were admitted and have not
\* finished.
HasJob(c) == c \in jobs <=> call[c].at \in Admitted

\* Whoever works on the session, waits for it or has it locked found one.
SessionUse(c) ==
    /\ call[c].at \in Admitted \cup {"Mode"} /\ call[c].cmd \in UsesSession \cup {"Current"}
       => session # {}
    /\ sessionLock = c => call[c].at \in {"Refused", "Apply"}

\* Which command can be at which step.
StageInv(k) ==
    /\ k.at \in {"Mode", "Target", "Refused"} => k.cmd \in UsesSession
    /\ k.at \in {"Take", "LockSession"} => k.cmd = "Import"
    /\ k.at = "Picking" => k.cmd \in Picks
    /\ k.at = "Respond" => k.cmd \in {"Create", "Open"}
    /\ k.at = "CreateFailed" => k.cmd = "Create"
    /\ k.at = "Apply" => k.cmd \in {"Import", "Calibrate", "Current"}
    /\ k.cmd \in Picks => k.outcome # "ok"
    /\ k.at # "Idle" /\ k.cmd = "Import" => k.grant # 0

\* A call has no project before it is told one, and a source only while its
\* import is at work.
CarriedInv(k) ==
    /\ k.at \in {"Enter", "Mode", "Target"} => k.project = 0
    /\ k.at = "Work" /\ k.cmd = "Create" => k.project = 0
    /\ k.source # NoSource => k.cmd = "Import" /\ k.at \in AtWork

\* The bundle of a create exists, and is moved aside once the create is
\* known to be cancelled or has said that it stopped.
BundleInv(k) ==
    k.cmd = "Create" /\ k.project # 0 =>
        /\ k.project \in DOMAIN bundles
        /\ k.at = "Finish" /\ k.outcome = "cancelled" => bundles[k.project] = "Trash"
        /\ k.at = "Idle" /\ k.reply \in {"cancelled", "stopped"} => bundles[k.project] = "Trash"

\* The retry table has room for the import that is at work.
RetryRoom(k) ==
    k.cmd = "Import" /\ k.at \in AtWork
        => Cardinality(Fresh(mapRetries)) < MAX_MAP_RETRY_ENTRIES

\* The other three properties, of one call.
ReplyInv(c) ==
    /\ Replied(c, {"Create", "Open"} \cup Picks) /\ cancelled[c] => call[c].reply # "ok"
    /\ Replied(c, {"Import"}) => call[c].reply # "retry_lost"
ProjectInv(c) ==
    /\ call[c].source.id # 0 => call[c].source.project = call[c].project
    /\ c \in jobs /\ call[c].cmd \in UsesSession /\ call[c].project # 0
       => Current.project = call[c].project

CallInv(c) ==
    /\ HasJob(c) /\ SessionUse(c)
    /\ StageInv(call[c]) /\ CarriedInv(call[c]) /\ BundleInv(call[c]) /\ RetryRoom(call[c])
    /\ ReplyInv(c) /\ ProjectInv(c)

\* One job at a time, at most one session, and a retry table within its limit.
SharedInv ==
    /\ \A c, d \in jobs : c = d
    /\ \A s, t \in session : s = t
    /\ IsFiniteSet(mapRetries)
    /\ Cardinality(Fresh(mapRetries)) <= MAX_MAP_RETRY_ENTRIES

IInv == DesktopTypeOK /\ SharedInv /\ \A c \in Callers : CallInv(c)

\* The conjuncts of the invariant, to be cited where they are used.
LEMMA InvGives == IInv => DesktopTypeOK /\ SharedInv /\ \A c \in Callers : CallInv(c)
BY DEF IInv

\* What a step has to keep.
LEMMA InvFrom == DesktopTypeOK' /\ SharedInv' /\ (\A c \in Callers : CallInv(c)') => IInv'
BY DEF IInv

-----------------------------------------------------------------------------
(* Steps that change one call                                              *)

\* A call that a step leaves alone keeps its invariant when the session, the
\* bundles and the retry table still are what it relies on.
LEMMA OtherCall ==
    ASSUME DesktopTypeOK, NEW d \in Callers, CallInv(d),
           call'[d] = call[d], cancelled'[d] = cancelled[d],
           d \in jobs' <=> d \in jobs,
           sessionLock' = d => sessionLock = d,
           session # {} => session' # {},
           d \in jobs => Current'.project = Current.project,
           \A p \in DOMAIN bundles :
                p \in DOMAIN bundles' /\ (bundles[p] = "Trash" => bundles'[p] = "Trash"),
           d \in jobs => Cardinality(Fresh(mapRetries')) <= Cardinality(Fresh(mapRetries)),
           Cardinality(Fresh(mapRetries')) \in Nat, Cardinality(Fresh(mapRetries)) \in Nat
    PROVE  CallInv(d)'
<1>1. HasJob(d)' /\ SessionUse(d)'
  BY DEF CallInv, HasJob, SessionUse
<1>2. StageInv(call[d])' /\ CarriedInv(call[d])'
  BY ZenonT(30) DEF CallInv, StageInv, CarriedInv
<1>3. BundleInv(call[d])'
  BY Zenon DEF CallInv, BundleInv
<1>4. RetryRoom(call[d])'
  <2>1. call[d].at \in AtWork => d \in jobs
    BY DEF CallInv, HasJob, AtWork, Admitted, Stages
  <2> QED BY <2>1, DesktopAssumption DEF CallInv, RetryRoom
<1>5. ReplyInv(d)' /\ ProjectInv(d)'
  BY Zenon DEF CallInv, ReplyInv, ProjectInv, Replied, At
<1> QED BY <1>1, <1>2, <1>3, <1>4, <1>5 DEF CallInv

LEMMA FreshFinite ==
    ASSUME NEW s, IsFiniteSet(s)
    PROVE  /\ IsFiniteSet(Fresh(s)) /\ Cardinality(Fresh(s)) \in Nat
           /\ \A t \in SUBSET Fresh(s) :
                 IsFiniteSet(t) /\ Cardinality(t) \in Nat /\ Cardinality(t) <= Cardinality(Fresh(s))
BY FS_Subset, FS_CardinalityType DEF Fresh

\* The grant tables change, the retries of a table in use do not.
TablesKept ==
    /\ grants' \in SUBSET OpenGrants /\ mapGrants' \in SUBSET MapGrant /\ issued' \in Nat
    /\ mapRetries' \in SUBSET mapRetries /\ Fresh(mapRetries') = Fresh(mapRetries)

LEMMA TablesUnchanged == ASSUME IInv, UNCHANGED tables PROVE TablesKept
BY InvGives DEF DesktopTypeOK, tables, TablesKept

\* Most steps change one call and perhaps a lock or the job slot.
LEMMA LocalStep ==
    ASSUME IInv, NEW c \in Callers,
           UNCHANGED <<session, cancelled, bundles>>, TablesKept,
           call' \in [Callers -> CallRecord],
           \A d \in Callers : d # c => call'[d] = call[d],
           stateLock' \in Callers \cup {Nobody},
           sessionLock' \in {sessionLock, c, Nobody},
           jobs' = jobs \/ jobs' = jobs \ {c} \/ (jobs = {} /\ jobs' = {c}),
           CallInv(c)'
    PROVE  IInv'
<1>1. DesktopTypeOK'
  BY InvGives DEF DesktopTypeOK, TablesKept
<1>2. SharedInv'
  <2>1. IsFiniteSet(mapRetries')
    BY FS_Subset, InvGives DEF SharedInv, TablesKept
  <2> QED BY <2>1, InvGives DEF SharedInv, TablesKept
<1>3. ASSUME NEW d \in Callers, d # c PROVE CallInv(d)'
  <2>1. Current' = Current
    BY DEF Current
  <2>2. Cardinality(Fresh(mapRetries)) \in Nat /\ Fresh(mapRetries') = Fresh(mapRetries)
    BY FreshFinite, InvGives DEF SharedInv, TablesKept
  <2> QED BY <1>3, <2>1, <2>2, OtherCall, NobodyIsNoCaller, InvGives
<1> QED BY <1>1, <1>2, <1>3, InvFrom

\* What the four ways of changing a call leave of it.
Others(c) == \A d \in Callers : d # c => call'[d] = call[d]
Carries(c) ==
    /\ call' \in [Callers -> CallRecord] /\ Others(c)
    /\ call'[c].cmd = call[c].cmd /\ call'[c].grant = call[c].grant
    /\ call'[c].source = call[c].source /\ call'[c].reply = call[c].reply

LEMMA NoCallType ==
    /\ NoCall \in CallRecord /\ NoCall.at = "Idle" /\ NoCall.outcome = "None"
    /\ NoCall.source = NoSource /\ NoCall.project = 0 /\ NoCall.cmd = "None"
BY DEF NoCall, CallRecord, Stages, Outcomes, Children, Answers

LEMMA GoesKeeps ==
    ASSUME DesktopTypeOK, NEW c \in Callers, NEW stage \in Stages, Goes(c, stage)
    PROVE  /\ Carries(c) /\ call'[c].project = call[c].project
           /\ call'[c].at = stage /\ call'[c].outcome = call[c].outcome
<1> DEFINE k == [call[c] EXCEPT !.at = stage]
<1>1. call[c] \in CallRecord /\ call' = [call EXCEPT ![c] = k]
  BY Zenon DEF DesktopTypeOK, Goes
<1>2. /\ k \in CallRecord /\ k.at = stage /\ k.project = call[c].project
      /\ k.cmd = call[c].cmd /\ k.grant = call[c].grant /\ k.source = call[c].source
      /\ k.reply = call[c].reply /\ k.outcome = call[c].outcome
  BY <1>1, Zenon DEF CallRecord
<1> HIDE DEF k
<1> QED BY <1>1, <1>2, Zenon DEF DesktopTypeOK, Carries, Others

\* A call that is told its project and goes on.
GoesWith(c, stage, p) ==
    \/ call' = [call EXCEPT ![c].project = p, ![c].at = stage]
    \/ call' = [call EXCEPT ![c].at = stage, ![c].project = p]

LEMMA ProjectKeeps ==
    ASSUME DesktopTypeOK, NEW c \in Callers, NEW stage \in Stages, NEW p \in Nat,
           GoesWith(c, stage, p)
    PROVE  /\ Carries(c) /\ call'[c].project = p
           /\ call'[c].at = stage /\ call'[c].outcome = call[c].outcome
<1> DEFINE k == [call[c] EXCEPT !.at = stage, !.project = p]
<1>1. call[c] \in CallRecord /\ call' = [call EXCEPT ![c] = k]
  BY Zenon DEF DesktopTypeOK, GoesWith
<1>2. /\ k \in CallRecord /\ k.at = stage /\ k.project = p
      /\ k.cmd = call[c].cmd /\ k.grant = call[c].grant /\ k.source = call[c].source
      /\ k.reply = call[c].reply /\ k.outcome = call[c].outcome
  BY <1>1, Zenon DEF CallRecord
<1> HIDE DEF k
<1> QED BY <1>1, <1>2 DEF DesktopTypeOK, Carries, Others

LEMMA EndsKeeps ==
    ASSUME DesktopTypeOK, NEW c \in Callers, NEW outcome \in Outcomes, Ends(c, outcome)
    PROVE  /\ Carries(c) /\ call'[c].project = call[c].project
           /\ call'[c].at = "Finish" /\ call'[c].outcome = outcome
<1> DEFINE k == [call[c] EXCEPT !.at = "Finish", !.outcome = outcome]
<1>1. call[c] \in CallRecord /\ call' = [call EXCEPT ![c] = k]
  BY Zenon DEF DesktopTypeOK, Ends
<1>2. /\ k \in CallRecord /\ k.at = "Finish" /\ k.outcome = outcome
      /\ k.cmd = call[c].cmd /\ k.grant = call[c].grant /\ k.source = call[c].source
      /\ k.reply = call[c].reply /\ k.project = call[c].project
  BY <1>1, Zenon DEF CallRecord, Stages
<1> HIDE DEF k
<1> QED BY <1>1, <1>2 DEF DesktopTypeOK, Carries, Others

LEMMA RepliesKeeps ==
    ASSUME DesktopTypeOK, NEW c \in Callers, NEW answer \in Answers, Replies(c, answer)
    PROVE  /\ call' \in [Callers -> CallRecord] /\ Others(c)
           /\ call'[c].cmd = call[c].cmd /\ call'[c].project = call[c].project
           /\ call'[c].source = NoSource /\ call'[c].reply = answer
           /\ call'[c].at = "Idle" /\ call'[c].outcome = "None"
<1> DEFINE k == [NoCall EXCEPT !.cmd = call[c].cmd, !.child = call[c].child,
                               !.project = call[c].project, !.reply = answer]
<1>1. call[c] \in CallRecord /\ call' = [call EXCEPT ![c] = k]
  BY DEF DesktopTypeOK, Replies
<1>2. /\ k \in CallRecord /\ k.at = "Idle" /\ k.outcome = "None"
      /\ k.cmd = call[c].cmd /\ k.source = NoSource
      /\ k.reply = answer /\ k.project = call[c].project
  BY <1>1, NoCallType, Zenon DEF CallRecord
<1> HIDE DEF k
<1> QED BY <1>1, <1>2 DEF DesktopTypeOK, Others

\* A call that stays admitted: it is where it may be, and carries what it may.
LEMMA WorkStep ==
    ASSUME IInv, NEW c \in Callers,
           UNCHANGED <<session, cancelled, bundles, jobs, stateLock>>, TablesKept,
           Carries(c), call[c].at \in Admitted, call'[c].at \in Admitted,
           sessionLock' \in {sessionLock, Nobody, c},
           sessionLock' = c => call'[c].at \in {"Refused", "Apply"},
           StageInv(call'[c]), CarriedInv(call'[c]),
           call'[c].project = call[c].project
               \/ (call[c].at = "Target" /\ call'[c].project = Current.project),
           call[c].cmd = "Create" =>
               /\ call[c].at # "Finish"
               /\ call'[c].project # 0 => call'[c].outcome # "cancelled",
           call'[c].at \in AtWork /\ call[c].cmd = "Import" => call[c].at \in AtWork
    PROVE  IInv'
<1>0. /\ CallInv(c) /\ NoSource.id = 0 /\ Current' = Current
      /\ call'[c].cmd = call[c].cmd /\ call'[c].source = call[c].source
  BY InvGives, Zenon DEF NoSource, Current, Carries
<1>1. HasJob(c)' /\ SessionUse(c)'
  BY <1>0, NobodyIsNoCaller, Zenon DEF CallInv, HasJob, SessionUse
<1>2. BundleInv(call[c])'
  BY <1>0, Zenon DEF CallInv, BundleInv, StageInv, Admitted, UsesSession
<1>3. RetryRoom(call[c])' /\ ReplyInv(c)'
  BY <1>0, Zenon DEF CallInv, RetryRoom, ReplyInv, Replied, At, Admitted, TablesKept
<1>4. ProjectInv(c)'
  <2>1. call[c].source.id # 0 => call[c].source # NoSource
    BY <1>0, Zenon
  <2>2. call[c].at = "Target" => call[c].source = NoSource
    BY <1>0, Zenon DEF CallInv, CarriedInv, AtWork
  <2> QED BY <1>0, <2>1, <2>2, Zenon DEF CallInv, ProjectInv, HasJob
<1>5. CallInv(c)'
  BY <1>1, <1>2, <1>3, <1>4, Zenon DEF CallInv
<1> QED
  BY <1>5, LocalStep, InvGives, Zenon DEF Carries, Others, DesktopTypeOK

\* A call that has answered.
LEMMA AnsweredCall ==
    ASSUME IInv, NEW c \in Callers, NEW answer \in Answers, Replies(c, answer),
           cancelled' = cancelled, c \notin jobs', sessionLock' # c,
           call[c].cmd \in {"Create", "Open"} \cup Picks /\ cancelled[c] => answer # "ok",
           call[c].cmd = "Import" => answer # "retry_lost",
           call[c].cmd = "Create" /\ call[c].project # 0 =>
               /\ call[c].project \in DOMAIN bundles'
               /\ answer \in {"cancelled", "stopped"} => bundles'[call[c].project] = "Trash"
    PROVE  CallInv(c)' /\ call' \in [Callers -> CallRecord] /\ Others(c)
<1>1. /\ call' \in [Callers -> CallRecord] /\ Others(c)
      /\ call'[c].cmd = call[c].cmd /\ call'[c].project = call[c].project
      /\ call'[c].source = NoSource /\ call'[c].reply = answer
      /\ call'[c].at = "Idle" /\ call'[c].outcome = "None"
  BY RepliesKeeps, InvGives, Zenon
<1>2. HasJob(c)' /\ SessionUse(c)'
  BY <1>1 DEF HasJob, SessionUse, Admitted
<1>3. StageInv(call[c])' /\ CarriedInv(call[c])' /\ RetryRoom(call[c])'
  BY <1>1, Zenon DEF StageInv, CarriedInv, RetryRoom, AtWork
<1>4. BundleInv(call[c])'
  BY <1>1, Zenon DEF BundleInv
<1>5. ReplyInv(c)' /\ ProjectInv(c)'
  BY <1>1 DEF ReplyInv, ProjectInv, Replied, At, NoSource
<1> QED BY <1>1, <1>2, <1>3, <1>4, <1>5, Zenon DEF CallInv

\* A call that answers without publishing anything.
LEMMA ReplyStep ==
    ASSUME IInv, NEW c \in Callers, NEW answer \in Answers, Replies(c, answer),
           UNCHANGED <<session, cancelled, bundles>>, TablesKept,
           stateLock' \in {stateLock, Nobody},
           (jobs' = jobs /\ c \notin jobs) \/ jobs' = jobs \ {c},
           sessionLock' = IF sessionLock = c THEN Nobody ELSE sessionLock,
           call[c].cmd \in {"Create", "Open"} \cup Picks /\ cancelled[c] => answer # "ok",
           answer # "retry_lost",
           call[c].cmd = "Create" /\ call[c].project # 0 /\ answer \in {"cancelled", "stopped"}
               => bundles[call[c].project] = "Trash"
    PROVE  IInv'
<1>1. call[c].cmd = "Create" /\ call[c].project # 0 => call[c].project \in DOMAIN bundles
  BY InvGives, Zenon DEF CallInv, BundleInv
<1>2. CallInv(c)' /\ call' \in [Callers -> CallRecord] /\ Others(c)
  BY <1>1, AnsweredCall, NobodyIsNoCaller, Zenon DEF Picks
<1> QED
  BY <1>2, LocalStep, InvGives, Zenon DEF Others, DesktopTypeOK

\* A call that gets the job slot.
LEMMA BeginStep ==
    ASSUME IInv, NEW c \in Callers, CanBegin, jobs' = jobs \cup {c},
           UNCHANGED <<session, cancelled, bundles, sessionLock>>, TablesKept,
           stateLock' \in {stateLock, Nobody},
           Carries(c), call[c].at \in {"Enter", "Mode"},
           call'[c].outcome = call[c].outcome,
           \/ call'[c].at = "Work" /\ call[c].cmd \in {"Create", "SelectOpen", "Open", "Current"}
           \/ call'[c].at = "Target" /\ call[c].cmd \in UsesSession,
           call'[c].project = call[c].project \/ call[c].cmd = "Open",
           call[c].cmd \in UsesSession \cup {"Current"} => session # {}
    PROVE  IInv'
<1>0. /\ CallInv(c) /\ NoSource.id = 0
      /\ call'[c].cmd = call[c].cmd /\ call'[c].source = call[c].source
      /\ call'[c].grant = call[c].grant
  BY InvGives, Zenon DEF NoSource, Carries
<1>1. HasJob(c)' /\ SessionUse(c)'
  BY <1>0, Zenon DEF CallInv, HasJob, SessionUse, Admitted, Stages
<1>2. StageInv(call[c])'
  BY <1>0, Zenon DEF CallInv, StageInv, UsesSession
<1>3. CarriedInv(call[c])' /\ call[c].source = NoSource /\ call[c].project = 0
  BY <1>0, Zenon DEF CallInv, CarriedInv, UsesSession, AtWork
<1>4. BundleInv(call[c])' /\ RetryRoom(call[c])' /\ ReplyInv(c)' /\ ProjectInv(c)'
  BY <1>0, <1>3, Zenon
     DEF BundleInv, RetryRoom, ReplyInv, ProjectInv, Replied, At, UsesSession, AtWork
<1>5. CallInv(c)'
  BY <1>1, <1>2, <1>3, <1>4, Zenon DEF CallInv
<1> QED
  BY <1>5, LocalStep, InvGives, Zenon DEF CanBegin, Carries, Others, DesktopTypeOK

-----------------------------------------------------------------------------
(* The handlers up to the worker                                           *)

\* A call that was not admitted holds neither the job slot nor the session.
LEMMA Outside ==
    ASSUME IInv, NEW c \in Callers, call[c].at \in {"Idle", "Enter", "Mode"}
    PROVE  c \notin jobs /\ sessionLock # c
BY InvGives, Zenon DEF CallInv, HasJob, SessionUse, Admitted

LEMMA AdmitStep == ASSUME IInv, NEW c \in Callers, Admit(c) PROVE IInv'
<1>1. CASE CanBegin
  BY <1>1, GoesKeeps, BeginStep, TablesUnchanged, InvGives, Zenon
     DEF Admit, At, Stages, UsesSession, locks
<1>2. CASE ~ CanBegin
  BY <1>2, Outside, ReplyStep, TablesUnchanged, Zenon DEF Admit, At, Answers, locks
<1> QED BY <1>1, <1>2

LEMMA AdmitOpenStep == ASSUME IInv, NEW c \in Callers, AdmitOpen(c) PROVE IInv'
<1>1. TablesKept
  BY InvGives DEF AdmitOpen, DesktopTypeOK, TablesKept, Fresh
<1>2. CASE CanBegin /\ jobs' = jobs \cup {c}
  <2>1. PICK g \in OpenGrant(call[c].grant) :
            call' = [call EXCEPT ![c].at = "Work", ![c].project = g.path]
    BY <1>2, Outside DEF AdmitOpen, At
  <2>2. g.path \in Nat
    BY InvGives, SMTT(30) DEF OpenGrant, Fresh, DesktopTypeOK, OpenGrants
  <2>3. Carries(c) /\ call'[c].at = "Work" /\ call'[c].outcome = call[c].outcome
    <3>1. GoesWith(c, "Work", g.path) /\ "Work" \in Stages
      BY <2>1, Zenon DEF GoesWith, Stages
    <3> QED BY <2>2, <3>1, ProjectKeeps, InvGives, Zenon
  <2> QED BY <1>1, <1>2, <2>3, BeginStep, Zenon DEF AdmitOpen, At, locks, UsesSession
<1>3. CASE jobs' = jobs
  BY <1>1, <1>3, Outside, ReplyStep, Zenon DEF AdmitOpen, At, Answers, locks
<1> QED BY <1>2, <1>3 DEF AdmitOpen

LEMMA AdmitQueryStep == ASSUME IInv, NEW c \in Callers, AdmitQuery(c) PROVE IInv'
<1>1. CASE session # {} /\ CanBegin /\ jobs' = jobs \cup {c} /\ Goes(c, "Work")
  BY <1>1, GoesKeeps, BeginStep, TablesUnchanged, InvGives, Zenon DEF AdmitQuery, At, Stages, locks
<1>2. CASE \E answer \in {"no_project", "resource_limit"} : Replies(c, answer) /\ UNCHANGED jobs
  BY <1>2, Outside, ReplyStep, TablesUnchanged, Zenon DEF AdmitQuery, At, Answers, locks
<1> QED BY <1>1, <1>2 DEF AdmitQuery

LEMMA LockStateStep == ASSUME IInv, NEW c \in Callers, LockState(c) PROVE IInv'
<1>1. CASE session = {}
  BY <1>1, Outside, ReplyStep, TablesUnchanged, Zenon DEF LockState, At, Answers
<1>2. CASE session # {}
  <2>1. /\ Carries(c) /\ call'[c].project = call[c].project
        /\ call'[c].at = "Mode" /\ call'[c].outcome = call[c].outcome
    BY <1>2, GoesKeeps, InvGives, Zenon DEF LockState, Stages
  <2>2. /\ CallInv(c) /\ call'[c].cmd = call[c].cmd /\ call'[c].source = call[c].source
        /\ call'[c].grant = call[c].grant /\ call[c].at = "Enter"
    BY <2>1, InvGives, Zenon DEF Carries, LockState, At
  <2>3. HasJob(c)' /\ SessionUse(c)' /\ StageInv(call[c])' /\ CarriedInv(call[c])'
    BY <1>2, <2>1, <2>2, Zenon DEF CallInv, HasJob, SessionUse, StageInv, CarriedInv,
       Admitted, AtWork, LockState
  <2>4. BundleInv(call[c])' /\ RetryRoom(call[c])' /\ ReplyInv(c)' /\ ProjectInv(c)'
    BY <2>1, <2>2, Outside, Zenon
       DEF CallInv, CarriedInv, BundleInv, RetryRoom, ReplyInv, ProjectInv,
       Replied, At, LockState, AtWork, UsesSession
  <2>5. CallInv(c)'
    BY <2>3, <2>4 DEF CallInv
  <2> QED
    BY <1>2, <2>1, <2>5, LocalStep, TablesUnchanged, InvGives, Zenon
       DEF LockState, Carries, Others, DesktopTypeOK
<1> QED BY <1>1, <1>2

LEMMA AdmitMapStep == ASSUME IInv, NEW c \in Callers, AdmitMap(c) PROVE IInv'
<1>1. call[c].cmd \in UsesSession /\ session # {}
  BY InvGives, Zenon DEF CallInv, StageInv, SessionUse, AdmitMap, At
<1>2. CASE Current.writable /\ CanBegin
  BY <1>1, <1>2, GoesKeeps, BeginStep, TablesUnchanged, InvGives, Zenon DEF AdmitMap, At, Stages
<1>3. CASE ~ (Current.writable /\ CanBegin)
  <2>1. PICK answer \in {"resource_limit", "read_only"} : Replies(c, answer)
    BY <1>3 DEF AdmitMap
  <2> QED BY <1>3, <2>1, Outside, ReplyStep, TablesUnchanged, Zenon DEF AdmitMap, At, Answers
<1> QED BY <1>2, <1>3

LEMMA TargetStep == ASSUME IInv, NEW c \in Callers, Target(c) \/ Intent(c) PROVE IInv'
<1>1. call[c].at = "Target" /\ CallInv(c) /\ call[c].cmd \in UsesSession /\ session # {}
  BY InvGives, Zenon DEF CallInv, StageInv, SessionUse, Target, Intent, At, Admitted, Stages
<1>2. Current.project \in Nat
  BY <1>1, InvGives DEF Current, DesktopTypeOK
<1>3. /\ Carries(c) /\ call'[c].outcome = call[c].outcome
      /\ \/ call'[c].at = "Take" /\ call[c].cmd = "Import" /\ call'[c].project = Current.project
         \/ call'[c].at = "Work" /\ call[c].cmd # "Import" /\ call'[c].project = Current.project
         \/ call'[c].at = "Refused" /\ call'[c].project = call[c].project
      /\ sessionLock' \in {Nobody, c} /\ (sessionLock' = c => call'[c].at = "Refused")
  <2>1. CASE Goes(c, "Refused")
    BY <2>1, GoesKeeps, InvGives, Zenon DEF Stages, Target, Intent, SessionFree
  <2>2. CASE ~ Goes(c, "Refused")
    <3>1. GoesWith(c, IF call[c].cmd = "Import" THEN "Take" ELSE "Work", Current.project)
      BY <2>2, Zenon DEF Target, Intent, GoesWith
    <3>2. sessionLock' = Nobody
      BY <2>2 DEF Target, Intent, SessionFree
    <3>3. /\ Carries(c) /\ call'[c].project = Current.project
          /\ call'[c].at = (IF call[c].cmd = "Import" THEN "Take" ELSE "Work")
          /\ call'[c].outcome = call[c].outcome
      <4>1. (IF call[c].cmd = "Import" THEN "Take" ELSE "Work") \in Stages
        BY DEF Stages
      <4> QED BY <1>2, <3>1, <4>1, ProjectKeeps, InvGives, ZenonT(30)
    <3> QED BY <3>2, <3>3, NobodyIsNoCaller, Zenon
  <2> QED BY <2>1, <2>2, Zenon
<1>4. StageInv(call'[c]) /\ CarriedInv(call'[c])
  BY <1>1, <1>3, Zenon DEF CallInv, StageInv, CarriedInv, Carries, UsesSession, AtWork
<1> QED
  BY <1>1, <1>3, <1>4, WorkStep, TablesUnchanged, Zenon
     DEF Target, Intent, SessionFree, Admitted, Stages, AtWork, UsesSession

LEMMA RefuseStep == ASSUME IInv, NEW c \in Callers, Refuse(c) PROVE IInv'
<1>1. call[c].cmd \in UsesSession
  BY InvGives, Zenon DEF CallInv, StageInv, Refuse, At
<1> QED BY <1>1, ReplyStep, TablesUnchanged, Zenon DEF Refuse, Answers, Outcomes, UsesSession

-----------------------------------------------------------------------------
(* The workers                                                             *)

\* What a picker's worker changes of its call.
PickChange(c, at, outcome, child, n) ==
    \/ call' = [call EXCEPT ![c].child = child]
    \/ call' = [call EXCEPT ![c].at = at, ![c].child = child]
    \/ call' = [call EXCEPT ![c].at = at, ![c].selector = n]
    \/ call' = [call EXCEPT ![c].child = child, ![c].at = at, ![c].outcome = outcome]
    \/ call' = [call EXCEPT ![c].child = child, ![c].at = at, ![c].selector = n]

LEMMA PickKeeps ==
    ASSUME DesktopTypeOK, NEW c \in Callers, NEW at \in Stages, NEW outcome \in Outcomes,
           NEW child \in Children, NEW n \in Nat, PickChange(c, at, outcome, child, n)
    PROVE  /\ Carries(c) /\ call'[c].project = call[c].project
           /\ call'[c].at \in {call[c].at, at} /\ call'[c].outcome \in {call[c].outcome, outcome}
<1> DEFINE Same(k) ==
             /\ k \in CallRecord
             /\ k.cmd = call[c].cmd /\ k.grant = call[c].grant /\ k.source = call[c].source
             /\ k.reply = call[c].reply /\ k.project = call[c].project
             /\ k.at \in {call[c].at, at} /\ k.outcome \in {call[c].outcome, outcome}
           k1 == [call[c] EXCEPT !.child = child]
           k2 == [call[c] EXCEPT !.at = at, !.child = child]
           k3 == [call[c] EXCEPT !.at = at, !.selector = n]
           k4 == [call[c] EXCEPT !.child = child, !.at = at, !.outcome = outcome]
           k5 == [call[c] EXCEPT !.child = child, !.at = at, !.selector = n]
<1>1. call[c] \in CallRecord
  BY Zenon DEF DesktopTypeOK
<1>2. Same(k1) /\ Same(k2) /\ Same(k3) /\ Same(k4) /\ Same(k5)
  BY <1>1, Zenon DEF CallRecord
<1>3. \E k \in {k1, k2, k3, k4, k5} : call' = [call EXCEPT ![c] = k]
  BY ZenonT(30) DEF PickChange
<1> HIDE DEF k1, k2, k3, k4, k5
<1>4. PICK k : Same(k) /\ call' = [call EXCEPT ![c] = k]
  BY <1>2, <1>3, Zenon
<1> QED BY <1>4, Zenon DEF DesktopTypeOK, Carries, Others

LEMMA PickStep ==
    ASSUME IInv, NEW c \in Callers,
           Spawn(c) \/ ChildExits(c) \/ PollCancelled(c) \/ PollTimeout(c) \/ PollExit(c)
    PROVE  IInv'
<1>1. /\ CallInv(c) /\ call[c].cmd \in Picks /\ call[c].at \in {"Work", "Picking"}
      /\ WorkerOnly /\ UNCHANGED <<sessionLock, session, bundles>>
  BY InvGives, Zenon
     DEF CallInv, StageInv, At, Spawn, ChildExits, PollCancelled, PollTimeout, PollExit
<1>2. /\ Carries(c) /\ call'[c].project = call[c].project
      /\ call'[c].at \in {"Work", "Picking", "Finish"} /\ call'[c].outcome # "ok"
  <2>1. call[c].outcome # "ok"
    BY <1>1, Zenon DEF CallInv, StageInv
  <2>2. CASE \E outcome \in Outcomes \ {"ok"} : Ends(c, outcome)
    BY <2>2, EndsKeeps, InvGives, Zenon
  <2>3. ASSUME NEW at \in {"Work", "Picking", "Finish"}, NEW outcome \in Outcomes \ {"ok"},
               NEW child \in Children, PickChange(c, at, outcome, child, 2)
        PROVE  /\ Carries(c) /\ call'[c].project = call[c].project
               /\ call'[c].at \in {"Work", "Picking", "Finish"} /\ call'[c].outcome # "ok"
    <3>1. /\ Carries(c) /\ call'[c].project = call[c].project
          /\ call'[c].at \in {call[c].at, at} /\ call'[c].outcome \in {call[c].outcome, outcome}
      <4>1. at \in Stages /\ outcome \in Outcomes /\ 2 \in Nat
        BY DEF Stages
      <4> QED BY <2>3, <4>1, PickKeeps, InvGives, Zenon
    <3> QED BY <1>1, <2>1, <3>1, Zenon
  <2>4. CASE Spawn(c) \/ ChildExits(c)
    <3>1. \/ PickChange(c, "Picking", "None", "Running", 2)
          \/ PickChange(c, "Work", "None", "Exited", 2)
          \/ Ends(c, "cancelled") \/ Ends(c, "capability_unavailable")
      BY <2>4, Zenon DEF Spawn, Unavailable, ChildExits, PickChange
    <3> QED BY <2>2, <2>3, <3>1, Zenon DEF Outcomes, Children
  <2>5. ASSUME NEW outcome \in Outcomes \ {"ok"},
               \/ Terminate(c, outcome)
               \/ call' = [call EXCEPT ![c].child = "Reaped", ![c].at = "Finish",
                                       ![c].outcome = outcome]
        PROVE  \/ PickChange(c, "Finish", outcome, "Reaped", 2)
               \/ Ends(c, "storage")
    BY <2>5, Zenon DEF Terminate, PickChange
  <2>6. CASE \E outcome \in Outcomes \ {"ok"} :
                \/ Terminate(c, outcome)
                \/ call' = [call EXCEPT ![c].child = "Reaped", ![c].at = "Finish",
                                        ![c].outcome = outcome]
    BY <2>2, <2>3, <2>5, <2>6, Zenon DEF Outcomes, Children
  <2>7. CASE PollCancelled(c) \/ PollTimeout(c)
    BY <2>6, <2>7, Zenon DEF PollCancelled, PollTimeout, Outcomes
  <2>8. CASE PollExit(c)
    <3>1. CASE call' = [call EXCEPT ![c].child = "Reaped", ![c].at = "Work", ![c].selector = 2]
      <4>1. PickChange(c, "Work", "None", "Reaped", 2)
        BY <3>1 DEF PickChange
      <4> QED BY <2>3, <4>1, Zenon DEF Outcomes, Children
    <3>2. CASE Ends(c, "storage")
      BY <2>2, <3>2, Zenon DEF Outcomes
    <3> QED BY <2>6, <2>8, <3>1, <3>2, Zenon DEF PollExit, Outcomes
  <2> QED BY <2>4, <2>7, <2>8, Zenon
<1>3. StageInv(call'[c]) /\ CarriedInv(call'[c])
  BY <1>1, <1>2, Zenon DEF CallInv, StageInv, CarriedInv, Carries, Picks, AtWork
<1>4. sessionLock' # c
  BY <1>1, Zenon DEF CallInv, SessionUse
<1> QED
  BY <1>1, <1>2, <1>3, <1>4, WorkStep, TablesUnchanged, Zenon
     DEF WorkerOnly, Admitted, Stages, Picks

\* A worker that ends without having touched what others see.
LEMMA EndStep ==
    ASSUME IInv, NEW c \in Callers, NEW outcome \in Outcomes, Ends(c, outcome), WorkerOnly,
           UNCHANGED <<session, bundles>>,
           sessionLock' = Nobody \/ (sessionLock' = sessionLock /\ call[c].at # "Apply"),
           call[c].at \in Admitted \ {"Finish", "Take", "Target", "Refused"},
           call[c].cmd \in Picks => outcome # "ok",
           call[c].cmd = "Create" /\ call[c].project # 0 => outcome # "cancelled"
    PROVE  IInv'
<1>1. /\ Carries(c) /\ call'[c].project = call[c].project
      /\ call'[c].at = "Finish" /\ call'[c].outcome = outcome
  BY EndsKeeps, InvGives, Zenon
<1>2. StageInv(call'[c]) /\ CarriedInv(call'[c])
  BY <1>1, InvGives, ZenonT(30) DEF CallInv, StageInv, CarriedInv, Carries, AtWork, Admitted
<1>3. call[c].cmd = "Import" => call[c].at \in AtWork
  BY InvGives, Zenon DEF CallInv, StageInv, Admitted, Stages, AtWork, Picks
<1>4. sessionLock' \in {sessionLock, Nobody} /\ sessionLock' # c
  BY NobodyIsNoCaller, InvGives, InvFrom, Zenon DEF CallInv, SessionUse, Admitted
<1> QED
  BY <1>1, <1>2, <1>3, <1>4, WorkStep, TablesUnchanged, Zenon DEF WorkerOnly, Admitted, Stages

\* A worker that goes on to its next step.
LEMMA GoOnStep ==
    ASSUME IInv, NEW c \in Callers, NEW stage \in {"Respond", "LockSession", "Apply"},
           Goes(c, stage), WorkerOnly, UNCHANGED <<session, bundles>>,
           call[c].at \in {"Work", "LockSession"},
           stage = "Respond" => call[c].cmd = "Open",
           stage = "LockSession" => call[c].cmd = "Import",
           stage = "Apply" => call[c].cmd \in {"Import", "Calibrate", "Current"},
           sessionLock' = IF stage = "Apply" THEN c ELSE sessionLock
    PROVE  IInv'
<1>1. /\ Carries(c) /\ call'[c].project = call[c].project
      /\ call'[c].at = stage /\ call'[c].outcome = call[c].outcome
  BY GoesKeeps, InvGives, Zenon DEF Stages
<1>2. StageInv(call'[c]) /\ CarriedInv(call'[c])
  BY <1>1, InvGives, ZenonT(30) DEF CallInv, StageInv, CarriedInv, Carries, AtWork
<1>3. sessionLock' = c => stage = "Apply"
  BY InvGives, Zenon DEF CallInv, SessionUse
<1> QED
  BY <1>1, <1>2, <1>3, WorkStep, TablesUnchanged, Zenon DEF WorkerOnly, Admitted, Stages, AtWork

LEMMA OpenBundleStep ==
    ASSUME IInv, NEW c \in Callers, OpenBundle(c) \/ RespondOpen(c) PROVE IInv'
<1>1. CASE Goes(c, "Respond") /\ OpenBundle(c)
  BY <1>1, GoOnStep, Zenon DEF OpenBundle, At
<1>2. CASE \E outcome \in {"ok", "storage", "cancelled"} : Ends(c, outcome)
  BY <1>2, EndStep, Zenon DEF OpenBundle, RespondOpen, At, Outcomes, Admitted, Stages, Picks
<1> QED BY <1>1, <1>2, Zenon DEF OpenBundle, RespondOpen

LEMMA ReadSourceStep == ASSUME IInv, NEW c \in Callers, ReadSource(c) PROVE IInv'
<1>1. CASE Goes(c, "LockSession")
  BY <1>1, GoOnStep, Zenon DEF ReadSource, At
<1>2. CASE \E outcome \in {"cancelled", "invalid_request"} : Ends(c, outcome)
  BY <1>2, EndStep, Zenon DEF ReadSource, At, Outcomes, Admitted, Stages, Picks
<1> QED BY <1>1, <1>2, Zenon DEF ReadSource

LEMMA LockSessionStep == ASSUME IInv, NEW c \in Callers, LockSession(c) PROVE IInv'
<1>1. call[c].at \in {"Work", "LockSession"} /\ call[c].cmd \in {"Import", "Calibrate", "Current"}
  BY InvGives, Zenon DEF LockSession, At, CallInv, StageInv
<1>2. CASE Goes(c, "Apply") /\ sessionLock' = c
  BY <1>1, <1>2, GoOnStep, Zenon DEF LockSession, UsesSession
<1>3. CASE Ends(c, "retryable") /\ UNCHANGED sessionLock
  BY <1>1, <1>3, EndStep, Zenon DEF LockSession, Outcomes, Admitted, Stages, Picks
<1> QED BY <1>2, <1>3, Zenon DEF LockSession

LEMMA ApplyStep == ASSUME IInv, NEW c \in Callers, Apply(c) PROVE IInv'
<1>1. call[c].at = "Apply" /\ call[c].cmd \in {"Import", "Calibrate", "Current"}
  BY InvGives, Zenon DEF Apply, At, CallInv, StageInv
<1>2. PICK outcome \in {"ok", "retryable", "refused", "cancelled"} : Ends(c, outcome)
  BY DEF Apply
<1> QED BY <1>1, <1>2, EndStep, Zenon DEF Apply, Outcomes, Admitted, Stages, Picks
-----------------------------------------------------------------------------
(* Steps that change what calls share                                      *)

\* Only the call with the job slot changes the session, the bundles or the
\* retries, so no other call is at work on them.
LEMMA SoleJobStep ==
    ASSUME IInv, NEW c \in Callers, c \in jobs,
           DesktopTypeOK', SharedInv', CallInv(c)', Others(c),
           cancelled' = cancelled, jobs' \in {jobs, jobs \ {c}},
           sessionLock' \in {sessionLock, Nobody},
           session # {} => session' # {},
           \A p \in DOMAIN bundles :
                p \in DOMAIN bundles' /\ (bundles[p] = "Trash" => bundles'[p] = "Trash")
    PROVE  IInv'
<1>1. Cardinality(Fresh(mapRetries)) \in Nat /\ Cardinality(Fresh(mapRetries')) \in Nat
  BY FreshFinite DEF IInv, SharedInv
<1>2. ASSUME NEW d \in Callers, d # c PROVE CallInv(d)'
  <2>1. d \notin jobs /\ d \notin jobs'
    BY <1>2 DEF IInv, SharedInv
  <2>2. /\ CallInv(d) /\ DesktopTypeOK /\ call'[d] = call[d]
        /\ sessionLock' = d => sessionLock = d
    BY <1>2, NobodyIsNoCaller DEF IInv, Others
  <2> QED BY <1>1, <2>1, <2>2, OtherCall
<1> QED BY <1>2 DEF IInv

\* A bundle that is moved aside.
LEMMA MovedAside ==
    ASSUME DesktopTypeOK, NEW q,
           bundles' = [p \in DOMAIN bundles |-> IF p = q THEN "Trash" ELSE bundles[p]]
    PROVE  /\ \E n \in Nat : bundles' \in [1 .. n -> {"Live", "Trash"}]
           /\ DOMAIN bundles' = DOMAIN bundles
           /\ \A p \in DOMAIN bundles : bundles[p] = "Trash" => bundles'[p] = "Trash"
           /\ q \in DOMAIN bundles => bundles'[q] = "Trash"
BY Zenon DEF DesktopTypeOK

\* The create that is cancelled moves its bundle aside and ends.
LEMMA AsideStep ==
    ASSUME IInv, NEW c \in Callers, call[c].at \in {"CreateFailed", "Respond"},
           call[c].cmd = "Create", Retained(c, "cancelled"),
           WorkerOnly, UNCHANGED <<sessionLock, session>>
    PROVE  IInv'
<1>1. CASE UNCHANGED bundles /\ Ends(c, "storage")
  BY <1>1, EndStep, Zenon DEF Outcomes, Admitted, Stages, Picks
<1>2. CASE /\ bundles' = [p \in DOMAIN bundles |->
                            IF p = call[c].project THEN "Trash" ELSE bundles[p]]
           /\ Ends(c, "cancelled")
  <2>1. /\ \E n \in Nat : bundles' \in [1 .. n -> {"Live", "Trash"}]
        /\ DOMAIN bundles' = DOMAIN bundles
        /\ \A p \in DOMAIN bundles : bundles[p] = "Trash" => bundles'[p] = "Trash"
        /\ call[c].project \in DOMAIN bundles => bundles'[call[c].project] = "Trash"
    BY <1>2, MovedAside, Zenon DEF IInv
  <2>2. /\ Carries(c) /\ call'[c].project = call[c].project
        /\ call'[c].at = "Finish" /\ call'[c].outcome = "cancelled"
    BY <1>2, EndsKeeps, Zenon DEF IInv, Outcomes
  <2>3. /\ CallInv(c) /\ c \in jobs /\ c \in jobs' /\ sessionLock' # c
        /\ call'[c].cmd = "Create" /\ call'[c].source = call[c].source
        /\ Current' = Current
    BY <2>2, Zenon
       DEF IInv, CallInv, HasJob, SessionUse, Admitted, Stages, WorkerOnly, Carries, Current
  <2>4. DesktopTypeOK' /\ SharedInv'
    BY <2>1, <2>2, Zenon DEF IInv, DesktopTypeOK, SharedInv, WorkerOnly, tables, Carries
  <2>5. /\ HasJob(c)' /\ SessionUse(c)' /\ StageInv(call[c])' /\ CarriedInv(call[c])'
        /\ RetryRoom(call[c])'
    BY <2>2, <2>3, Zenon DEF CallInv, HasJob, SessionUse, StageInv, CarriedInv, RetryRoom, Admitted,
       Stages, UsesSession, Picks
  <2>6. BundleInv(call[c])'
    BY <2>1, <2>2, <2>3, Zenon DEF CallInv, BundleInv
  <2>7. ReplyInv(c)' /\ ProjectInv(c)'
    BY <2>2, <2>3, Zenon DEF CallInv, ReplyInv, ProjectInv, Replied, At, UsesSession
  <2>8. CallInv(c)'
    BY <2>5, <2>6, <2>7, Zenon DEF CallInv
  <2> QED BY <2>1, <2>2, <2>3, <2>4, <2>8, SoleJobStep, Zenon DEF WorkerOnly, Carries
<1> QED BY <1>1, <1>2 DEF Retained

\* The next bundle is the one after all those made.
LEMMA NextBundle ==
    ASSUME DesktopTypeOK, NEW p, p = Cardinality(DOMAIN bundles) + 1,
           bundles' = [q \in 1 .. p |-> IF q = p THEN "Live" ELSE bundles[q]]
    PROVE  /\ p \in Nat \ {0} /\ bundles' \in [1 .. p -> {"Live", "Trash"}]
           /\ p \in DOMAIN bundles'
           /\ \A q \in DOMAIN bundles : q \in DOMAIN bundles' /\ bundles'[q] = bundles[q]
<1>1. PICK n \in Nat : bundles \in [1 .. n -> {"Live", "Trash"}]
  BY Zenon DEF DesktopTypeOK
<1>2. DOMAIN bundles = 1 .. n /\ p = n + 1
  <2>1. Cardinality(1 .. n) = IF 1 > n THEN 0 ELSE n - 1 + 1
    <3>1. 1 \in Int /\ n \in Int
      OBVIOUS
    <3> QED BY <3>1, FS_Interval, Zenon
  <2>2. DOMAIN bundles = 1 .. n
    BY <1>1, Zenon
  <2> QED BY <2>1, <2>2
<1> QED BY <1>1, <1>2

LEMMA CreateBundleStep == ASSUME IInv, NEW c \in Callers, CreateBundle(c) PROVE IInv'
<1>1. /\ CallInv(c) /\ call[c].at = "Work" /\ call[c].cmd = "Create" /\ call[c].project = 0
      /\ c \in jobs /\ sessionLock # c
  BY Zenon DEF IInv, CallInv, HasJob, SessionUse, CarriedInv, CreateBundle, At, Admitted, Stages
<1>2. CASE Ends(c, "cancelled") /\ UNCHANGED bundles
  <2>1. /\ "cancelled" \in Outcomes /\ "Create" \notin Picks
        /\ "Work" \in Admitted \ {"Finish", "Take", "Target", "Refused"}
    BY DEF Outcomes, Admitted, Stages, Picks
  <2> QED BY <1>1, <1>2, <2>1, EndStep DEF CreateBundle
<1>3. CASE Goes(c, "CreateFailed") /\ UNCHANGED bundles
  <2>1. /\ Carries(c) /\ call'[c].project = call[c].project
        /\ call'[c].at = "CreateFailed" /\ call'[c].outcome = call[c].outcome
    BY <1>3, GoesKeeps, Zenon DEF IInv, Stages
  <2>2. StageInv(call'[c]) /\ CarriedInv(call'[c])
    BY <1>1, <2>1, Zenon DEF CallInv, StageInv, CarriedInv, Carries, Picks, AtWork
  <2> QED
    BY <1>1, <1>3, <2>1, <2>2, WorkStep, TablesUnchanged
       DEF CreateBundle, WorkerOnly, Admitted, Stages
<1>4. ASSUME NEW p, p = Cardinality(DOMAIN bundles) + 1,
             NEW at \in {"Respond", "CreateFailed"},
             bundles' = [q \in 1 .. p |-> IF q = p THEN "Live" ELSE bundles[q]],
             call' = [call EXCEPT ![c].project = p, ![c].at = at]
      PROVE  IInv'
  <2>1. /\ p \in Nat \ {0} /\ bundles' \in [1 .. p -> {"Live", "Trash"}]
        /\ p \in DOMAIN bundles'
        /\ \A q \in DOMAIN bundles : q \in DOMAIN bundles' /\ bundles'[q] = bundles[q]
    BY <1>4, NextBundle, Zenon DEF IInv
  <2>2. /\ Carries(c) /\ call'[c].project = p
        /\ call'[c].at = at /\ call'[c].outcome = call[c].outcome
    <3>1. at \in Stages /\ p \in Nat /\ GoesWith(c, at, p)
      BY <1>4, <2>1, Zenon DEF Stages, GoesWith
    <3> QED BY <3>1, ProjectKeeps, InvGives, Zenon
  <2>3. /\ WorkerOnly /\ session' = session /\ sessionLock' = sessionLock
        /\ call'[c].cmd = "Create" /\ call'[c].source = NoSource
    BY <1>1, <2>2, Zenon DEF CreateBundle, CallInv, CarriedInv, Carries
  <2>4. DesktopTypeOK' /\ SharedInv'
    BY <2>1, <2>2, <2>3, Zenon DEF IInv, DesktopTypeOK, SharedInv, WorkerOnly, tables, Carries
  <2>5. HasJob(c)' /\ SessionUse(c)' /\ StageInv(call[c])' /\ CarriedInv(call[c])'
    BY <1>1, <2>2, <2>3, Zenon DEF HasJob, SessionUse, StageInv, CarriedInv, Admitted, Stages,
       UsesSession, Picks, WorkerOnly
  <2>6. BundleInv(call[c])' /\ RetryRoom(call[c])' /\ ReplyInv(c)' /\ ProjectInv(c)'
    BY <2>1, <2>2, <2>3 DEF BundleInv, RetryRoom, ReplyInv, ProjectInv, Replied, At,
       UsesSession, NoSource
  <2>7. CallInv(c)'
    BY <2>5, <2>6 DEF CallInv
  <2> QED BY <1>1, <2>1, <2>2, <2>3, <2>4, <2>7, SoleJobStep, Zenon DEF WorkerOnly, Carries
<1> QED BY <1>2, <1>3, <1>4 DEF CreateBundle

LEMMA CreateEndStep ==
    ASSUME IInv, NEW c \in Callers, CreateFailed(c) \/ RespondCreate(c) PROVE IInv'
<1>1. call[c].at \in {"CreateFailed", "Respond"} /\ call[c].cmd = "Create"
  BY Zenon DEF IInv, CallInv, StageInv, CreateFailed, RespondCreate, At
<1>2. CASE cancelled[c]
  BY <1>1, <1>2, AsideStep, Zenon DEF CreateFailed, RespondCreate
<1>3. CASE ~ cancelled[c]
  <2>1. PICK outcome \in {"ok", "storage"} : Ends(c, outcome) /\ UNCHANGED bundles
    BY <1>3 DEF CreateFailed, RespondCreate
  <2> QED
    BY <1>1, <2>1, EndStep, Zenon DEF CreateFailed, RespondCreate, Outcomes, Admitted, Stages, Picks
<1> QED BY <1>2, <1>3

\* A poisoned session is still the session of the same project.
LEMMA UnwindStep == ASSUME IInv, NEW c \in Callers, Unwind(c) PROVE IInv'
<1>1. /\ CallInv(c) /\ c \in jobs /\ Ends(c, "unwound") /\ WorkerOnly /\ UNCHANGED bundles
      /\ call[c].at \in {"Work", "Respond", "CreateFailed", "LockSession", "Apply"}
  BY DEF IInv, Unwind
<1>2. CASE sessionLock # c
  <2>1. /\ Carries(c) /\ call'[c].project = call[c].project
        /\ call'[c].at = "Finish" /\ call'[c].outcome = "unwound"
    BY <1>1, EndsKeeps, Zenon DEF IInv, Outcomes
  <2>2. StageInv(call'[c]) /\ CarriedInv(call'[c])
    BY <1>1, <2>1, Zenon DEF CallInv, StageInv, CarriedInv, Carries, AtWork
  <2>3. call[c].cmd = "Import" => call[c].at \in AtWork
    BY <1>1, Zenon DEF CallInv, StageInv, AtWork
  <2> QED
    BY <1>1, <1>2, <2>1, <2>2, <2>3, WorkStep, TablesUnchanged, Zenon
       DEF Unwind, WorkerOnly, Admitted, Stages
<1>3. CASE sessionLock = c
  <2>1. call[c].at = "Apply" /\ call[c].cmd \in {"Import", "Calibrate", "Current"} /\ session # {}
    BY <1>1, <1>3, Zenon DEF CallInv, SessionUse, StageInv, Admitted, Stages, UsesSession
  <2>2. /\ sessionLock' = Nobody /\ session' = {[Current EXCEPT !.poisoned = TRUE]}
        /\ Current \in [project : Nat, writable : BOOLEAN, poisoned : BOOLEAN]
    BY <1>3, <2>1, Zenon DEF Unwind, Current, IInv, DesktopTypeOK
  <2>3. /\ session' \in SUBSET [project : Nat, writable : BOOLEAN, poisoned : BOOLEAN]
        /\ session' # {} /\ \A s, t \in session' : s = t
        /\ \A s \in session' : s.project = Current.project
    BY <2>2, Zenon
  <2>4. Current'.project = Current.project
    BY <2>3 DEF Current
  <2>5. /\ Carries(c) /\ call'[c].project = call[c].project
        /\ call'[c].at = "Finish" /\ call'[c].outcome = "unwound"
    BY <1>1, EndsKeeps DEF IInv, Outcomes
  <2>6. /\ call'[c].cmd = call[c].cmd /\ call'[c].source = call[c].source
        /\ call'[c].grant = call[c].grant /\ c \in jobs' /\ mapRetries' = mapRetries
        /\ sessionLock' # c
    BY <1>1, <2>2, <2>5, NobodyIsNoCaller DEF Carries, WorkerOnly, tables
  <2>7. DesktopTypeOK' /\ SharedInv'
    BY <1>1, <2>2, <2>3, <2>5 DEF IInv, DesktopTypeOK, SharedInv, WorkerOnly, tables, Carries
  <2>8. HasJob(c)' /\ SessionUse(c)' /\ StageInv(call[c])' /\ CarriedInv(call[c])'
    BY <1>1, <2>1, <2>3, <2>5, <2>6, Zenon DEF CallInv, HasJob, SessionUse, StageInv, CarriedInv,
       Admitted, Stages, AtWork
  <2>9. BundleInv(call[c])' /\ RetryRoom(call[c])' /\ ReplyInv(c)' /\ ProjectInv(c)'
    BY <1>1, <2>1, <2>4, <2>5, <2>6, Zenon DEF CallInv, BundleInv, RetryRoom, ReplyInv, ProjectInv,
       Replied, At, AtWork
  <2>10. CallInv(c)'
    BY <2>8, <2>9 DEF CallInv
  <2> QED BY <1>1, <2>2, <2>3, <2>5, <2>7, <2>10, SoleJobStep DEF WorkerOnly, Carries
<1> QED BY <1>2, <1>3

-----------------------------------------------------------------------------
(* The handlers after the worker                                           *)

\* A handler that finishes has the slot and does not hold the session.
LEMMA AtFinish ==
    ASSUME IInv, NEW c \in Callers, NEW cmds, Finishing(c, cmds)
    PROVE  /\ CallInv(c) /\ c \in jobs /\ c \notin jobs' /\ sessionLock # c
           /\ call[c].at = "Finish" /\ call[c].cmd \in cmds
           /\ call[c] \in CallRecord /\ call[c].outcome \in Answers /\ call[c].project \in Nat
           /\ jobs' = jobs \ {c} /\ UNCHANGED <<stateLock, cancelled>>
<1>1. CallInv(c) /\ call[c].at = "Finish" /\ call[c].cmd \in cmds /\ call[c] \in CallRecord
  BY DEF IInv, DesktopTypeOK, Finishing, At
<1>2. c \in jobs /\ sessionLock # c
  BY <1>1, Zenon DEF CallInv, HasJob, SessionUse, Admitted, Stages
<1>3. call[c].outcome \in Answers /\ call[c].project \in Nat
  BY <1>1 DEF CallRecord, Answers
<1> QED BY <1>1, <1>2, <1>3 DEF Finishing

\* A create or an open that publishes makes the session.
LEMMA PublishStep ==
    ASSUME IInv, NEW c \in Callers, NEW writable \in BOOLEAN,
           Finishing(c, {"Create", "Open"}), Publishes(c), Replies(c, "ok"),
           session' = {[project |-> call[c].project, writable |-> writable, poisoned |-> FALSE]},
           sessionLock' = Nobody, UNCHANGED <<bundles, tables>>
    PROVE  IInv'
<1>1. /\ CallInv(c) /\ c \in jobs /\ c \notin jobs' /\ call[c].cmd \in {"Create", "Open"}
      /\ call[c].project \in Nat /\ jobs' = jobs \ {c} /\ UNCHANGED <<stateLock, cancelled>>
  BY AtFinish, Zenon
<1>2. /\ session' \in SUBSET [project : Nat, writable : BOOLEAN, poisoned : BOOLEAN]
      /\ session' # {} /\ \A s, t \in session' : s = t
  BY <1>1
<1>3. call[c].cmd = "Create" /\ call[c].project # 0 => call[c].project \in DOMAIN bundles
  BY <1>1, Zenon DEF CallInv, BundleInv
<1>4. CallInv(c)' /\ call' \in [Callers -> CallRecord] /\ Others(c)
  BY <1>1, <1>3, AnsweredCall, NobodyIsNoCaller, Zenon DEF Publishes, Answers, Outcomes
<1>5. DesktopTypeOK' /\ SharedInv'
  BY <1>1, <1>2, <1>4, Zenon DEF IInv, DesktopTypeOK, SharedInv, tables
<1> QED BY <1>1, <1>2, <1>4, <1>5, SoleJobStep, Zenon

LEMMA FinishCreateStep == ASSUME IInv, NEW c \in Callers, FinishCreate(c) PROVE IInv'
<1>0. Finishing(c, {"Create"}) /\ Finishing(c, {"Create", "Open"})
  BY Zenon DEF FinishCreate, Finishing
<1>1. /\ CallInv(c) /\ c \in jobs /\ c \notin jobs' /\ sessionLock # c /\ call[c].cmd = "Create"
      /\ call[c].at = "Finish" /\ call[c].outcome \in Answers /\ jobs' = jobs \ {c}
      /\ UNCHANGED <<stateLock, cancelled, tables>>
  BY <1>0, AtFinish, ZenonT(30) DEF FinishCreate
<1>2. call[c].project # 0 =>
        /\ call[c].project \in DOMAIN bundles
        /\ call[c].outcome = "cancelled" => bundles[call[c].project] = "Trash"
  BY <1>1, Zenon DEF CallInv, BundleInv
<1>3. CASE /\ bundles' = [p \in DOMAIN bundles |->
                            IF p = call[c].project THEN "Trash" ELSE bundles[p]]
           /\ \E answer \in {"cancelled", "stopped"} : Replies(c, answer)
           /\ UNCHANGED <<session, sessionLock>>
  <2>1. /\ \E n \in Nat : bundles' \in [1 .. n -> {"Live", "Trash"}]
        /\ DOMAIN bundles' = DOMAIN bundles
        /\ \A p \in DOMAIN bundles : bundles[p] = "Trash" => bundles'[p] = "Trash"
        /\ call[c].project \in DOMAIN bundles => bundles'[call[c].project] = "Trash"
    BY <1>3, MovedAside, Zenon DEF IInv
  <2>2. CallInv(c)' /\ call' \in [Callers -> CallRecord] /\ Others(c)
    BY <1>1, <1>2, <1>3, <2>1, AnsweredCall, Zenon DEF Answers, Outcomes
  <2>3. DesktopTypeOK' /\ SharedInv'
    BY <1>1, <1>3, <2>1, <2>2, ZenonT(30) DEF IInv, DesktopTypeOK, SharedInv, tables
  <2> QED BY <1>1, <1>3, <2>1, <2>2, <2>3, SoleJobStep, Zenon
<1>4. CASE UNCHANGED <<bundles, session, sessionLock>> /\ Replies(c, "storage")
  BY <1>1, <1>4, ReplyStep, TablesUnchanged, Zenon DEF Answers, Outcomes
<1>5. CASE /\ call[c].outcome \notin {"ok", "unwound"} /\ Replies(c, call[c].outcome)
           /\ UNCHANGED <<bundles, session, sessionLock>>
  <2>1. call[c].outcome \notin {"retry_lost", "stopped"}
    BY ZenonT(30) DEF IInv, DesktopTypeOK, CallRecord, Outcomes
  <2> QED BY <1>1, <1>2, <1>5, <2>1, ReplyStep, TablesUnchanged, Zenon
<1>6. CASE /\ Publishes(c) /\ Replies(c, "ok") /\ UNCHANGED bundles /\ sessionLock' = Nobody
           /\ session' = {[project |-> call[c].project, writable |-> TRUE, poisoned |-> FALSE]}
  BY <1>0, <1>1, <1>6, PublishStep, Zenon
<1> QED BY <1>3, <1>4, <1>5, <1>6, Zenon DEF FinishCreate, RetainsBundle

LEMMA FinishOpenStep == ASSUME IInv, NEW c \in Callers, FinishOpen(c) PROVE IInv'
<1>0. Finishing(c, {"Open"}) /\ Finishing(c, {"Create", "Open"})
  BY Zenon DEF FinishOpen, Finishing
<1>1. /\ c \notin jobs' /\ sessionLock # c /\ call[c].cmd = "Open"
      /\ call[c].outcome \in Answers /\ jobs' = jobs \ {c}
      /\ UNCHANGED <<stateLock, cancelled, tables, bundles>>
  BY <1>0, AtFinish, ZenonT(30) DEF FinishOpen
<1>2. CASE Publishes(c) /\ call[c].outcome = "ok"
  BY <1>0, <1>1, <1>2, PublishStep, Zenon DEF FinishOpen
<1>3. CASE ~ (Publishes(c) /\ call[c].outcome = "ok")
  <2>1. PICK answer \in Answers \ {"ok", "retry_lost"} : Replies(c, answer)
    <3>1. call[c].outcome # "retry_lost"
      BY Zenon DEF IInv, DesktopTypeOK, CallRecord, Outcomes
    <3> QED BY <1>1, <1>3, <3>1, Zenon DEF FinishOpen, Answers, Outcomes
  <2>2. UNCHANGED <<session, sessionLock>>
    BY <1>3, Zenon DEF FinishOpen
  <2> QED BY <1>1, <2>1, <2>2, ReplyStep, TablesUnchanged, Zenon
<1> QED BY <1>2, <1>3, Zenon

\* What a handler may answer that reports what its worker left.
LEMMA OutcomeAnswer ==
    ASSUME IInv, NEW c \in Callers
    PROVE  call[c].outcome \in Answers \ {"retry_lost", "stopped"}
<1>1. call[c].outcome \in Outcomes
  BY Zenon DEF IInv, DesktopTypeOK, CallRecord
<1> QED BY <1>1, Zenon DEF Answers, Outcomes

LEMMA FinishSelectStep ==
    ASSUME IInv, NEW c \in Callers, FinishSelectOpen(c) \/ FinishSelectMap(c) PROVE IInv'
<1>1. /\ Finishing(c, Picks) /\ UNCHANGED <<sessionLock, session, bundles>>
  BY Zenon DEF FinishSelectOpen, FinishSelectMap, Finishing, Picks
<1>2. /\ CallInv(c) /\ sessionLock # c /\ call[c].cmd \in Picks /\ call[c].project \in Nat
      /\ jobs' = jobs \ {c} /\ UNCHANGED <<stateLock, cancelled>>
  BY <1>1, AtFinish, Zenon
<1>3. TablesKept
  <2>1. CASE FinishSelectOpen(c)
    <3>1. issued + 1 \in Nat /\ \A p \in DOMAIN bundles : p \in Nat
      BY DEF IInv, DesktopTypeOK
    <3>2. ASSUME NEW p \in DOMAIN bundles
          PROVE  OpenGrantAdded([id |-> issued + 1, path |-> p, old |-> FALSE]) \subseteq OpenGrants
      <4> DEFINE entry == [id |-> issued + 1, path |-> p, old |-> FALSE]
      <4>1. entry \in OpenGrants /\ Fresh(grants) \subseteq OpenGrants
        BY <3>1, Zenon DEF Fresh, OpenGrants, IInv, DesktopTypeOK
      <4> HIDE DEF entry
      <4>2. OpenGrantAdded(entry) \subseteq Fresh(grants) \cup {entry}
        BY Zenon DEF OpenGrantAdded
      <4>3. OpenGrantAdded(entry) \subseteq OpenGrants
        BY <4>1, <4>2, Zenon
      <4> QED BY <4>3, Zenon DEF entry
    <3>3. Fresh(grants) \subseteq OpenGrants /\ grants \subseteq OpenGrants
      BY Zenon DEF Fresh, IInv, DesktopTypeOK
    <3>4. grants' \in SUBSET OpenGrants /\ issued' \in Nat
      BY <2>1, <3>1, <3>2, <3>3, Zenon DEF FinishSelectOpen, IInv, DesktopTypeOK
    <3> QED BY <2>1, <3>4, Zenon DEF FinishSelectOpen, TablesKept, IInv, DesktopTypeOK
  <2>2. CASE FinishSelectMap(c)
    <3>1. [id |-> issued + 1, project |-> call[c].project, old |-> FALSE] \in MapGrant
      BY <1>2 DEF IInv, DesktopTypeOK, MapGrant
    <3>2. Fresh(mapGrants) \subseteq MapGrant /\ issued + 1 \in Nat /\ issued \in Nat
      BY DEF Fresh, IInv, DesktopTypeOK
    <3>3. mapGrants' \in SUBSET MapGrant /\ issued' \in Nat
      BY <2>2, <3>1, <3>2, Zenon DEF FinishSelectMap, IInv, DesktopTypeOK
    <3>4. mapRetries' \in SUBSET mapRetries /\ Fresh(mapRetries') = Fresh(mapRetries)
      BY <2>2, Zenon DEF FinishSelectMap, Fresh
    <3> QED BY <2>2, <3>3, <3>4, Zenon DEF FinishSelectMap, TablesKept, IInv, DesktopTypeOK
  <2> QED BY <2>1, <2>2
<1>4. \E answer \in Answers \ {"retry_lost"} : Replies(c, answer) /\ (cancelled[c] => answer # "ok")
  <2>1. call[c].outcome # "ok"
    BY <1>2, Zenon DEF CallInv, StageInv
  <2> QED BY <2>1, OutcomeAnswer DEF FinishSelectOpen, FinishSelectMap, Publishes, Answers, Outcomes
<1> QED BY <1>1, <1>2, <1>3, <1>4, ReplyStep, Zenon DEF Picks

\* The table had room for this import since it began.
LEMMA FinishImportStep == ASSUME IInv, NEW c \in Callers, FinishImport(c) PROVE IInv'
<1> DEFINE kept == Fresh(mapRetries)
           retry == [id |-> call[c].grant, project |-> call[c].project, old |-> FALSE, bytes |-> TRUE]
<1>1. /\ CallInv(c) /\ c \in jobs /\ c \notin jobs' /\ sessionLock # c /\ call[c].cmd = "Import"
      /\ call[c].at = "Finish" /\ call[c] \in CallRecord /\ jobs' = jobs \ {c}
      /\ UNCHANGED <<stateLock, cancelled, sessionLock, session, grants, mapGrants, issued, bundles>>
  BY AtFinish, Zenon DEF FinishImport
<1>2. CASE call[c].outcome # "retryable"
  <2>1. Replies(c, call[c].outcome) /\ UNCHANGED tables
    BY <1>1, <1>2, Zenon DEF FinishImport, tables
  <2> QED BY <1>1, <2>1, OutcomeAnswer, ReplyStep, TablesUnchanged, Zenon DEF Picks
<1>3. CASE call[c].outcome = "retryable"
  <2>1. /\ IsFiniteSet(kept) /\ Cardinality(kept) \in Nat
        /\ Cardinality(kept) < MAX_MAP_RETRY_ENTRIES /\ kept \subseteq mapRetries
    BY <1>1, FreshFinite, Zenon DEF IInv, SharedInv, CallInv, RetryRoom, AtWork, Fresh
  <2>2. mapRetries' = kept \cup {retry} /\ Replies(c, "retryable")
    BY <1>3, <2>1, DesktopAssumption, SMTT(30) DEF FinishImport
  <2>3. retry \in MapRetry
    BY <1>1, Zenon DEF CallInv, StageInv, CallRecord, MapRetry
  <2>4. Fresh(mapRetries') = mapRetries'
    BY <2>2 DEF Fresh
  <2>5. IsFiniteSet(mapRetries') /\ Cardinality(mapRetries') <= MAX_MAP_RETRY_ENTRIES
    <3> HIDE DEF kept, retry
    <3>1. /\ IsFiniteSet(kept \cup {retry})
          /\ Cardinality(kept \cup {retry}) \in {Cardinality(kept), Cardinality(kept) + 1}
      BY <2>1, FS_AddElement, Zenon
    <3> QED BY <2>1, <2>2, <3>1, DesktopAssumption
  <2>6. CallInv(c)' /\ call' \in [Callers -> CallRecord] /\ Others(c)
    BY <1>1, <2>2, AnsweredCall, Zenon DEF Answers, Outcomes, Picks
  <2>7. DesktopTypeOK'
    BY <1>1, <2>1, <2>2, <2>3, <2>6, Zenon DEF IInv, DesktopTypeOK
  <2>8. SharedInv'
    BY <1>1, <2>4, <2>5, Zenon DEF IInv, SharedInv
  <2> QED BY <1>1, <2>6, <2>7, <2>8, SoleJobStep, Zenon
<1> QED BY <1>2, <1>3, Zenon

LEMMA FinishOtherStep == ASSUME IInv, NEW c \in Callers, FinishOther(c) PROVE IInv'
<1>1. /\ sessionLock # c /\ call[c].cmd \in {"Calibrate", "Current"}
      /\ jobs' = jobs \ {c} /\ UNCHANGED <<stateLock, cancelled>>
  BY AtFinish, Zenon DEF FinishOther
<1> QED BY <1>1, OutcomeAnswer, ReplyStep, TablesUnchanged, Zenon DEF FinishOther, Picks

-----------------------------------------------------------------------------
(* Taking a source, starting, cancelling and expiring                      *)

\* A source is taken from the retries, which makes room, or from the grants
\* when there is room.
LEMMA TakeStep == ASSUME IInv, NEW c \in Callers, Take(c) PROVE IInv'
<1> DEFINE id == call[c].grant
           retained == {r \in Fresh(mapRetries) : r.id = id}
           retry == GrantFor(Fresh(mapRetries), id, call[c].project)
           grant == GrantFor(Fresh(mapGrants), id, call[c].project)
           taken == IF retained # {} THEN retry ELSE IF RoomForRetry THEN grant ELSE {}
<1>1. /\ CallInv(c) /\ call[c].at = "Take" /\ call[c].cmd = "Import" /\ c \in jobs
      /\ sessionLock # c /\ call[c] \in CallRecord
  BY Zenon
     DEF IInv, DesktopTypeOK, CallInv, HasJob, SessionUse, StageInv, Take, At, Admitted, Stages
<1>2. /\ mapRetries' = Fresh(mapRetries) \ taken /\ mapGrants' = Fresh(mapGrants) \ taken
      /\ UNCHANGED <<stateLock, sessionLock, session, jobs, cancelled, grants, issued, bundles>>
      /\ \/ taken = {} /\ Goes(c, "Refused")
         \/ \E e \in taken : call' = [call EXCEPT ![c].at = "Work", ![c].source = e]
  BY Zenon DEF Take, locks
<1>3. /\ mapRetries' \subseteq Fresh(mapRetries) /\ Fresh(mapRetries') = mapRetries'
      /\ mapRetries' \subseteq mapRetries /\ mapGrants' \subseteq MapGrant
  BY <1>2, Zenon DEF Fresh, IInv, DesktopTypeOK
<1>4. \A e \in taken : /\ e \in MapGrant \cup MapRetry /\ e.project = call[c].project
                       /\ e \in Fresh(mapRetries) \/ RoomForRetry
  BY Zenon DEF GrantFor, Fresh, IInv, DesktopTypeOK
<1> HIDE DEF taken
<1>5. CASE taken = {} /\ Goes(c, "Refused")
  <2>1. /\ Carries(c) /\ call'[c].project = call[c].project
        /\ call'[c].at = "Refused" /\ call'[c].outcome = call[c].outcome
    BY <1>5, GoesKeeps, Zenon DEF IInv, Stages
  <2>2. StageInv(call'[c]) /\ CarriedInv(call'[c])
    BY <1>1, <2>1, Zenon DEF CallInv, StageInv, CarriedInv, Carries, UsesSession, Picks, AtWork
  <2>3. TablesKept
    BY <1>2, <1>3, <1>5 DEF TablesKept, IInv, DesktopTypeOK
  <2> QED
    BY <1>1, <1>2, <2>1, <2>2, <2>3, WorkStep, Zenon DEF Admitted, Stages, AtWork
<1>6. ASSUME NEW e \in taken, call' = [call EXCEPT ![c].at = "Work", ![c].source = e]
      PROVE  IInv'
  <2> DEFINE k == [call[c] EXCEPT !.at = "Work", !.source = e]
  <2>1. /\ k \in CallRecord /\ k.at = "Work" /\ k.source = e /\ k.cmd = "Import"
        /\ k.grant = call[c].grant /\ k.project = call[c].project
        /\ k.outcome = call[c].outcome /\ k.reply = call[c].reply
    BY <1>1, <1>4, Zenon DEF CallRecord, Stages
  <2>2. call' = [call EXCEPT ![c] = k]
    BY <1>6, Zenon DEF IInv, DesktopTypeOK
  <2> HIDE DEF k
  <2>3. call'[c] = k /\ call' \in [Callers -> CallRecord] /\ Others(c)
    BY <2>1, <2>2, Zenon DEF IInv, DesktopTypeOK, Others
  <2>4. /\ IsFiniteSet(mapRetries') /\ Cardinality(Fresh(mapRetries')) \in Nat
        /\ Cardinality(Fresh(mapRetries')) < MAX_MAP_RETRY_ENTRIES
    <3>1. /\ IsFiniteSet(Fresh(mapRetries)) /\ Cardinality(Fresh(mapRetries)) \in Nat
          /\ Cardinality(Fresh(mapRetries)) <= MAX_MAP_RETRY_ENTRIES
          /\ IsFiniteSet(mapRetries') /\ Cardinality(mapRetries') \in Nat
          /\ Cardinality(mapRetries') <= Cardinality(Fresh(mapRetries))
      BY <1>3, FreshFinite, Zenon DEF IInv, SharedInv
    <3>2. CASE RoomForRetry
      BY <1>3, <3>1, <3>2, DesktopAssumption DEF RoomForRetry
    <3>3. CASE e \in Fresh(mapRetries)
      <4>1. mapRetries' \subseteq Fresh(mapRetries) \ {e}
        BY <1>2
      <4>2. /\ IsFiniteSet(Fresh(mapRetries) \ {e})
            /\ Cardinality(Fresh(mapRetries) \ {e}) = Cardinality(Fresh(mapRetries)) - 1
        BY <3>1, <3>3, FS_RemoveElement, Zenon
      <4>3. Cardinality(mapRetries') <= Cardinality(Fresh(mapRetries) \ {e})
        BY <4>1, <4>2, FS_Subset, Zenon
      <4> QED BY <1>3, <3>1, <4>2, <4>3, DesktopAssumption
    <3> QED BY <1>4, <3>2, <3>3, Zenon
  <2>5. DesktopTypeOK' /\ SharedInv'
    <3>1. DesktopTypeOK'
      BY <1>2, <1>3, <2>3, <2>4, Zenon DEF IInv, DesktopTypeOK
    <3>2. SharedInv'
      BY <1>2, <1>3, <2>3, <2>4, DesktopAssumption DEF IInv, SharedInv
    <3> QED BY <3>1, <3>2
  <2>6. HasJob(c)' /\ SessionUse(c)' /\ StageInv(call[c])' /\ CarriedInv(call[c])'
    BY <1>1, <1>2, <2>1, <2>3, Zenon DEF CallInv, HasJob, SessionUse, StageInv, CarriedInv,
       Admitted, Stages, AtWork, Picks, UsesSession
  <2>7. BundleInv(call[c])' /\ RetryRoom(call[c])' /\ ReplyInv(c)'
    BY <2>1, <2>3, <2>4, Zenon DEF BundleInv, RetryRoom, ReplyInv, Replied, At
  <2>8. ProjectInv(c)'
    <3>1. Current' = Current /\ call'[c].project = call[c].project /\ call'[c].source = e
      BY <1>2, <2>1, <2>3 DEF Current
    <3> QED BY <1>1, <1>2, <1>4, <3>1, Zenon DEF CallInv, ProjectInv, UsesSession
  <2>9. CallInv(c)'
    BY <2>6, <2>7, <2>8, Zenon DEF CallInv
  <2> QED BY <1>1, <1>2, <2>3, <2>5, <2>9, SoleJobStep
<1> QED BY <1>2, <1>5, <1>6, Zenon

LEMMA UntouchedCall ==
    ASSUME IInv, NEW d \in Callers, call'[d] = call[d], cancelled'[d] = cancelled[d],
           UNCHANGED <<session, jobs, bundles, sessionLock, mapRetries>>
    PROVE  CallInv(d)'
<1>1. Current' = Current /\ Fresh(mapRetries') = Fresh(mapRetries)
  BY Zenon DEF Current, Fresh
<1>2. /\ DesktopTypeOK /\ CallInv(d) /\ Cardinality(Fresh(mapRetries)) \in Nat
      /\ Cardinality(Fresh(mapRetries)) <= Cardinality(Fresh(mapRetries))
  BY FreshFinite, Zenon DEF IInv, SharedInv
<1> QED BY <1>1, <1>2, OtherCall, Zenon

LEMMA StartStep ==
    ASSUME IInv, NEW c \in Callers, NEW cmd \in Commands, NEW g \in 0 .. MaxGrantIds,
           Start(c, cmd, g)
    PROVE  IInv'
<1> DEFINE k == [NoCall EXCEPT !.cmd = cmd, !.at = "Enter", !.grant = g]
<1>1. /\ k \in CallRecord /\ k.cmd = cmd /\ k.at = "Enter" /\ k.grant = g
      /\ k.project = 0 /\ k.source = NoSource /\ k.outcome = "None"
  <2>1. g \in Nat /\ "Enter" \in Stages
    BY DesktopAssumption DEF Stages
  <2> QED BY <2>1, NoCallType, Zenon DEF CallRecord
<1>2. /\ call' = [call EXCEPT ![c] = k] /\ cancelled' = [cancelled EXCEPT ![c] = FALSE]
      /\ UNCHANGED <<stateLock, sessionLock, session, jobs, bundles, grants, mapGrants,
                     mapRetries, issued>>
      /\ call[c].at = "Idle" /\ (cmd = "Import" => g # 0)
  BY Zenon DEF Start, At, locks, tables
<1> HIDE DEF k
<1>3. /\ call'[c] = k /\ call' \in [Callers -> CallRecord] /\ Others(c)
      /\ cancelled' \in [Callers -> BOOLEAN]
      /\ \A d \in Callers : d # c => cancelled'[d] = cancelled[d]
  BY <1>1, <1>2, Zenon DEF IInv, DesktopTypeOK, Others
<1>4. DesktopTypeOK' /\ SharedInv'
  BY <1>2, <1>3, Zenon DEF IInv, DesktopTypeOK, SharedInv
<1>5. HasJob(c)' /\ SessionUse(c)' /\ StageInv(call[c])' /\ CarriedInv(call[c])'
  BY <1>1, <1>2, <1>3, Outside, Zenon DEF HasJob, SessionUse, StageInv, CarriedInv, Admitted
<1>6. BundleInv(call[c])' /\ RetryRoom(call[c])' /\ ReplyInv(c)' /\ ProjectInv(c)'
  BY <1>1, <1>3 DEF BundleInv, RetryRoom, ReplyInv, ProjectInv, Replied, At, AtWork, NoSource
<1>7. ASSUME NEW d \in Callers, d # c PROVE CallInv(d)'
  BY <1>2, <1>3, <1>7, UntouchedCall, Zenon DEF Others
<1> QED BY <1>4, <1>5, <1>6, <1>7, Zenon DEF IInv, CallInv

LEMMA CancelStep == ASSUME IInv, NEW c \in Callers, Cancel(c) PROVE IInv'
<1>1. /\ c \in jobs /\ cancelled' = [cancelled EXCEPT ![c] = TRUE]
      /\ UNCHANGED <<stateLock, sessionLock, session, jobs, bundles, grants, mapGrants,
                     mapRetries, issued, call>>
  BY Zenon DEF Cancel, locks, tables
<1>2. /\ cancelled' \in [Callers -> BOOLEAN]
      /\ \A d \in Callers : d # c => cancelled'[d] = cancelled[d]
  BY <1>1, Zenon DEF IInv, DesktopTypeOK
<1>3. DesktopTypeOK' /\ SharedInv'
  BY <1>1, <1>2, Zenon DEF IInv, DesktopTypeOK, SharedInv
<1>4. CallInv(c)'
  <2>1. CallInv(c) /\ call[c].at \in Admitted /\ Current' = Current
    BY <1>1, Zenon DEF IInv, CallInv, HasJob, Current
  <2>2. HasJob(c)' /\ SessionUse(c)' /\ StageInv(call[c])' /\ CarriedInv(call[c])'
    BY <1>1, <2>1, ZenonT(30) DEF CallInv, HasJob, SessionUse, StageInv, CarriedInv
  <2>3. BundleInv(call[c])' /\ RetryRoom(call[c])' /\ ReplyInv(c)' /\ ProjectInv(c)'
    BY <1>1, <2>1, Zenon
       DEF CallInv, BundleInv, RetryRoom, ReplyInv, ProjectInv, Replied, At, Admitted
  <2> QED BY <2>2, <2>3 DEF CallInv
<1>5. ASSUME NEW d \in Callers, d # c PROVE CallInv(d)'
  BY <1>1, <1>2, <1>5, UntouchedCall, Zenon
<1> QED BY <1>3, <1>4, <1>5, Zenon DEF IInv

\* An entry that grows old leaves room.
LEMMA ExpireStep == ASSUME IInv, Expire PROVE IInv'
<1>1. UNCHANGED <<stateLock, sessionLock, session, jobs, cancelled, issued, bundles, call>>
  BY Zenon DEF Expire, locks
<1>2. /\ mapGrants' \in SUBSET MapGrant /\ grants' \in SUBSET OpenGrants
  <2>1. /\ \A g \in Fresh(mapGrants) : [g EXCEPT !.old = TRUE] \in MapGrant
        /\ \A g \in Fresh(grants) : [g EXCEPT !.old = TRUE] \in OpenGrants
    BY ZenonT(30) DEF Fresh, IInv, DesktopTypeOK, MapGrant, OpenGrants
  <2> QED BY <2>1, Zenon DEF Expire, IInv, DesktopTypeOK
<1>3. /\ mapRetries' \in SUBSET MapRetry /\ IsFiniteSet(mapRetries')
      /\ Fresh(mapRetries') \subseteq Fresh(mapRetries)
  <2>1. CASE UNCHANGED mapRetries
    BY <2>1, Zenon DEF IInv, DesktopTypeOK, SharedInv
  <2>2. ASSUME NEW r \in Fresh(mapRetries),
               mapRetries' = (mapRetries \ {r}) \cup {[r EXCEPT !.old = TRUE]}
        PROVE  /\ mapRetries' \in SUBSET MapRetry /\ IsFiniteSet(mapRetries')
               /\ Fresh(mapRetries') \subseteq Fresh(mapRetries)
    <3> DEFINE o == [r EXCEPT !.old = TRUE]
    <3>1. o \in MapRetry /\ o.old = TRUE /\ mapRetries \subseteq MapRetry
      BY Zenon DEF Fresh, IInv, DesktopTypeOK, MapRetry
    <3> HIDE DEF o
    <3>2. mapRetries' = (mapRetries \ {r}) \cup {o}
      BY <2>2 DEF o
    <3>3. IsFiniteSet(mapRetries \ {r})
      BY FS_Subset, Zenon DEF IInv, SharedInv
    <3>4. IsFiniteSet(mapRetries')
      BY <3>2, <3>3, FS_AddElement, Zenon
    <3> QED BY <3>1, <3>2, <3>4, Zenon DEF Fresh
  <2> QED BY <2>1, <2>2 DEF Expire
<1>4. /\ Cardinality(Fresh(mapRetries')) \in Nat /\ Cardinality(Fresh(mapRetries)) \in Nat
      /\ Cardinality(Fresh(mapRetries')) <= Cardinality(Fresh(mapRetries))
  BY <1>3, FreshFinite, Zenon DEF IInv, SharedInv
<1>5. DesktopTypeOK'
  BY <1>1, <1>2, <1>3, Zenon DEF IInv, DesktopTypeOK
<1>6. SharedInv'
  BY <1>1, <1>3, <1>4, DesktopAssumption, SMTT(30) DEF IInv, SharedInv
<1>7. ASSUME NEW d \in Callers PROVE CallInv(d)'
  <2>1. Current' = Current /\ DesktopTypeOK /\ CallInv(d)
    BY <1>1 DEF IInv, Current
  <2> QED BY <1>1, <1>4, <2>1, OtherCall, Zenon
<1> QED BY <1>5, <1>6, <1>7, Zenon DEF IInv

-----------------------------------------------------------------------------
(* The theorems                                                            *)

LEMMA InitIInv == Init => IInv
<1> SUFFICES ASSUME Init PROVE IInv
  OBVIOUS
<1>1. DesktopTypeOK
  <2>1. bundles \in [1 .. 0 -> {"Live", "Trash"}]
    BY DEF Init
  <2>2. call \in [Callers -> CallRecord]
    BY NoCallType, Zenon DEF Init
  <2> QED BY <2>1, <2>2, Zenon DEF Init, DesktopTypeOK
<1>2. SharedInv
  <2>1. Fresh(mapRetries) = {}
    BY DEF Init, Fresh
  <2> QED BY <2>1, FS_EmptySet, DesktopAssumption DEF Init, SharedInv
<1>3. ASSUME NEW c \in Callers PROVE CallInv(c)
  <2>1. /\ call[c].at = "Idle" /\ call[c].outcome = "None" /\ call[c].source = NoSource
        /\ call[c].project = 0 /\ call[c].cmd = "None" /\ jobs = {} /\ sessionLock # c
    BY NoCallType, NobodyIsNoCaller, Zenon DEF Init
  <2>2. HasJob(c) /\ SessionUse(c) /\ StageInv(call[c]) /\ CarriedInv(call[c])
    BY <2>1, Zenon DEF HasJob, SessionUse, StageInv, CarriedInv, Admitted, Picks
  <2>3. BundleInv(call[c]) /\ RetryRoom(call[c]) /\ ReplyInv(c) /\ ProjectInv(c)
    BY <2>1 DEF BundleInv, RetryRoom, ReplyInv, ProjectInv, Replied, At, Picks, NoSource
  <2> QED BY <2>2, <2>3, Zenon DEF CallInv
<1> QED BY <1>1, <1>2, <1>3 DEF IInv

LEMMA StutterStep == ASSUME IInv, UNCHANGED vars PROVE IInv'
<1>1. DesktopTypeOK' /\ SharedInv'
  BY Zenon DEF vars, IInv, DesktopTypeOK, SharedInv
<1>2. ASSUME NEW d \in Callers PROVE CallInv(d)'
  BY UntouchedCall, Zenon DEF vars
<1> QED BY <1>1, <1>2 DEF IInv

LEMMA NextIInv == IInv /\ [Next]_vars => IInv'
<1> SUFFICES ASSUME IInv, [Next]_vars PROVE IInv'
  OBVIOUS
<1>1. ASSUME NEW c \in Callers, Handler(c) PROVE IInv'
  BY <1>1, AdmitStep, AdmitOpenStep, AdmitQueryStep, LockStateStep, AdmitMapStep, TargetStep,
     RefuseStep, TakeStep, FinishCreateStep, FinishOpenStep, FinishSelectStep, FinishImportStep,
     FinishOtherStep, Zenon
     DEF Handler
<1>2. ASSUME NEW c \in Callers, Worker(c) PROVE IInv'
  BY <1>2, PickStep, CreateBundleStep, CreateEndStep, OpenBundleStep, ReadSourceStep,
     LockSessionStep, ApplyStep, Zenon
     DEF Worker
<1>3. ASSUME NEW c \in Callers, ChildExits(c) \/ Unwind(c) \/ Cancel(c) PROVE IInv'
  BY <1>3, PickStep, UnwindStep, CancelStep, Zenon
<1>4. CASE Next
  BY <1>1, <1>2, <1>3, <1>4, StartStep, ExpireStep, Zenon DEF Next
<1>5. CASE UNCHANGED vars
  BY <1>5, StutterStep
<1> QED BY <1>4, <1>5

LEMMA SpecIInv == Spec => []IInv
BY InitIInv, NextIInv, PTL DEF Spec

(* A create, an open or a selection that was cancelled while its job was   *)
(* admitted never reports success (Publishes, under the state lock).       *)
THEOREM CancellationWins == Spec => []CancelledPublishesNothing
<1>1. IInv => CancelledPublishesNothing
  BY Zenon DEF IInv, CallInv, ReplyInv, CancelledPublishesNothing
<1> QED BY SpecIInv, <1>1, PTL

(* The bundle of a create that answers cancelled or stopped has been moved *)
(* aside (finish_created_project_job), and nothing brings it back.         *)
THEOREM AbandonedBundlesAside == Spec => []AbandonedBundlesRetained
<1>1. IInv => AbandonedBundlesRetained
  BY Zenon DEF IInv, CallInv, BundleInv, AbandonedBundlesRetained, Replied, At
<1> QED BY SpecIInv, <1>1, PTL

(* The retry table has room whenever a failed import comes back to it      *)
(* (retain_map_import_retry), though it was looked at when the import      *)
(* began and any number of commands ran since.                             *)
THEOREM RetriesNeverLost == Spec => []RetryAlwaysRetained
<1>1. IInv => RetryAlwaysRetained
  BY Zenon DEF IInv, CallInv, ReplyInv, RetryAlwaysRetained
<1> QED BY SpecIInv, <1>1, PTL

(* An import works on the session it looked up, and its source was picked  *)
(* for that project: no create or open swaps the session under a job.      *)
THEOREM ImportsInTheirProject == Spec => []ImportsStayInTheirProject
<1>1. IInv => ImportsStayInTheirProject
  BY Zenon DEF IInv, CallInv, ProjectInv, ImportsStayInTheirProject
<1> QED BY SpecIInv, <1>1, PTL
=============================================================================
