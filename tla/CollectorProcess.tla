-------------------------- MODULE CollectorProcess --------------------------
(***************************************************************************)
(* Supervision of a native collector process:                              *)
(* crates/observation-pipeline/src/process.rs.  A supervisor starts the    *)
(* child in its own process group, two reader threads drain its pipes up   *)
(* to a limit, and the supervisor polls the overflow flags, the caller's   *)
(* cancellation, the deadline and the child, drains the readers in bounded *)
(* rounds and decides whether the output can be accepted.                  *)
(*                                                                         *)
(* Standard output is a sequence of records: a hello record (with or       *)
(* without the expected provenance), data, and the terminal record with    *)
(* its status.  Of standard error only the amount matters.  The child may  *)
(* write, fork a descendant that stays in the group or leaves it and that  *)
(* keeps the pipes or closes them, exit, or hang.                          *)
(***************************************************************************)
EXTENDS Integers, Sequences, FiniteSets, SequencesExt

CONSTANTS
    Limit,      \* stream -> records a reader keeps
    MaxWritten, \* stream -> bound on the records written to it
    Capacity,   \* records a pipe holds
    Records,    \* records the collector knows to write
    Exits,      \* ways the child may end: {exit code}, or {} by a signal
    MaxTroubles \* bound on forks, cancellations and read errors in one session

Streams == {"out", "err"}

ASSUME PipesAreBounded ==
    /\ {Limit, MaxWritten} \subseteq [Streams -> Nat]
    /\ Capacity \in Nat \ {0} /\ MaxTroubles \in Nat

ASSUME ExitsAreOptions == \A e \in Exits : e = {} \/ \E c \in 0..255 : e = {c}

VARIABLES
    child,      \* the direct child
    code,       \* Option exit code of the child
    orphan,     \* its descendant
    pipe,       \* stream -> unread records
    written,    \* stream -> all records ever written
    reader,     \* stream -> its reader thread
    overflow,   \* stream -> the flag of its reader
    stop,       \* the readers' stop flag
    cancel,     \* the caller's cancellation
    expired,    \* the deadline has passed
    sup,        \* what the supervisor does next
    round,      \* position in the drain rounds
    received,   \* stream -> the reader's result was received
    status,     \* Option exit status try_wait returned
    cause,      \* Option error that made the supervisor terminate the child
    drain,      \* [forced, failed]: the drain needed force; that force failed
    killed,     \* some process was killed by the supervisor
    result      \* what the call returned

world == <<child, code, orphan, pipe, written>>
flags == <<overflow, stop, cancel, expired>>
local == <<round, received, status, cause, drain>>
collectorVars == <<child, code, orphan, pipe, written, reader, overflow, stop, cancel, expired,
          sup, round, received, status, cause, drain, killed, result>>

Hellos == {"hello", "alien"}
Terminals == {"ok", "partial", "permission_required", "unsupported", "unavailable", "error",
              "timeout", "cancelled"}

NewReader == [at |-> "Reading", kept |-> <<>>, stopped |-> FALSE]
Unreceived == [s \in Streams |-> FALSE]
NoDrain == [forced |-> FALSE, failed |-> FALSE]
NoOrphan == [at |-> "None", group |-> FALSE, pipes |-> FALSE]

CollectorInit ==
    /\ child = "NotStarted" /\ code = {} /\ orphan = NoOrphan
    /\ pipe = [s \in Streams |-> <<>>]
    /\ written = [s \in Streams |-> <<>>]
    /\ reader = [s \in Streams |-> NewReader]
    /\ overflow = [s \in Streams |-> FALSE]
    /\ stop = FALSE /\ cancel = FALSE /\ expired = FALSE
    /\ sup = "Start" /\ round = 1
    /\ received = Unreceived /\ status = {} /\ cause = {} /\ drain = NoDrain
    /\ killed = FALSE
    /\ result = "None"
-----------------------------------------------------------------------------
(* The collector and the outside world.                                    *)

HoldsPipes == child = "Running" \/ (orphan.at = "Running" /\ orphan.pipes)

(* What the child may write next; a descendant adds data to any stream.    *)
Orderly(rec) ==
    IF written["out"] = <<>> THEN rec \in Hellos
    ELSE rec \in {"data"} \cup Terminals /\ Last(written["out"]) \notin Terminals

Write(s, rec) ==
    /\ Len(written[s]) < MaxWritten[s] /\ Len(pipe[s]) < Capacity
    /\ pipe' = [pipe EXCEPT ![s] = Append(@, rec)]
    /\ written' = [written EXCEPT ![s] = Append(@, rec)]
    /\ UNCHANGED <<child, code, orphan, reader, flags, sup, local, killed, result>>

WriteSome ==
    \/ child = "Running" /\ \E rec \in Records : Orderly(rec) /\ Write("out", rec)
    \/ child = "Running" /\ Write("err", "data")
    \/ orphan.at = "Running" /\ orphan.pipes /\ \E s \in Streams : Write(s, "data")

(* What has gone wrong so far, apart from the deadline and the writing.    *)
Troubles ==
    Cardinality({s \in Streams : reader[s].at = "Failed"}
                \cup {t \in {"cancel", "fork"} : IF t = "fork" THEN orphan.at # "None" ELSE cancel})

(* A descendant that left the group and closed the pipes concerns nobody.  *)
Fork(group, pipes) ==
    /\ Troubles < MaxTroubles /\ (group \/ pipes)
    /\ child = "Running" /\ orphan.at = "None"
    /\ orphan' = [at |-> "Running", group |-> group, pipes |-> pipes]
    /\ UNCHANGED <<child, code, pipe, written, reader, flags, sup, local, killed, result>>

Exit(c) ==
    /\ child = "Running"
    /\ child' = "Zombie" /\ code' = c
    /\ UNCHANGED <<orphan, pipe, written, reader, flags, sup, local, killed, result>>

OrphanExit ==
    /\ orphan.at = "Running"
    /\ orphan' = [orphan EXCEPT !.at = "Dead"]
    /\ UNCHANGED <<child, code, pipe, written, reader, flags, sup, local, killed, result>>

Cancel ==
    /\ Troubles < MaxTroubles
    /\ ~ cancel /\ sup # "Returned" /\ cancel' = TRUE
    /\ UNCHANGED <<world, reader, overflow, stop, expired, sup, local, killed, result>>

Expire ==
    /\ ~ expired /\ sup \in {"Poll", "Wait"} /\ expired' = TRUE
    /\ UNCHANGED <<world, reader, overflow, stop, cancel, sup, local, killed, result>>
-----------------------------------------------------------------------------
(* bounded_read_poll, one reader per stream.                               *)

ReaderEnds(s, at, stopped) ==
    /\ reader' = [reader EXCEPT ![s].at = at, ![s].stopped = stopped]
    /\ UNCHANGED <<world, flags, sup, local, killed, result>>

Reading(s) == child # "NotStarted" /\ reader[s].at = "Reading"

ReaderStops(s) == Reading(s) /\ stop /\ ReaderEnds(s, "Sent", TRUE)

ReaderAtEnd(s) == Reading(s) /\ pipe[s] = <<>> /\ ~ HoldsPipes /\ ReaderEnds(s, "Sent", FALSE)

(* poll or read returns an error, and the error is sent.                   *)
ReaderFails(s) == Troubles < MaxTroubles /\ Reading(s) /\ ReaderEnds(s, "Failed", FALSE)

(* A read takes what the pipe holds, keeps what the limit leaves room for  *)
(* and raises the flag when that is less.  It can follow a stop request    *)
(* the thread has not looked at yet.                                       *)
ReaderReads(s) ==
    LET room == Limit[s] - Len(reader[s].kept)
        kept == IF Len(pipe[s]) < room THEN Len(pipe[s]) ELSE room
    IN  /\ Reading(s) /\ pipe[s] # <<>>
        /\ pipe' = [pipe EXCEPT ![s] = <<>>]
        /\ reader' = [reader EXCEPT ![s].kept = @ \o SubSeq(pipe[s], 1, kept)]
        /\ overflow' = [overflow EXCEPT ![s] = @ \/ kept < Len(pipe[s])]
        /\ UNCHANGED <<child, code, orphan, written, stop, cancel, expired, sup, local, killed, result>>

ReaderRuns(s) == ReaderStops(s) \/ ReaderAtEnd(s) \/ ReaderReads(s)
-----------------------------------------------------------------------------
(* run_process, the supervisor.                                            *)

Returns(r) ==
    /\ sup' = "Returned" /\ result' = r
    /\ round' = 1 /\ received' = Unreceived /\ status' = {} /\ cause' = {} /\ drain' = NoDrain
    /\ expired' = FALSE
    /\ UNCHANGED <<world, reader, overflow, stop, cancel, killed>>

(* The path is not trusted, or the child cannot be started.                *)
StartFails ==
    /\ sup = "Start"
    /\ \E r \in {"Trust", "ProcessIo"} : Returns(r)

Start ==
    /\ sup = "Start"
    /\ child' = "Running"
    /\ sup' = "Poll"
    /\ UNCHANGED <<code, orphan, pipe, written, reader, flags, local, killed, result>>

(* SIGKILL to the group: whoever is still in it dies.                      *)
OrphanAfterKill == IF orphan.at = "Running" /\ orphan.group THEN [orphan EXCEPT !.at = "Dead"] ELSE orphan

(* Mutant of Terminate: the child is killed and not waited for.            *)
TerminateUnreaped(error) ==
    /\ stop' = TRUE
    /\ cause' = {error}
    /\ orphan' = OrphanAfterKill
    /\ child' = "Zombie"
    /\ killed' = TRUE
    /\ sup' = "Drain"
    /\ UNCHANGED <<code, pipe, written, reader, overflow, cancel, expired,
                   round, received, status, drain, result>>

(* The stop flag, then terminate_and_reap: the group is signalled, the     *)
(* child killed and waited for.  A failure to signal the group is reported *)
(* in place of the cause; waiting for one's own child does not fail.       *)
Terminate(error) ==
    \E groupFails \in BOOLEAN :
        /\ stop' = TRUE
        /\ cause' = {IF groupFails THEN "ProcessCleanup" ELSE error}
        /\ orphan' = IF groupFails THEN orphan ELSE OrphanAfterKill
        /\ child' = "Reaped"
        /\ code' = IF child = "Running" THEN {} ELSE code
        /\ killed' = TRUE
        /\ sup' = "Drain"
        /\ UNCHANGED <<pipe, written, reader, overflow, cancel, expired,
                       round, received, status, drain, result>>

Goes(to) == sup' = to /\ UNCHANGED <<world, reader, flags, local, killed, result>>

(* Mutant of Poll: only a silent child is timed out.                       *)
PollSilent ==
    LET due == expired /\ written["out"] = <<>>
    IN  /\ sup = "Poll"
        /\ \/ overflow["out"] /\ Terminate("OutputLimit")
           \/ overflow["err"] /\ Terminate("OutputLimit")
           \/ cancel /\ Terminate("Cancelled")
           \/ due /\ Terminate("Timeout")
           \/ ~ (overflow["out"] \/ overflow["err"] \/ cancel \/ due) /\ Goes("Wait")

(* One turn of the loop reads four flags one after the other while others  *)
(* set them, so it may act on any that is set.                             *)
Poll ==
    /\ sup = "Poll"
    /\ \/ overflow["out"] /\ Terminate("OutputLimit")
       \/ overflow["err"] /\ Terminate("OutputLimit")
       \/ cancel /\ Terminate("Cancelled")
       \/ expired /\ Terminate("Timeout")
       \/ ~ (overflow["out"] \/ overflow["err"] \/ cancel \/ expired) /\ Goes("Wait")

(* try_wait.                                                               *)
TryWait ==
    /\ sup = "Wait"
    /\ \/ Terminate("ProcessIo")
       \/ child = "Running" /\ Goes("Poll")
       \/ /\ child = "Zombie"
          /\ child' = "Reaped"
          /\ status' = {code}
          /\ sup' = "Drain"
          /\ UNCHANGED <<code, orphan, pipe, written, reader, flags,
                         round, received, cause, drain, killed, result>>
-----------------------------------------------------------------------------
(* The readers are received from in rounds, standard output first.  After  *)
(* the first, the missing ones are stopped and the group is killed; the    *)
(* three windows that follow it differ in nothing and make one round.      *)

Rounds == 4
StreamAt(k) == IF k % 2 = 1 THEN "out" ELSE "err"

(* recv_timeout returns a result that was sent, or nothing in time.        *)
Receive ==
    LET s == StreamAt(round)
    IN  /\ sup = "Drain" /\ round <= Rounds
        /\ round = 3 => (drain.forced \/ received = [t \in Streams |-> TRUE])
        /\ \/ received[s] /\ UNCHANGED received
           \/ ~ received[s] /\ reader[s].at \in {"Sent", "Failed"} /\ received' = [received EXCEPT ![s] = TRUE]
           \/ ~ received[s] /\ reader[s].at = "Reading" /\ UNCHANGED received
        /\ round' = round + 1
        /\ UNCHANGED <<world, reader, flags, sup, status, cause, drain, killed, result>>

ForceDrain ==
    /\ sup = "Drain" /\ round = 3 /\ ~ drain.forced
    /\ \E s \in Streams : ~ received[s]
    /\ stop' = TRUE
    /\ \E fails \in BOOLEAN :
        /\ drain' = [forced |-> TRUE, failed |-> fails]
        /\ orphan' = IF fails THEN orphan ELSE OrphanAfterKill
    /\ killed' = TRUE
    /\ UNCHANGED <<child, code, pipe, written, reader, overflow, cancel, expired,
                   sup, round, received, status, cause, result>>

(* join_reader does not wait for a reader that has not answered and runs.  *)
Unjoinable(s) == ~ received[s] /\ reader[s].at = "Reading"

(* Mutant of Verdict: the flags are looked at in the loop only.            *)
VerdictWithoutFlags ==
    IF \E s \in Streams : Unjoinable(s) THEN "ProcessIo"
    ELSE IF cause # {} THEN CHOOSE e \in cause : TRUE
    ELSE IF drain.failed THEN "ProcessCleanup"
    ELSE IF drain.forced THEN "ProcessIo"
    ELSE IF \E s \in Streams : ~ received[s] \/ reader[s].at = "Failed" THEN "ProcessIo"
    ELSE IF \E s \in Streams : reader[s].stopped THEN "ProcessIo"
    ELSE IF status = {} THEN "ProcessIo"
    ELSE IF status = {{}} THEN "NoExitCode"
    ELSE "Accepted"

(* The order in which run_process looks at what happened.                  *)
Verdict ==
    IF \E s \in Streams : Unjoinable(s) THEN "ProcessIo"
    ELSE IF cause # {} THEN CHOOSE e \in cause : TRUE
    ELSE IF drain.failed THEN "ProcessCleanup"
    ELSE IF drain.forced THEN "ProcessIo"
    ELSE IF \E s \in Streams : overflow[s] THEN "OutputLimit"
    ELSE IF \E s \in Streams : ~ received[s] \/ reader[s].at = "Failed" THEN "ProcessIo"
    ELSE IF \E s \in Streams : reader[s].stopped THEN "ProcessIo"
    ELSE IF status = {} THEN "ProcessIo"
    ELSE IF status = {{}} THEN "NoExitCode"
    ELSE "Accepted"

Decide ==
    /\ sup = "Drain" /\ round > Rounds
    /\ IF Verdict = "Accepted" THEN Goes("Validate") ELSE Returns(Verdict)

(* A result sent after the last window: the thread may still be running    *)
(* when it is asked.                                                       *)
DecideLate ==
    /\ sup = "Drain" /\ round > Rounds
    /\ \E s \in Streams : ~ received[s]
    /\ Returns("ProcessIo")
-----------------------------------------------------------------------------
(* validate_process_output and run_and_normalize.                          *)

(* The closed pairing of terminal status and exit code.                    *)
ExitCodes(terminal) ==
    CASE terminal = "ok" -> {0}
      [] terminal = "partial" -> {2}
      [] terminal = "permission_required" -> {77}
      [] terminal \in {"unsupported", "unavailable"} -> {69}
      [] terminal = "error" -> {70}
      [] terminal = "timeout" -> {124}
      [] terminal = "cancelled" -> {130, 143}

(* decode: a hello record, then data, then one terminal record.            *)
Decodes(recs) ==
    /\ Len(recs) >= 2
    /\ Head(recs) \in Hellos
    /\ Last(recs) \in Terminals
    /\ \A i \in 2..Len(recs) - 1 : recs[i] = "data"

Validate ==
    LET recs == reader["out"].kept
    IN  /\ sup = "Validate"
        /\ IF cancel THEN Returns("Cancelled")
           ELSE IF ~ Decodes(recs) THEN Returns("Decode")
           ELSE IF Head(recs) # "hello" THEN Returns("Provenance")
           ELSE IF (UNION status) \cap ExitCodes(Last(recs)) = {} THEN Returns("ExitMismatch")
           ELSE Goes("Map")

(* The mapping callback may reject the stream, and so may normalize.       *)
Map ==
    /\ sup = "Map"
    /\ IF cancel THEN Returns("Cancelled")
       ELSE Returns("Mapping") \/ Goes("Normalize")

Normalize ==
    /\ sup = "Normalize"
    /\ IF cancel THEN Returns("Cancelled")
       ELSE Returns("Adapter") \/ Returns("Ok")

Rest == sup = "Returned" /\ UNCHANGED collectorVars

Supervise ==
    \/ StartFails \/ Start
    \/ Poll \/ TryWait
    \/ Receive \/ ForceDrain \/ Decide \/ DecideLate
    \/ Validate \/ Map \/ Normalize

(* What the collector does is followed until the call has returned.        *)
Collect ==
    /\ sup # "Returned"
    /\ \/ WriteSome
       \/ \E group, pipes \in BOOLEAN : Fork(group, pipes)
       \/ \E c \in Exits : Exit(c)
       \/ OrphanExit

CollectorNext == Collect \/ Cancel \/ Expire \/ (\E s \in Streams : ReaderRuns(s) \/ ReaderFails(s)) \/ Supervise \/ Rest

CollectorSpec == CollectorInit /\ [][CollectorNext]_collectorVars

(* Time passes, and the threads of this process run.  Nothing is assumed   *)
(* of the collector: it may hang, flood or ignore its pipes.               *)
CollectorFairness ==
    /\ WF_collectorVars(Expire)
    /\ WF_collectorVars(Supervise)
    /\ \A s \in Streams : WF_collectorVars(ReaderRuns(s))

CollectorFairSpec == CollectorSpec /\ CollectorFairness
-----------------------------------------------------------------------------
(* A stream that is accepted is whole: it holds every record ever written  *)
(* to standard output, in order, nothing was cut off at a limit, nobody    *)
(* who could still write was killed or is left, and the child ended by     *)
(* itself with the code its terminal record stands for.                    *)
AcceptedIsWhole ==
    (result = "Ok" \/ sup \in {"Map", "Normalize"}) =>
        /\ reader["out"].kept = written["out"]
        /\ \A s \in Streams : ~ overflow[s] /\ pipe[s] = <<>> /\ reader[s].at = "Sent"
        /\ child = "Reaped" /\ ~ killed /\ ~ HoldsPipes
        /\ code \cap ExitCodes(Last(written["out"])) # {}

(* Whatever the collector does, the call returns and leaves nothing        *)
(* behind: the child it started has been reaped, and no reader thread      *)
(* stays blocked, even when a descendant outside the group keeps the pipe  *)
(* open.                                                                   *)
SessionEnds ==
    <>[](/\ sup = "Returned"
         /\ child \in {"NotStarted", "Reaped"}
         /\ child = "Reaped" => \A s \in Streams : reader[s].at # "Reading")
=============================================================================
