-------------------------- MODULE CollectorProofs --------------------------
(***************************************************************************)
(* Theorems about CollectorProcess, for any pipe capacity, output limits,  *)
(* records, exit codes and number of troubles: an output that is accepted  *)
(* is whole, and the call never returns before its child is reaped.        *)
(*                                                                         *)
(* The inductive invariant says what each party may conclude from what the *)
(* others left: as long as no overflow flag is up, what was written is     *)
(* what was kept and what the pipe still holds; a reader that ended by     *)
(* itself saw the last writer gone; and a supervisor that terminates or    *)
(* forces anything remembers it until it returns.                          *)
(***************************************************************************)
EXTENDS CollectorProcess, SequenceTheorems, TLAPS

-----------------------------------------------------------------------------
(* The inductive invariant                                                 *)

Written == Records \cup {"data"}
ReaderState == [at : {"Reading", "Sent", "Failed"}, kept : Seq(Written), stopped : BOOLEAN]
Accepting == {"Validate", "Map", "Normalize"}
Causes == {"OutputLimit", "Cancelled", "Timeout", "ProcessIo", "ProcessCleanup"}

ProcessTypeOK ==
    /\ child \in {"NotStarted", "Running", "Zombie", "Reaped"}
    /\ orphan \in [at : {"None", "Running", "Dead"}, group : BOOLEAN, pipes : BOOLEAN]
    /\ pipe \in [Streams -> Seq(Written)] /\ written \in [Streams -> Seq(Written)]
    /\ reader \in [Streams -> ReaderState]
    /\ overflow \in [Streams -> BOOLEAN] /\ received \in [Streams -> BOOLEAN]
    /\ sup \in {"Start", "Poll", "Wait", "Drain", "Returned"} \cup Accepting
    /\ drain \in [forced : BOOLEAN, failed : BOOLEAN] /\ killed \in BOOLEAN
    /\ cause \subseteq Causes

\* Nothing is lost as long as the reader has not raised its flag.
StreamWhole(s) == ~ overflow[s] => written[s] = reader[s].kept \o pipe[s]

\* A reader that reached the end of its pipe saw it empty with no writer left.
EndReached(s) ==
    /\ reader[s].at # "Reading" => child # "NotStarted"
    /\ received[s] => reader[s].at # "Reading"
    /\ reader[s].at = "Sent" /\ ~ reader[s].stopped => pipe[s] = <<>> /\ ~ HoldsPipes

\* What the supervisor knows at each step.
SupervisorInv ==
    /\ child = "NotStarted" => sup \in {"Start", "Returned"}
    /\ sup = "Start" => child = "NotStarted"
    /\ sup = "Returned" => child \in {"NotStarted", "Reaped"}
    /\ sup \in {"Start", "Poll", "Wait"} => ~ killed /\ status = {}
    /\ sup = "Drain" =>
        /\ child = "Reaped" /\ status \in {{}, {code}}
        /\ killed => cause # {} \/ drain.forced
    /\ sup \in Accepting =>
        /\ child = "Reaped" /\ ~ killed /\ status = {code}
        /\ \A s \in Streams : ~ overflow[s] /\ reader[s].at = "Sent" /\ ~ reader[s].stopped
    /\ result = "Ok" => sup = "Returned"

IInv ==
    /\ ProcessTypeOK
    /\ \A s \in Streams : StreamWhole(s) /\ EndReached(s)
    /\ SupervisorInv
    /\ AcceptedIsWhole

LEMMA AppendToConcat ==
    ASSUME NEW k \in Seq(Written), NEW p \in Seq(Written), NEW e \in Written
    PROVE  Append(k \o p, e) = k \o Append(p, e)
<1>1. k \o p \in Seq(Written) /\ <<e>> \in Seq(Written)
  BY ConcatProperties
<1>2. Append(k \o p, e) = (k \o p) \o <<e>> /\ Append(p, e) = p \o <<e>>
  BY <1>1, AppendIsConcat, Zenon
<1>3. (k \o p) \o <<e>> = k \o (p \o <<e>>)
  BY <1>1, ConcatAssociative
<1> QED BY <1>2, <1>3, Zenon

LEMMA InitIInv == CollectorInit => IInv
<1> SUFFICES ASSUME CollectorInit PROVE IInv
  OBVIOUS
<1>1. <<>> \in Seq(Written) /\ <<>> \o <<>> = <<>>
  BY EmptySeq, ConcatEmptySeq
<1>2. NewReader \in ReaderState /\ NewReader.at = "Reading" /\ NewReader.kept = <<>>
  BY <1>1, Zenon DEF NewReader, ReaderState
<1>3. ProcessTypeOK
  BY <1>1, <1>2, Zenon DEF CollectorInit, ProcessTypeOK, NoOrphan, Unreceived, NoDrain
<1>4. \A s \in Streams : StreamWhole(s) /\ EndReached(s)
  BY <1>1, <1>2, Zenon DEF CollectorInit, StreamWhole, EndReached, Unreceived
<1>5. SupervisorInv /\ AcceptedIsWhole
  BY Zenon DEF CollectorInit, SupervisorInv, Accepting, AcceptedIsWhole
<1> QED BY <1>3, <1>4, <1>5 DEF IInv

-----------------------------------------------------------------------------
(* The collector and the outside world                                     *)

\* Writing extends what was written and what the pipe holds alike.
LEMMA WriteStep ==
    ASSUME IInv, NEW s \in Streams, NEW rec \in Written, HoldsPipes, Write(s, rec)
    PROVE  IInv'
<1>1. /\ pipe' = [pipe EXCEPT ![s] = Append(@, rec)]
      /\ written' = [written EXCEPT ![s] = Append(@, rec)]
      /\ UNCHANGED <<child, code, orphan, reader, overflow, sup, status, received, cause, drain,
                     killed, result>>
  BY Zenon DEF Write, flags, local
<1>2. /\ pipe[s] \in Seq(Written) /\ written[s] \in Seq(Written) /\ reader[s].kept \in Seq(Written)
      /\ Append(pipe[s], rec) \in Seq(Written) /\ Append(written[s], rec) \in Seq(Written)
  BY AppendProperties, Zenon DEF IInv, ProcessTypeOK, ReaderState
<1>3. ProcessTypeOK'
  BY <1>1, <1>2 DEF IInv, ProcessTypeOK
<1>4. StreamWhole(s)'
  <2>1. ASSUME ~ overflow[s]
        PROVE  Append(written[s], rec) = reader[s].kept \o Append(pipe[s], rec)
    <3>1. written[s] = reader[s].kept \o pipe[s]
      BY <2>1, Zenon DEF IInv, StreamWhole
    <3>2. Append(reader[s].kept \o pipe[s], rec) = reader[s].kept \o Append(pipe[s], rec)
      BY <1>2, AppendToConcat, ZenonT(30)
    <3> QED BY <3>1, <3>2, Zenon
  <2> QED BY <1>1, <1>2, <2>1, Zenon DEF IInv, ProcessTypeOK, StreamWhole
<1>5. ASSUME NEW t \in Streams, t # s PROVE StreamWhole(t)'
  BY <1>1, <1>5, Zenon DEF IInv, ProcessTypeOK, StreamWhole
<1>6. ASSUME NEW t \in Streams PROVE EndReached(t)'
  BY <1>1, Zenon DEF IInv, ProcessTypeOK, EndReached, HoldsPipes
<1>7. SupervisorInv'
  BY <1>1, Zenon DEF IInv, SupervisorInv
<1>8. AcceptedIsWhole'
  <2>1. ~ (result = "Ok" \/ sup \in {"Map", "Normalize"})
    BY Zenon DEF IInv, AcceptedIsWhole
  <2> QED BY <1>1, <2>1, Zenon DEF AcceptedIsWhole
<1> QED BY <1>3, <1>4, <1>5, <1>6, <1>7, <1>8, Zenon DEF IInv

\* Forking and ending: nobody comes to hold the pipes who was not there.
LEMMA WorldStep ==
    ASSUME IInv, UNCHANGED <<pipe, written, reader, overflow, sup, status, received, cause, drain,
                             killed, result>>,
           \/ UNCHANGED <<child, code, orphan>>
           \/ OrphanExit
           \/ \E c \in Exits : Exit(c)
           \/ \E group, pipes \in BOOLEAN : Fork(group, pipes)
    PROVE  IInv'
<1>1. ProcessTypeOK'
  <2>1. orphan' \in [at : {"None", "Running", "Dead"}, group : BOOLEAN, pipes : BOOLEAN]
    <3>1. ASSUME NEW group \in BOOLEAN, NEW pipes \in BOOLEAN
          PROVE  [at |-> "Running", group |-> group, pipes |-> pipes]
                   \in [at : {"None", "Running", "Dead"}, group : BOOLEAN, pipes : BOOLEAN]
      BY <3>1, Zenon
    <3>2. CASE OrphanExit
      BY <3>2, Zenon DEF IInv, ProcessTypeOK, OrphanExit
    <3>3. CASE ~ OrphanExit
      BY <3>1, <3>3 DEF IInv, ProcessTypeOK, Exit, Fork
    <3> QED BY <3>2, <3>3, Zenon
  <2>2. child' \in {"NotStarted", "Running", "Zombie", "Reaped"}
    BY Zenon DEF IInv, ProcessTypeOK, OrphanExit, Exit, Fork
  <2> QED BY <2>1, <2>2, Zenon DEF IInv, ProcessTypeOK
<1>2. HoldsPipes' => HoldsPipes
  BY Zenon DEF IInv, ProcessTypeOK, OrphanExit, Exit, Fork, HoldsPipes
<1>3. \A s \in Streams : StreamWhole(s)' /\ EndReached(s)'
  BY <1>2, Zenon DEF IInv, StreamWhole, EndReached, OrphanExit, Exit, Fork
<1>4. SupervisorInv'
  BY Zenon DEF IInv, SupervisorInv, OrphanExit, Exit, Fork, Accepting
<1>5. AcceptedIsWhole'
  BY <1>2, Zenon DEF IInv, AcceptedIsWhole, OrphanExit, Exit, Fork
<1> QED BY <1>1, <1>3, <1>4, <1>5, Zenon DEF IInv

-----------------------------------------------------------------------------
(* The readers                                                             *)

\* No reader works when an output was accepted.
LEMMA ReadingEarly ==
    ASSUME IInv, NEW s \in Streams, Reading(s)
    PROVE  /\ sup \notin Accepting /\ result # "Ok" /\ child # "NotStarted"
           /\ reader[s].at = "Reading" /\ reader[s] \in ReaderState
BY Zenon DEF IInv, ProcessTypeOK, SupervisorInv, AcceptedIsWhole, Reading

LEMMA ReaderEndsStep ==
    ASSUME IInv, NEW s \in Streams, Reading(s), NEW at \in {"Sent", "Failed"},
           NEW stopped \in BOOLEAN, ReaderEnds(s, at, stopped),
           at = "Sent" /\ ~ stopped => pipe[s] = <<>> /\ ~ HoldsPipes
    PROVE  IInv'
<1> DEFINE r == [reader[s] EXCEPT !.at = at, !.stopped = stopped]
<1>1. /\ reader' = [reader EXCEPT ![s] = r]
      /\ UNCHANGED <<child, code, orphan, pipe, written, overflow, sup, status, received, cause,
                     drain, killed, result>>
  BY Zenon DEF ReaderEnds, world, flags, local, IInv, ProcessTypeOK
<1>2. r \in ReaderState /\ r.at = at /\ r.stopped = stopped /\ r.kept = reader[s].kept
  BY ReadingEarly, Zenon DEF ReaderState
<1> HIDE DEF r
<1>3. /\ reader' \in [Streams -> ReaderState] /\ reader'[s] = r
      /\ \A t \in Streams : t # s => reader'[t] = reader[t]
  BY <1>1, <1>2, Zenon DEF IInv, ProcessTypeOK
<1>4. ProcessTypeOK'
  BY <1>1, <1>3, SMTT(30) DEF IInv, ProcessTypeOK
<1>5. ASSUME NEW t \in Streams PROVE StreamWhole(t)' /\ EndReached(t)'
  <2>1. HoldsPipes' = HoldsPipes
    BY <1>1, Zenon DEF HoldsPipes
  <2> QED BY <1>1, <1>2, <1>3, <2>1, ReadingEarly, Zenon DEF IInv, StreamWhole, EndReached
<1>6. SupervisorInv' /\ AcceptedIsWhole'
  BY <1>1, ReadingEarly, Zenon DEF IInv, SupervisorInv, AcceptedIsWhole, Accepting
<1> QED BY <1>4, <1>5, <1>6, Zenon DEF IInv

\* A read moves the pipe's records behind those kept, or raises the flag.
LEMMA ReaderReadsStep == ASSUME IInv, NEW s \in Streams, ReaderReads(s) PROVE IInv'
<1> DEFINE room == Limit[s] - Len(reader[s].kept)
           n == IF Len(pipe[s]) < room THEN Len(pipe[s]) ELSE room
           r == [reader[s] EXCEPT !.kept = @ \o SubSeq(pipe[s], 1, n)]
<1>1. /\ Reading(s) /\ pipe' = [pipe EXCEPT ![s] = <<>>] /\ reader' = [reader EXCEPT ![s] = r]
      /\ overflow' = [overflow EXCEPT ![s] = @ \/ n < Len(pipe[s])]
      /\ UNCHANGED <<child, code, orphan, written, sup, status, received, cause, drain, killed, result>>
  BY Zenon DEF ReaderReads, local, IInv, ProcessTypeOK
<1>2. /\ pipe[s] \in Seq(Written) /\ reader[s].kept \in Seq(Written) /\ <<>> \in Seq(Written)
      /\ written[s] \in Seq(Written) /\ Limit[s] \in Nat
  BY EmptySeq, PipesAreBounded, Zenon DEF IInv, ProcessTypeOK, ReaderState
<1>3. n \in Int /\ n <= Len(pipe[s])
  <2>1. Len(pipe[s]) \in Nat /\ Len(reader[s].kept) \in Nat
    BY <1>2, LenProperties, Zenon
  <2> QED BY <1>2, <2>1
<1> HIDE DEF n
<1>4. SubSeq(pipe[s], 1, n) \in Seq(Written)
  BY <1>2, <1>3
<1>5. n = Len(pipe[s]) => SubSeq(pipe[s], 1, n) = pipe[s]
  BY <1>2
<1>6. reader[s].kept \o SubSeq(pipe[s], 1, n) \in Seq(Written)
  BY <1>2, <1>4, ConcatProperties, Zenon
<1>7. /\ r \in ReaderState /\ r.kept = reader[s].kept \o SubSeq(pipe[s], 1, n)
      /\ r.at = "Reading"
  BY <1>1, <1>6, ReadingEarly, Zenon DEF ReaderState
<1> HIDE DEF r
<1>8. ProcessTypeOK'
  <2>1. pipe' \in [Streams -> Seq(Written)] /\ reader' \in [Streams -> ReaderState]
    BY <1>1, <1>2, <1>7, Zenon DEF IInv, ProcessTypeOK
  <2>2. overflow' \in [Streams -> BOOLEAN]
    BY <1>1, Zenon DEF IInv, ProcessTypeOK
  <2> QED BY <1>1, <2>1, <2>2 DEF IInv, ProcessTypeOK
<1>9. StreamWhole(s)'
  <2>1. overflow'[s] = (overflow[s] \/ n < Len(pipe[s]))
    BY <1>1, Zenon DEF IInv, ProcessTypeOK
  <2>2. ASSUME ~ overflow[s], ~ (n < Len(pipe[s])) PROVE written[s] = r.kept \o <<>>
    <3>1. written[s] = reader[s].kept \o pipe[s]
      BY <2>2, Zenon DEF IInv, StreamWhole
    <3>2. Len(pipe[s]) \in Nat
      BY <1>2
    <3>3. n = Len(pipe[s])
      BY <1>3, <2>2, <3>2
    <3>4. r.kept = written[s]
      BY <1>5, <1>7, <3>1, <3>3, Zenon
    <3> QED BY <1>2, <3>4, ConcatEmptySeq, Zenon
  <2>3. pipe'[s] = <<>> /\ reader'[s] = r /\ written'[s] = written[s]
    BY <1>1, Zenon DEF IInv, ProcessTypeOK
  <2> QED BY <2>1, <2>2, <2>3, Zenon DEF StreamWhole
<1>10. ASSUME NEW t \in Streams PROVE /\ t # s => StreamWhole(t)'
                                      /\ EndReached(t)'
  <2>1. /\ t # s => /\ pipe'[t] = pipe[t] /\ reader'[t] = reader[t] /\ overflow'[t] = overflow[t]
                    /\ written'[t] = written[t]
        /\ reader'[s] = r /\ (HoldsPipes' = HoldsPipes) /\ child' = child
    BY <1>1, Zenon DEF IInv, ProcessTypeOK, HoldsPipes
  <2> QED BY <1>1, <1>7, <2>1, ReadingEarly, Zenon DEF IInv, StreamWhole, EndReached
<1>11. SupervisorInv' /\ AcceptedIsWhole'
  BY <1>1, ReadingEarly, Zenon DEF IInv, SupervisorInv, AcceptedIsWhole, Accepting
<1> QED BY <1>8, <1>9, <1>10, <1>11, Zenon DEF IInv

-----------------------------------------------------------------------------
(* The supervisor                                                          *)

\* A call returns what it likes but success before anything is accepted.
LEMMA ReturnsStep ==
    ASSUME IInv, NEW answer, Returns(answer), child \in {"NotStarted", "Reaped"},
           sup # "Returned", answer = "Ok" => sup = "Normalize"
    PROVE  IInv'
<1>1. /\ sup' = "Returned" /\ result' = answer /\ received' = Unreceived /\ drain' = NoDrain
      /\ cause' = {} /\ UNCHANGED <<child, code, orphan, pipe, written, reader, overflow, killed>>
  BY Zenon DEF Returns, world
<1>2. ProcessTypeOK'
  BY <1>1, Zenon DEF IInv, ProcessTypeOK, Unreceived, NoDrain
<1>3. \A s \in Streams : StreamWhole(s)' /\ EndReached(s)'
  BY <1>1, Zenon DEF IInv, StreamWhole, EndReached, HoldsPipes, Unreceived
<1>4. SupervisorInv'
  BY <1>1, Zenon DEF SupervisorInv, Accepting
<1>5. AcceptedIsWhole'
  BY <1>1, Zenon DEF IInv, AcceptedIsWhole, HoldsPipes
<1> QED BY <1>2, <1>3, <1>4, <1>5, Zenon DEF IInv

\* The supervisor goes on, and what the next step relies on holds.
LEMMA GoesStep ==
    ASSUME IInv, NEW to \in {"Poll", "Wait"} \cup Accepting, Goes(to),
           sup \notin {"Start", "Returned"},
           to \in {"Poll", "Wait"} => sup \in {"Poll", "Wait"},
           to \in Accepting =>
               /\ child = "Reaped" /\ ~ killed /\ status = {code}
               /\ \A s \in Streams : ~ overflow[s] /\ reader[s].at = "Sent" /\ ~ reader[s].stopped,
           to \in {"Map", "Normalize"} => code \cap ExitCodes(Last(written["out"])) # {}
    PROVE  IInv'
<1>1. /\ sup' = to
      /\ UNCHANGED <<child, code, orphan, pipe, written, reader, overflow, status, received, cause,
                     drain, killed, result>>
  BY Zenon DEF Goes, world, flags, local
<1>2. ProcessTypeOK'
  BY <1>1, SMTT(30) DEF IInv, ProcessTypeOK
<1>3. \A s \in Streams : StreamWhole(s)' /\ EndReached(s)'
  BY <1>1, Zenon DEF IInv, StreamWhole, EndReached, HoldsPipes
<1>4. SupervisorInv' /\ result # "Ok"
  BY <1>1, Zenon DEF IInv, SupervisorInv, Accepting
<1>5. AcceptedIsWhole'
  <2>1. to \in Accepting => reader["out"].kept = written["out"]
    <3>1. ASSUME to \in Accepting
          PROVE  written["out"] = reader["out"].kept \o pipe["out"] /\ pipe["out"] = <<>>
      BY <3>1, Zenon DEF IInv, StreamWhole, EndReached, Streams
    <3>2. reader["out"].kept \in Seq(Written)
      BY Zenon DEF IInv, ProcessTypeOK, ReaderState, Streams
    <3> QED BY <3>1, <3>2, ConcatEmptySeq, Zenon
  <2>2. to \in Accepting => \A s \in Streams : pipe[s] = <<>> /\ ~ HoldsPipes
    BY Zenon DEF IInv, EndReached
  <2> QED BY <1>1, <1>4, <2>1, <2>2, Zenon DEF AcceptedIsWhole, Accepting, HoldsPipes, Streams
<1> QED BY <1>2, <1>3, <1>4, <1>5, Zenon DEF IInv

\* Killing the group leaves nobody new at the pipes.
LEMMA AfterKill ==
    ASSUME ProcessTypeOK
    PROVE  /\ OrphanAfterKill \in [at : {"None", "Running", "Dead"}, group : BOOLEAN, pipes : BOOLEAN]
           /\ OrphanAfterKill.at = "Running" => OrphanAfterKill = orphan
BY Zenon DEF ProcessTypeOK, OrphanAfterKill

LEMMA TerminateStep ==
    ASSUME IInv, NEW error \in Causes, sup \in {"Poll", "Wait"}, Terminate(error)
    PROVE  IInv'
<1>1. /\ sup' = "Drain" /\ child' = "Reaped" /\ killed' = TRUE /\ cause' # {} /\ cause' \subseteq Causes
      /\ orphan' \in {orphan, OrphanAfterKill}
      /\ UNCHANGED <<pipe, written, reader, overflow, received, status, drain, result>>
  BY Zenon DEF Terminate, Causes
<1>2. ProcessTypeOK'
  BY <1>1, AfterKill, Zenon DEF IInv, ProcessTypeOK
<1>3. HoldsPipes' => HoldsPipes
  BY <1>1, AfterKill, Zenon DEF IInv, HoldsPipes
<1>4. \A s \in Streams : StreamWhole(s)' /\ EndReached(s)'
  BY <1>1, <1>3, Zenon DEF IInv, StreamWhole, EndReached
<1>5. SupervisorInv' /\ AcceptedIsWhole'
  BY <1>1, Zenon DEF IInv, SupervisorInv, AcceptedIsWhole, Accepting
<1> QED BY <1>2, <1>4, <1>5, Zenon DEF IInv

LEMMA StartStep == ASSUME IInv, Start PROVE IInv'
<1>1. /\ sup = "Start" /\ sup' = "Poll" /\ child' = "Running"
      /\ UNCHANGED <<code, orphan, pipe, written, reader, overflow, status, received, cause, drain,
                     killed, result>>
  BY Zenon DEF Start, flags, local
<1>2. ProcessTypeOK' /\ SupervisorInv' /\ AcceptedIsWhole'
  BY <1>1, ZenonT(30) DEF IInv, ProcessTypeOK, SupervisorInv, AcceptedIsWhole, Accepting
<1>3. child = "NotStarted"
  BY <1>1, Zenon DEF IInv, SupervisorInv
<1>4. \A s \in Streams : StreamWhole(s)' /\ EndReached(s)'
  BY <1>1, <1>3, Zenon DEF IInv, StreamWhole, EndReached
<1> QED BY <1>2, <1>4, Zenon DEF IInv

LEMMA PollStep == ASSUME IInv, Poll PROVE IInv'
<1>1. CASE \E error \in {"OutputLimit", "Cancelled", "Timeout"} : Terminate(error)
  BY <1>1, TerminateStep, Zenon DEF Poll, Causes
<1>2. CASE Goes("Wait")
  BY <1>2, GoesStep, Zenon DEF Poll, Accepting
<1> QED BY <1>1, <1>2, Zenon DEF Poll

LEMMA TryWaitStep == ASSUME IInv, TryWait PROVE IInv'
<1>1. CASE Terminate("ProcessIo")
  BY <1>1, TerminateStep, Zenon DEF TryWait, Causes
<1>2. CASE Goes("Poll")
  BY <1>2, GoesStep, Zenon DEF TryWait, Accepting
<1>3. CASE /\ child = "Zombie" /\ child' = "Reaped" /\ status' = {code} /\ sup' = "Drain"
           /\ UNCHANGED <<code, orphan, pipe, written, reader, overflow, received, cause, drain,
                          killed, result>>
  <2>1. sup = "Wait"
    BY Zenon DEF TryWait
  <2>2. ProcessTypeOK' /\ SupervisorInv' /\ AcceptedIsWhole'
    BY <1>3, <2>1, ZenonT(30) DEF IInv, ProcessTypeOK, SupervisorInv, AcceptedIsWhole, Accepting
  <2>3. \A s \in Streams : StreamWhole(s)' /\ EndReached(s)'
    BY <1>3, <2>1, Zenon DEF IInv, StreamWhole, EndReached, HoldsPipes
  <2> QED BY <2>2, <2>3 DEF IInv
<1> QED BY <1>1, <1>2, <1>3, Zenon DEF TryWait, flags

LEMMA ReceiveStep == ASSUME IInv, Receive PROVE IInv'
<1>1. /\ sup = "Drain" /\ received' \in [Streams -> BOOLEAN]
      /\ \A s \in Streams : received'[s] => received[s] \/ reader[s].at # "Reading"
      /\ UNCHANGED <<child, code, orphan, pipe, written, reader, overflow, sup, status, cause, drain,
                     killed, result>>
  BY Zenon DEF Receive, world, flags, IInv, ProcessTypeOK
<1>2. ProcessTypeOK' /\ SupervisorInv' /\ AcceptedIsWhole'
  BY <1>1 DEF IInv, ProcessTypeOK, SupervisorInv, AcceptedIsWhole, Accepting
<1>3. \A s \in Streams : StreamWhole(s)' /\ EndReached(s)'
  BY <1>1, Zenon DEF IInv, StreamWhole, EndReached, HoldsPipes
<1> QED BY <1>2, <1>3 DEF IInv

LEMMA ForceDrainStep == ASSUME IInv, ForceDrain PROVE IInv'
<1>1. /\ sup = "Drain" /\ killed' = TRUE /\ orphan' \in {orphan, OrphanAfterKill}
      /\ UNCHANGED <<child, code, pipe, written, reader, overflow, sup, status, received, cause, result>>
  BY Zenon DEF ForceDrain
<1>2. drain' \in [forced : BOOLEAN, failed : BOOLEAN] /\ drain'.forced
  BY DEF ForceDrain
<1>3. ProcessTypeOK'
  BY <1>1, <1>2, AfterKill, Zenon DEF IInv, ProcessTypeOK
<1>4. HoldsPipes' => HoldsPipes
  BY <1>1, AfterKill, Zenon DEF IInv, HoldsPipes
<1>5. \A s \in Streams : StreamWhole(s)' /\ EndReached(s)'
  BY <1>1, <1>4, Zenon DEF IInv, StreamWhole, EndReached
<1>6. SupervisorInv' /\ AcceptedIsWhole'
  BY <1>1, <1>2, Zenon DEF IInv, SupervisorInv, AcceptedIsWhole, Accepting
<1> QED BY <1>3, <1>5, <1>6, Zenon DEF IInv

\* What is accepted needed no force, and both readers reached the end.
LEMMA DecideStep == ASSUME IInv, Decide \/ DecideLate PROVE IInv'
<1>1. sup = "Drain" /\ child = "Reaped"
  BY Zenon DEF IInv, SupervisorInv, Decide, DecideLate
<1>2. CASE Verdict = "Accepted" /\ Goes("Validate")
  <2>1. /\ cause = {} /\ ~ drain.forced /\ status # {}
        /\ \A s \in Streams : /\ ~ overflow[s] /\ received[s]
                              /\ reader[s].at # "Failed" /\ ~ reader[s].stopped
    <3>1. cause = {}
      <4>1. (CHOOSE e \in cause : TRUE) \in cause \/ cause = {}
        BY Zenon
      <4>2. "Accepted" \notin cause
        BY Zenon DEF IInv, ProcessTypeOK, Causes
      <4> QED BY <1>2, <4>1, <4>2, Zenon DEF Verdict
    <3> QED BY <1>2, <3>1, Zenon DEF Verdict
  <2>2. \A s \in Streams : reader[s].at = "Sent"
    BY <2>1, Zenon DEF IInv, EndReached, ProcessTypeOK, ReaderState
  <2>3. ~ killed /\ status = {code}
    BY <1>1, <2>1, Zenon DEF IInv, SupervisorInv
  <2> QED BY <1>1, <1>2, <2>1, <2>2, <2>3, GoesStep, Zenon DEF Accepting
<1>3. CASE Verdict # "Accepted" /\ Returns(Verdict)
  <2>1. Verdict # "Ok"
    <3>1. (CHOOSE e \in cause : TRUE) \in cause \/ cause = {}
      OBVIOUS
    <3>2. "Ok" \notin cause
      BY DEF IInv, ProcessTypeOK, Causes
    <3> QED BY <3>1, <3>2, Zenon DEF Verdict
  <2> QED BY <1>1, <1>3, <2>1, ReturnsStep, Zenon
<1>4. CASE Returns("ProcessIo")
  BY <1>1, <1>4, ReturnsStep
<1> QED BY <1>2, <1>3, <1>4, Zenon DEF Decide, DecideLate

\* The exit code is compared with the terminal record of the whole output.
LEMMA ValidateStep == ASSUME IInv, Validate PROVE IInv'
<1>1. /\ sup = "Validate" /\ child = "Reaped" /\ ~ killed /\ status = {code}
      /\ \A s \in Streams : ~ overflow[s] /\ reader[s].at = "Sent" /\ ~ reader[s].stopped
  BY Zenon DEF IInv, SupervisorInv, Validate, Accepting
<1>2. CASE \E r \in {"Cancelled", "Decode", "Provenance", "ExitMismatch"} : Returns(r)
  BY <1>1, <1>2, ReturnsStep, Zenon
<1>3. CASE Goes("Map") /\ (UNION status) \cap ExitCodes(Last(reader["out"].kept)) # {}
  <2>1. reader["out"].kept = written["out"]
    <3>1. written["out"] = reader["out"].kept \o pipe["out"] /\ pipe["out"] = <<>>
      BY <1>1, Zenon DEF IInv, StreamWhole, EndReached, Streams
    <3>2. reader["out"].kept \in Seq(Written)
      BY Zenon DEF IInv, ProcessTypeOK, ReaderState, Streams
    <3> QED BY <3>1, <3>2, ConcatEmptySeq, SMTT(30)
  <2>2. UNION status = code
    BY <1>1, Zenon
  <2>3. code \cap ExitCodes(Last(written["out"])) # {}
    BY <1>3, <2>1, <2>2, Zenon
  <2> QED BY <1>1, <1>3, <2>3, GoesStep, Zenon DEF Accepting
<1> QED BY <1>2, <1>3, Zenon DEF Validate

LEMMA LaterSteps == ASSUME IInv, Map \/ Normalize PROVE IInv'
<1>1. /\ sup \in {"Map", "Normalize"} /\ child = "Reaped" /\ ~ killed /\ status = {code}
      /\ \A s \in Streams : ~ overflow[s] /\ reader[s].at = "Sent" /\ ~ reader[s].stopped
  BY Zenon DEF IInv, SupervisorInv, Map, Normalize, Accepting
<1>2. code \cap ExitCodes(Last(written["out"])) # {}
  BY <1>1, Zenon DEF IInv, AcceptedIsWhole
<1>3. CASE Goes("Normalize")
  BY <1>1, <1>2, <1>3, GoesStep, Zenon DEF Accepting
<1>4. CASE \E r \in {"Cancelled", "Mapping", "Adapter"} : Returns(r)
  BY <1>1, <1>4, ReturnsStep, Zenon
<1>5. CASE sup = "Normalize" /\ Returns("Ok")
  BY <1>1, <1>5, ReturnsStep, Zenon
<1> QED BY <1>3, <1>4, <1>5, SMTT(30) DEF Map, Normalize

LEMMA SuperviseStep == ASSUME IInv, Supervise PROVE IInv'
<1>1. CASE StartFails
  <2>1. sup = "Start" /\ child = "NotStarted"
    BY <1>1, Zenon DEF IInv, SupervisorInv, StartFails
  <2> QED BY <1>1, <2>1, ReturnsStep, Zenon DEF StartFails
<1> QED BY <1>1, StartStep, PollStep, TryWaitStep, ReceiveStep, ForceDrainStep, DecideStep,
           ValidateStep, LaterSteps, Zenon DEF Supervise

-----------------------------------------------------------------------------
(* Every step, and the theorems                                            *)

LEMMA CollectStep == ASSUME IInv, Collect PROVE IInv'
<1>1. CASE WriteSome
  <2>1. PICK s \in Streams, rec \in Written : HoldsPipes /\ Write(s, rec)
    BY <1>1, Zenon DEF WriteSome, HoldsPipes, Written, Streams
  <2> QED BY <2>1, WriteStep, Zenon
<1>2. CASE ~ WriteSome
  <2>1. UNCHANGED <<pipe, written, reader, overflow, sup, status, received, cause, drain,
                    killed, result>>
    BY <1>2, Zenon DEF Collect, Fork, Exit, OrphanExit, flags, local
  <2> QED BY <1>2, <2>1, WorldStep, Zenon DEF Collect
<1> QED BY <1>1, <1>2, Zenon

LEMMA ReaderStep ==
    ASSUME IInv, NEW s \in Streams, ReaderRuns(s) \/ ReaderFails(s)
    PROVE  IInv'
<1>1. CASE ReaderStops(s)
  BY <1>1, ReaderEndsStep, Zenon DEF ReaderStops
<1>2. CASE ReaderAtEnd(s)
  BY <1>2, ReaderEndsStep, Zenon DEF ReaderAtEnd
<1>3. CASE ReaderFails(s)
  BY <1>3, ReaderEndsStep, Zenon DEF ReaderFails
<1> QED BY <1>1, <1>2, <1>3, ReaderReadsStep, Zenon DEF ReaderRuns

LEMMA NextIInv == IInv /\ [CollectorNext]_collectorVars => IInv'
<1> SUFFICES ASSUME IInv, [CollectorNext]_collectorVars PROVE IInv'
  BY Zenon
<1>1. CASE Cancel \/ Expire \/ Rest \/ UNCHANGED collectorVars
  <2>1. UNCHANGED <<child, code, orphan, pipe, written, reader, overflow, sup, status, received,
                    cause, drain, killed, result>>
    BY <1>1, Zenon DEF Cancel, Expire, Rest, collectorVars, world, local
  <2> QED BY <2>1, WorldStep, Zenon
<1> QED BY <1>1, CollectStep, ReaderStep, SuperviseStep, Zenon DEF CollectorNext

LEMMA SpecIInv == CollectorSpec => []IInv
BY InitIInv, NextIInv, PTL DEF CollectorSpec

\* An output run_process accepts is whole, whatever the collector writes,
\* forks or leaves behind, and whatever the limits are: nothing ever written
\* to standard output is missing, nobody was killed for it, no writer is
\* left, and the exit code is one its terminal record stands for.
THEOREM AcceptedOutputIsWhole == CollectorSpec => []AcceptedIsWhole
BY SpecIInv, PTL DEF IInv

\* run_process never returns, whether it fails or not, while a child it
\* started runs or is a zombie: every path of termination waits for it.
THEOREM ReturnedChildIsReaped ==
    CollectorSpec => [](sup = "Returned" => child \in {"NotStarted", "Reaped"})
<1>1. IInv => (sup = "Returned" => child \in {"NotStarted", "Reaped"})
  BY Zenon DEF IInv, SupervisorInv
<1> QED BY SpecIInv, <1>1, PTL

=============================================================================
