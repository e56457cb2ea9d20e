------------------------- MODULE ActiveMeasurement -------------------------
(***************************************************************************)
(* One active run: intervals are created, one of them is scheduled and     *)
(* executed sample by sample while time passes and the user may cancel.    *)
(*                                                                         *)
(* The executor reads its clock and polls the cancellation at several      *)
(* points of one sample; each stretch between two of them is an action, so *)
(* time and cancellation can fall between any two.  The clock never moves  *)
(* backwards (the port's contract), so the ClockRegression returns are     *)
(* unreachable here.                                                       *)
(***************************************************************************)
EXTENDS ActiveContracts

CONSTANTS CandidateRuns,      \* what a caller may ask for
          Durations, Counts,  \* of an interval
          MaxIntervals, MaxTime, ConnectResults

VARIABLES run, schedule, clock, cancellation,
          pc, execution_start, cancelled, attempt_started, samples, results

vars == <<run, schedule, clock, cancellation, pc, execution_start, cancelled,
          attempt_started, samples, results>>

NoSchedule == [samples |-> <<>>]

Init ==
    /\ run \in {r \in CandidateRuns : /\ Limits(r.limits) /\ Authorization(r.authorization)
                                      /\ \A i \in 1..Len(r.endpoints) : Endpoint(r.endpoints[i])
                                      /\ NewRun(r)}
    /\ schedule = NoSchedule
    /\ clock = 0 /\ cancellation = FALSE
    /\ pc = "planning" /\ execution_start = 0 /\ cancelled = FALSE /\ attempt_started = 0
    /\ samples = <<>> /\ results = <<>>

executor == <<execution_start, cancelled, attempt_started, samples, results>>

CreateInterval ==
    /\ pc = "planning" /\ Len(run.intervals) < MaxIntervals
    /\ \E id \in 1..MaxIntervals, duration \in Durations, n \in Counts :
         /\ IntervalFits(run, id, duration, n)
         /\ run' = [run EXCEPT !.intervals = Append(@, NewInterval(run, id, duration, n))]
    /\ UNCHANGED <<schedule, clock, cancellation, pc, executor>>

-----------------------------------------------------------------------------
(* Scheduling                                                              *)

\* The admission of build_schedule, which does not rely on create_interval.
Schedulable(r, iv) ==
    LET total == Len(r.endpoints) * iv.per_endpoint IN
    /\ r.id = iv.run /\ iv.epoch = r.epoch
    /\ iv.start >= r.started /\ iv.end <= r.deadline
    /\ iv.provenance = r.provenance
    /\ total <= r.limits.samples /\ total <= MAX_ACTIVE_SAMPLES
    /\ Required(r, total) <= iv.end - iv.start
    /\ \E i \in 1..Len(r.intervals) : r.intervals[i] = iv

\* Every endpoint in id order, every ordinal of it, one spacing apart.  A
\* sample's id is a hash of its run, interval, endpoint and ordinal.
BuildSchedule(r, iv) ==
    LET endpoints == SortSeq(r.endpoints, LAMBDA a, b : a.id < b.id)
        slot(k) == [id |-> <<iv.id, endpoints[k \div iv.per_endpoint + 1].id, k % iv.per_endpoint>>,
                    endpoint |-> endpoints[k \div iv.per_endpoint + 1].id,
                    ordinal |-> k % iv.per_endpoint,
                    offset |-> k * r.limits.spacing]
    IN [interval |-> iv, run |-> r,
        samples |-> [k \in 1..(Len(endpoints) * iv.per_endpoint) |-> slot(k - 1)]]

Plan ==
    /\ pc = "planning"
    /\ \E i \in 1..Len(run.intervals) :
         /\ Schedulable(run, run.intervals[i])
         /\ schedule' = BuildSchedule(run, run.intervals[i])
    /\ UNCHANGED <<run, clock, cancellation, pc, executor>>

-----------------------------------------------------------------------------
(* Execution                                                               *)

Duration == schedule.interval.end - schedule.interval.start
Deadline == execution_start + Duration
Slot == schedule.samples[Len(samples) + 1]
Stamp(now) == schedule.interval.start + (now - execution_start)

\* The schedule is built again: one taken before a later interval was
\* registered no longer matches.
Execute ==
    /\ pc = "planning" /\ schedule # NoSchedule
    /\ LET iv == schedule.interval IN
       IF Schedulable(run, iv) /\ schedule = BuildSchedule(run, iv)
       THEN pc' = "loop" /\ execution_start' = clock
       ELSE pc' = "mismatch" /\ UNCHANGED execution_start
    /\ UNCHANGED <<run, schedule, clock, cancellation, cancelled, attempt_started, samples, results>>

\* The sample of the current slot; a cancelled one makes the rest cancelled.
Record(from, to, outcome, timing) ==
    LET s == [id |-> Slot.id, interval |-> schedule.interval.id, endpoint |-> Slot.endpoint,
              ordinal |-> Slot.ordinal, started |-> Stamp(from), finished |-> Stamp(to),
              outcome |-> outcome, timing |-> timing]
    IN /\ samples' = IF NewSample(s) THEN Append(samples, s) ELSE samples
       /\ pc' = IF NewSample(s) THEN "loop" ELSE "invalid"
       /\ cancelled' = (cancelled \/ outcome = "cancelled")

CancellationSample(at) == Record(at, at, "cancelled", Unknown("not_measured"))
TimeoutSample(at) == Record(at, at, "timeout", Unknown("failed_test"))

Attempt(from) == pc' = "attempt" /\ attempt_started' = from /\ UNCHANGED <<samples, cancelled>>

\* The head of the loop: the slot is cancelled, waited for, late or due.
NextSample ==
    /\ pc = "loop" /\ Len(samples) < Len(schedule.samples)
    /\ \/ /\ cancelled \/ cancellation
          /\ CancellationSample(clock) /\ UNCHANGED attempt_started
       \/ /\ ~ cancelled /\ ~ cancellation
          /\ \/ /\ clock < execution_start + Slot.offset
                /\ pc' = "sleep" /\ UNCHANGED <<samples, cancelled, attempt_started>>
             \/ /\ clock >= execution_start + Slot.offset /\ clock >= Deadline
                /\ TimeoutSample(clock) /\ UNCHANGED attempt_started
             \/ /\ clock >= execution_start + Slot.offset /\ clock < Deadline
                /\ Attempt(clock)
    /\ UNCHANGED <<run, schedule, clock, cancellation, execution_start, results>>

\* sleep_for sleeps for at most the given time: it may return before the slot
\* is due, or late, or because it polled the cancellation; nothing is asked
\* again before the attempt.
Wake ==
    /\ pc = "sleep"
    /\ \/ /\ cancellation
          /\ CancellationSample(clock) /\ UNCHANGED attempt_started
       \/ ~ cancellation /\ Attempt(clock)
    /\ UNCHANGED <<run, schedule, clock, cancellation, execution_start, results>>

\* execute_one up to the connector call, with the clock value read before it.
StartAttempt ==
    /\ pc = "attempt"
    /\ \/ attempt_started >= Deadline /\ TimeoutSample(attempt_started)
       \/ attempt_started < Deadline /\ cancellation /\ CancellationSample(attempt_started)
       \/ /\ attempt_started < Deadline /\ ~ cancellation
          /\ pc' = "connecting" /\ UNCHANGED <<samples, cancelled>>
    /\ UNCHANGED <<run, schedule, clock, cancellation, execution_start, attempt_started, results>>

OutcomeAndTiming(result, from, to) ==
    LET outcome == IF to >= Deadline THEN "timeout"
                   ELSE IF result = "connected" THEN "success" ELSE result
    IN Record(from, to, outcome,
              CASE outcome = "success" -> Known(to - from)
                [] outcome = "cancelled" -> Unknown("not_measured")
                [] OTHER -> Unknown("failed_test"))

\* What the connector can answer now: its own timeout only after the
\* smaller of the attempt's timeout and the time left, a cancellation only
\* when it polled one, anything else when the socket reports it.
Answers ==
    {a \in ConnectResults :
       /\ a = "cancelled" => cancellation
       /\ a = "timeout" => clock - attempt_started
                             >= Min({run.limits.timeout, Deadline - attempt_started})}

FinishAttempt ==
    /\ pc = "connecting"
    /\ \E result \in Answers :
         OutcomeAndTiming(IF cancellation THEN "cancelled" ELSE result, attempt_started, clock)
    /\ UNCHANGED <<run, schedule, clock, cancellation, execution_start, attempt_started, results>>

SamplesOf(id) == SelectSeq(samples, LAMBDA s : s.endpoint = id)

Report ==
    /\ pc = "loop" /\ Len(samples) = Len(schedule.samples)
    /\ LET ids == SortSeq([i \in 1..Len(run.endpoints) |-> run.endpoints[i].id], <)
           all == [i \in 1..Len(ids) |->
                     FromSamples(schedule.interval.id, ids[i], SamplesOf(ids[i]))]
       IN IF \A i \in 1..Len(all) : SamplesMatch(all[i])
          THEN pc' = "done" /\ results' = all
          ELSE pc' = "invalid" /\ UNCHANGED results
    /\ UNCHANGED <<run, schedule, clock, cancellation, execution_start, cancelled,
                   attempt_started, samples>>

-----------------------------------------------------------------------------
(* The environment                                                         *)

Tick ==
    /\ pc \in {"loop", "sleep", "attempt", "connecting"} /\ clock < MaxTime
    /\ clock' = clock + 1
    /\ UNCHANGED <<run, schedule, cancellation, pc, executor>>

Cancel ==
    /\ pc \notin {"done", "mismatch", "invalid"} /\ ~ cancellation
    /\ cancellation' = TRUE
    /\ UNCHANGED <<run, schedule, clock, pc, executor>>

Next ==
    \/ CreateInterval \/ Plan \/ Execute \/ NextSample \/ Wake \/ StartAttempt
    \/ FinishAttempt \/ Report \/ Tick \/ Cancel

Spec == Init /\ [][Next]_vars

-----------------------------------------------------------------------------
(* Properties                                                              *)

\* What create_interval admits is what every later reader admits: the run
\* with its intervals decodes again, and each of its intervals can be
\* scheduled, however many were registered before it.
IntervalsSchedule ==
    /\ DecodesRun(run)
    /\ \A i \in 1..Len(run.intervals) : Schedulable(run, run.intervals[i])

\* An execution never fails on its own samples: whatever times out and
\* whenever the user cancels, the report has one sample for every scheduled
\* slot, every result with its statistics passes the decoders, which do not
\* see how it was computed, the cancelled samples are the last ones, and
\* nothing is reported as measured at or after the deadline.
ReportsReload ==
    /\ pc # "invalid"
    /\ pc = "done" =>
         /\ \A i \in 1..Len(results) :
              /\ DecodesResult(results[i])
              /\ Len(results[i].samples) = schedule.interval.per_endpoint
         /\ \A i, j \in 1..Len(samples) :
              i < j /\ samples[i].outcome = "cancelled" => samples[j].outcome = "cancelled"
         /\ \A i \in 1..Len(samples) :
              samples[i].outcome = "success" => samples[i].finished < schedule.interval.end
=============================================================================
