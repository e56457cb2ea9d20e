-------------------------- MODULE ActiveContracts --------------------------
(***************************************************************************)
(* The records of an active TCP-connect measurement: which endpoints,      *)
(* limits, runs, intervals and samples are admitted, the statistics of a   *)
(* sequence of samples, and what each decoder accepts.                     *)
(*                                                                         *)
(* Times are integers.  An address is its class, since the code looks at   *)
(* octets only to find it.  Timing percentiles are kept in hundredths of a *)
(* time unit, in which the interpolation between two samples is exact.     *)
(***************************************************************************)
EXTENDS Integers, Sequences, FiniteSets, SequencesExt

CONSTANTS MAX_ACTIVE_SAMPLES, MAX_ACTIVE_CONCURRENCY, MAX_ACTIVE_ENDPOINTS,
          MAX_ACTIVE_TIMEOUT, MAX_ACTIVE_DURATION, MAX_ACTIVE_SPACING,
          EXACT_FAILURE_BURST_FEASIBILITY_LIMIT

Known(v) == [known |-> v]
Unknown(reason) == [unknown |-> reason]
IsKnown(e) == "known" \in DOMAIN e

-----------------------------------------------------------------------------
(* Endpoints and authorization                                             *)

NotUnicast == {"unspecified", "multicast", "broadcast"}
LinkLocal == {"link_local_v4", "link_local_v6"}
LocalOnly == {"loopback", "private"} \cup LinkLocal

SocketAddr(address, port) ==
    port # 0 /\ address \notin NotUnicast \cup {"ipv4_mapped", "link_local_v6"}

Endpoint(e) == SocketAddr(e.address, e.port) /\ e.target_tier = e.tier

Authorization(a) == a.tiers # {} /\ Cardinality(a.tiers) <= 4

Permits(a, tier) == a.user_consent /\ tier \in a.tiers

ValidateForAuthorization(e, a) ==
    /\ Permits(a, e.tier)
    /\ e.address \notin NotUnicast
    /\ e.address = "loopback" => a.allow_loopback /\ e.tier \in {"gateway", "lan"}
    /\ e.address \in LinkLocal => a.allow_link_local /\ e.tier \in {"gateway", "lan"}
    /\ e.tier \in {"gateway", "lan"} => e.address \in LocalOnly
    /\ e.tier = "internet" => e.address \notin LocalOnly

-----------------------------------------------------------------------------
(* Limits, runs and intervals                                              *)

Limits(l) ==
    /\ l.samples \in 1..MAX_ACTIVE_SAMPLES
    /\ l.concurrency \in 1..MAX_ACTIVE_CONCURRENCY
    /\ l.timeout \in 1..MAX_ACTIVE_TIMEOUT
    /\ l.duration \in 1..MAX_ACTIVE_DURATION
    /\ l.spacing \in 0..MAX_ACTIVE_SPACING
    /\ l.timeout <= l.duration

NewRun(r) ==
    /\ Len(r.endpoints) \in 1..MAX_ACTIVE_ENDPOINTS
    /\ r.deadline - r.started \in 1..r.limits.duration
    /\ r.provenance.epoch = r.epoch
    /\ \A i, j \in 1..Len(r.endpoints) : r.endpoints[i].id = r.endpoints[j].id => i = j
    /\ \A i \in 1..Len(r.endpoints) :
         ValidateForAuthorization(r.endpoints[i], r.authorization)

\* Samples of the whole run: each interval samples every endpoint.
Scheduled(r, intervals) ==
    FoldLeft(LAMBDA n, iv : n + iv.per_endpoint * Len(r.endpoints), 0, intervals)

\* Time the interval's attempts need when each starts on its slot and the
\* last one runs into its timeout.
Required(r, total) == (total - 1) * r.limits.spacing + r.limits.timeout

NewInterval(r, id, duration, per_endpoint) ==
    [id |-> id, run |-> r.id, start |-> r.started, end |-> r.started + duration,
     epoch |-> r.epoch, per_endpoint |-> per_endpoint, provenance |-> r.provenance]

\* IntervalFits that counts only the new interval against the run's limit.
IntervalFitsAlone(r, id, duration, per_endpoint) ==
    LET total == per_endpoint * Len(r.endpoints) IN
    /\ \A i \in 1..Len(r.intervals) : r.intervals[i].id # id
    /\ duration \in 1..(r.deadline - r.started)
    /\ per_endpoint # 0
    /\ total <= r.limits.samples
    /\ Required(r, total) <= duration

IntervalFits(r, id, duration, per_endpoint) ==
    LET total == per_endpoint * Len(r.endpoints) IN
    /\ \A i \in 1..Len(r.intervals) : r.intervals[i].id # id
    /\ duration \in 1..(r.deadline - r.started)
    /\ per_endpoint # 0
    /\ Scheduled(r, r.intervals) + total <= r.limits.samples
    /\ Required(r, total) <= duration

DecodesInterval(iv) ==
    /\ iv.per_endpoint \in 1..MAX_ACTIVE_SAMPLES
    /\ iv.end > iv.start
    /\ iv.provenance.epoch = iv.epoch

DecodesRun(r) ==
    /\ NewRun(r)
    /\ \A i \in 1..Len(r.intervals) :
         LET iv == r.intervals[i] IN
         /\ DecodesInterval(iv)
         /\ iv.run = r.id /\ iv.epoch = r.epoch
         /\ iv.start >= r.started /\ iv.end <= r.deadline
         /\ iv.provenance = r.provenance
         /\ \A j \in 1..(i - 1) : r.intervals[j].id # iv.id
         /\ Scheduled(r, SubSeq(r.intervals, 1, i)) <= r.limits.samples

-----------------------------------------------------------------------------
(* Samples                                                                 *)

Failures == {"refused", "timeout", "unreachable", "denied", "error"}

NewSample(s) ==
    /\ s.finished >= s.started
    /\ s.timing = CASE s.outcome = "success" -> Known(s.finished - s.started)
                    [] s.outcome = "cancelled" -> Unknown("not_measured")
                    [] s.outcome \in Failures -> Unknown("failed_test")

-----------------------------------------------------------------------------
(* Statistics                                                              *)

\* The value at quantile q percent of a sorted sequence, in hundredths:
\* linear interpolation between the two neighbours of q * (n - 1) / 100.
Interpolated(values, q) ==
    LET position == q * (Len(values) - 1)
        lower == values[position \div 100 + 1]
        upper == values[(position + 99) \div 100 + 1]
    IN lower * 100 + (upper - lower) * (position % 100)

PercentileMillis(values, q, reason) ==
    IF values = <<>> THEN Unknown(reason) ELSE Known(Interpolated(values, q))

MaxMillis(values, reason) ==
    IF values = <<>> THEN Unknown(reason) ELSE Known(100 * Last(values))

PercentileCount(values, q, reason) ==
    IF values = <<>> THEN Unknown(reason)
    ELSE Known((Interpolated(values, q) + 50) \div 100)

MaxCount(values, reason) ==
    IF values = <<>> THEN Unknown(reason) ELSE Known(Last(values))

Sorted(values) == SortSeq(values, <)

\* Tally that forgets to start a new run of failures after a success.
TallyKeepingBurst(samples) ==
    LET step(acc, s) ==
          IF s.outcome \in Failures
          THEN [acc EXCEPT !.failed = @ + 1, !.current = @ + 1]
          ELSE [acc EXCEPT !.timings = IF s.outcome = "success" THEN Append(@, s.timing.known)
                                       ELSE @,
                           !.bursts = IF acc.current > 0 THEN Append(@, acc.current) ELSE @,
                           !.cancelled = @ + (IF s.outcome = "cancelled" THEN 1 ELSE 0)]
    IN FoldLeft(step, [timings |-> <<>>, bursts |-> <<>>, cancelled |-> 0, failed |-> 0,
                       current |-> 0], samples)

\* One pass over the samples: timings of the successes, and the lengths of
\* the runs of consecutive failures.  A success and a cancellation end a run.
Tally(samples) ==
    LET step(acc, s) ==
          IF s.outcome \in Failures
          THEN [acc EXCEPT !.failed = @ + 1, !.current = @ + 1]
          ELSE [timings |-> IF s.outcome = "success" THEN Append(acc.timings, s.timing.known)
                            ELSE acc.timings,
                bursts |-> IF acc.current > 0 THEN Append(acc.bursts, acc.current) ELSE acc.bursts,
                cancelled |-> acc.cancelled + (IF s.outcome = "cancelled" THEN 1 ELSE 0),
                failed |-> acc.failed, current |-> 0]
    IN FoldLeft(step, [timings |-> <<>>, bursts |-> <<>>, cancelled |-> 0, failed |-> 0,
                       current |-> 0], samples)

Statistics(samples) ==
    LET tally == Tally(samples)
        timings == Sorted(tally.timings)
        bursts == Sorted(IF tally.current > 0 THEN Append(tally.bursts, tally.current)
                         ELSE tally.bursts)
        eligible == Len(samples) - tally.cancelled
        no_timing == IF eligible = 0 THEN "not_measured" ELSE "failed_test"
        no_burst == IF bursts = <<>> THEN "not_applicable" ELSE no_timing
    IN [scheduled |-> Len(samples), eligible |-> eligible, cancelled |-> tally.cancelled,
        failure_percent |-> IF eligible = 0 THEN Unknown("not_measured")
                            ELSE Known(<<tally.failed, eligible>>),
        packet_loss |-> Unknown("not_measured"),
        connect |-> [successful |-> Len(timings),
                     p |-> <<PercentileMillis(timings, 50, no_timing),
                             PercentileMillis(timings, 90, no_timing),
                             PercentileMillis(timings, 95, no_timing),
                             PercentileMillis(timings, 99, no_timing),
                             MaxMillis(timings, no_timing)>>],
        bursts |-> [count |-> Len(bursts), failed |-> tally.failed,
                    p |-> <<PercentileCount(bursts, 50, no_burst),
                            PercentileCount(bursts, 90, no_burst),
                            PercentileCount(bursts, 95, no_burst),
                            PercentileCount(bursts, 99, no_burst),
                            MaxCount(bursts, no_burst)>>]]

-----------------------------------------------------------------------------
(* Decoding of statistics, which arrive without the samples                *)

Ordered(p) == \A i \in 1..4 : p[i].known <= p[i + 1].known

\* With two successes the smaller one follows from the median and the
\* maximum, and every percentile from the two.
TwoSuccessesFeasible(p) ==
    LET maximum == p[5].known
        minimum == 2 * p[1].known - maximum
    IN /\ minimum \in 0..maximum
       /\ \A i \in 1..4 :
            100 * p[i].known = 100 * minimum + (maximum - minimum) * <<50, 90, 95, 99>>[i]

DecodesTiming(d) ==
    /\ d.successful <= MAX_ACTIVE_SAMPLES
    /\ IF d.successful = 0
       THEN /\ d.p[1] \in {Unknown("not_measured"), Unknown("failed_test")}
            /\ \A i \in 2..5 : d.p[i] = d.p[1]
       ELSE /\ \A i \in 1..5 : IsKnown(d.p[i])
            /\ Ordered(d.p)
            /\ d.successful = 1 => \A i \in 1..4 : d.p[i] = d.p[i + 1]
            /\ d.successful = 2 => TwoSuccessesFeasible(d.p)

\* Some sorted sequence of count burst lengths with this total has exactly
\* these percentiles.
FailureBurstsFeasible(failed, count, p) ==
    \E v \in [1..count -> 1..failed] :
       /\ \A i \in 1..(count - 1) : v[i] <= v[i + 1]
       /\ FoldFunction(LAMBDA a, b : a + b, 0, v) = failed
       /\ p = <<PercentileCount(v, 50, "na"), PercentileCount(v, 90, "na"),
                PercentileCount(v, 95, "na"), PercentileCount(v, 99, "na"), MaxCount(v, "na")>>

DecodesBursts(d) ==
    /\ d.count <= MAX_ACTIVE_SAMPLES /\ d.failed <= MAX_ACTIVE_SAMPLES
    /\ IF d.count = 0
       THEN d.failed = 0 /\ \A i \in 1..5 : d.p[i] = Unknown("not_applicable")
       ELSE /\ d.failed >= d.count
            /\ \A i \in 1..5 : IsKnown(d.p[i]) /\ d.p[i].known \in 1..d.failed
            /\ Ordered(d.p)
            /\ d.p[5].known >= (d.failed + d.count - 1) \div d.count
            /\ d.p[5].known <= d.failed - (d.count - 1)
            /\ d.count = 1 => \A i \in 1..4 : d.p[i] = d.p[5]
            /\ d.failed = d.count => \A i \in 1..5 : d.p[i] = Known(1)
            /\ d.failed <= EXACT_FAILURE_BURST_FEASIBILITY_LIMIT
                 => FailureBurstsFeasible(d.failed, d.count, d.p)

DecodesStatistics(s) ==
    /\ DecodesTiming(s.connect) /\ DecodesBursts(s.bursts)
    /\ s.scheduled <= MAX_ACTIVE_SAMPLES
    /\ s.cancelled <= s.scheduled /\ s.eligible = s.scheduled - s.cancelled
    /\ s.packet_loss = Unknown("not_measured")
    /\ IF s.eligible = 0
       THEN /\ s.connect.successful = 0 /\ s.bursts.failed = 0 /\ s.bursts.count = 0
            /\ s.failure_percent = Unknown("not_measured")
            /\ s.connect.p[1] = Unknown("not_measured")
       ELSE /\ s.connect.successful + s.bursts.failed = s.eligible
            /\ s.connect.successful = 0 => s.connect.p[1] = Unknown("failed_test")
            /\ s.failure_percent = Known(<<s.bursts.failed, s.eligible>>)

-----------------------------------------------------------------------------
(* The result of one endpoint in one interval                              *)

SamplesMatch(r) ==
    /\ Len(r.samples) \in 1..MAX_ACTIVE_SAMPLES
    /\ \A i \in 1..Len(r.samples) :
         LET s == r.samples[i] IN
         /\ s.endpoint = r.endpoint /\ s.interval = r.interval
         /\ s.ordinal = i - 1
         /\ \A j \in 1..(i - 1) : r.samples[j].id # s.id

ByOrdinal(samples) == SortSeq(samples, LAMBDA a, b : a.ordinal < b.ordinal)

FromSamples(interval, endpoint, samples) ==
    [interval |-> interval, endpoint |-> endpoint, samples |-> ByOrdinal(samples),
     statistics |-> Statistics(ByOrdinal(samples))]

DecodesResult(r) ==
    /\ \A i \in 1..Len(r.samples) : NewSample(r.samples[i])
    /\ SamplesMatch(r)
    /\ DecodesStatistics(r.statistics)
    /\ r.statistics = Statistics(r.samples)
=============================================================================
