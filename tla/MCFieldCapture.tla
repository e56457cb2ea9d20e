--------------------------- MODULE MCFieldCapture ---------------------------
(***************************************************************************)
(* Work in the field, side by side: a behaviour publishes captures, is one *)
(* point survey or one manual path, or acquires observations by an active  *)
(* measurement, a poll of a Kismet server, the import of a Kismet file or  *)
(* a native collector, chosen at the start.                                *)
(***************************************************************************)
EXTENDS MCCapturePublication, Integers, Sequences, TLC

VARIABLES which, phase, started, last, event_last, windows, records, associations,
          anchors, observations,
          pc, cancelled,
          run, schedule, clock, cancellation, execution_start, attempt_started, samples, results,
          path, attempt, elapsed, get_started, wake, response, snapshot, asked,
          file, handle, length, copy, after, imported, receipts, complete, mapping,
          stream, context, session, acquisition

-----------------------------------------------------------------------------
(* Surveys.                                                                *)

Base == [configured |-> TRUE, quality |-> {}, payload |-> "scan", age |-> 0,
         bssid |-> "b1", rssi |-> TRUE, noise |-> FALSE, pose |-> "near", freq |-> "f1"]

Offer(id, captured, dwell) ==
    [id |-> id, captured |-> captured, dwell |-> dwell] @@ Base

\* Two records with dwells that overlap, nest or touch, one without a
\* dwell, and one of each kind that is refused or only partly used.
PointOffers ==
    {Offer("o1", 1, d) : d \in {<<0, 2>>, <<1, 2>>, <<1, 3>>}}
      \cup {Offer("o2", 3, d) : d \in {<<0, 4>>, <<2, 3>>, <<2, 4>>, <<3, 3>>, <<3, 4>>}}
      \cup {[Offer("o3", 2, <<>>) EXCEPT !.pose = "unknown"],
            [Offer("o3", 2, <<1, 3>>) EXCEPT !.quality = {"partial"}],
            [Offer("o3", 2, <<>>) EXCEPT !.quality = {"stale"}],
            [Offer("o3", 2, <<>>) EXCEPT !.pose = "far"],
            [Offer("o3", 2, <<>>) EXCEPT !.bssid = "unknown"],
            [Offer("o3", -1, <<>>) EXCEPT !.quality = {"synthetic"}],
            [Offer("o3", 2, <<>>) EXCEPT !.age = 3]}

P == INSTANCE PointSurvey WITH
       MaxTime <- 4, MAX_RECORDS <- 2, MAX_WINDOWS <- 2,
       Config <- [metrics |-> [rssi |-> 1], channels |-> [f1 |-> 2], mode |-> "scan",
                  capabilities |-> {"nearby_scan"}, pose_policy |-> "manual_anchor",
                  allow_synthetic |-> FALSE, target |-> "any",
                  minimum_active_time |-> 2, maximum_scan_age |-> 2],
       Offers <- PointOffers,
       Responses <- {[returned |-> 3, window |-> <<>>], [returned |-> -1, window |-> <<1, 2>>],
                     [returned |-> 4, window |-> <<2, 4>>], [returned |-> -1, window |-> <<>>]}

Interval(f, a, b, c) == [freq |-> f, start |-> a, end |-> b, complete |-> c]

Spans == {Interval("f1", a, b, TRUE) : a \in 0..3, b \in 1..4}

Proper == {s \in Spans : s.start < s.end}

PathCoverages ==
    {<<>>, <<Interval("f1", 0, 4, FALSE)>>, <<Interval("f2", 0, 4, TRUE)>>}
      \cup {<<s, t>> : s \in Proper, t \in Proper}

M == INSTANCE ManualPath WITH
       MaxTime <- 4, ObservationIds <- {1, 2}, Poses <- {"none", "trusted", "other_frame"},
       Positions <- {0}, Corrections <- {3},
       MAX_PATH_ANCHORS <- 4, MAX_PATH_OBSERVATIONS <- 2,
       MAX_CHANNEL_GAPS <- 2, MAX_CHANNEL_GAP_WORK <- 16, MaximumSpeed <- 1,
       Schedules <- {Interval("f1", 0, 4, TRUE), Interval("f1", 1, 3, TRUE)},
       Coverages <- PathCoverages

-----------------------------------------------------------------------------
(* Active measurement: one or two endpoints, one of them not permitted.    *)

Auth == [user_consent |-> TRUE, tiers |-> {"gateway", "internet"},
         allow_loopback |-> FALSE, allow_link_local |-> TRUE]

Ep(id, tier, address) ==
    [id |-> id, tier |-> tier, target_tier |-> tier, address |-> address, port |-> 80]

RunOf(endpoints, spacing) ==
    [id |-> "run", epoch |-> "e", provenance |-> [epoch |-> "e"], started |-> 10, deadline |-> 13,
     endpoints |-> endpoints, intervals |-> <<>>, authorization |-> Auth,
     limits |-> [samples |-> 4, concurrency |-> 1, timeout |-> 1, duration |-> 3,
                 spacing |-> spacing]]

ActiveRuns ==
    {RunOf(<<Ep(2, "gateway", "private")>>, 1), RunOf(<<Ep(1, "gateway", "loopback")>>, 0)}
      \cup {RunOf(<<Ep(2, "gateway", "link_local_v4"), Ep(1, "internet", "public")>>, s) :
              s \in {0, 1}}

A == INSTANCE ActiveMeasurement WITH
       MAX_ACTIVE_SAMPLES <- 8, MAX_ACTIVE_CONCURRENCY <- 2, MAX_ACTIVE_ENDPOINTS <- 2,
       MAX_ACTIVE_TIMEOUT <- 3, MAX_ACTIVE_DURATION <- 4, MAX_ACTIVE_SPACING <- 2,
       EXACT_FAILURE_BURST_FEASIBILITY_LIMIT <- 12,
       CandidateRuns <- ActiveRuns, Durations <- {2, 3}, Counts <- {1, 3},
       MaxIntervals <- 2, MaxTime <- 3,
       ConnectResults <- {"connected", "refused", "timeout", "cancelled"}

-----------------------------------------------------------------------------
(* Kismet server: good answers with the sources in either order, and one   *)
(* answer of every kind that is refused or retried.                        *)

Entry(key, fields) == [key |-> key, fields |-> fields]
Body(entries) == [status |-> 200, declared |-> 3, sent |-> 3, length |-> 3, io |-> "end",
                  duplicate_key |-> FALSE, depth |-> 1, entries |-> entries]
Status(code) == [Body(<<>>) EXCEPT !.status = code]
Lost(io) == [Status(0) EXCEPT !.io = io]

Faults == {Status(503), Status(429), Lost("transport")}

Refusals(good) ==
    {[good EXCEPT !.sent = 2], [good EXCEPT !.sent = 2, !.declared = -1],
     [good EXCEPT !.sent = 2, !.io = "timed_out"], [good EXCEPT !.io = "timed_out", !.declared = -1],
     [good EXCEPT !.io = "transport", !.declared = -1],
     [good EXCEPT !.declared = 5], [good EXCEPT !.sent = 5, !.declared = -1],
     [good EXCEPT !.duplicate_key = TRUE], [good EXCEPT !.depth = 3],
     Status(401), Status(403), Status(302), Status(404), Lost("deadline_exceeded")}

GoodStatus == Body(<<Entry(5, [server |-> "null"])>>)
One == Entry(1, [channel |-> "good"])
Two == Entry(2, [hop |-> "null", channel |-> "good"])

LiveResponses ==
    [status |-> {GoodStatus, Body(<<Entry(6, <<>>)>>), Body(<<Entry(0, <<>>)>>)}
                  \cup Faults \cup Refusals(GoodStatus),
     types |-> {Body(<<Two, One>>), Body(<<One, One>>), Body(<<One, Two, Entry(3, <<>>)>>)} \cup Faults,
     sources |-> {Body(<<>>), Body(<<Two>>), Body(<<Two, One>>),
                  Body(<<Entry(1, [channel |-> "bad"])>>)} \cup Faults]

L == INSTANCE KismetLive WITH
       Responses <- LiveResponses, SupportedRelease <- 5, MaxEntries <- 2, MaxBody <- 4,
       MaxDepth <- 2, RequestTimeout <- 5, MaxRetries <- 1, RetryBackoff <- 1, MaxTime <- 6

-----------------------------------------------------------------------------
(* Kismet file: three rows of two datasources, read in batches of one, two *)
(* or three.                                                               *)

Row(id, source) == [id |-> id, source |-> source, micros |-> 0, frequency |-> 0,
                    stored |-> 0, captured |-> 1, original |-> -1, error |-> 0,
                    converts |-> TRUE]

Sound == [rows |-> <<Row(-2, 1), [Row(0, 2) EXCEPT !.error = 1],
                     [Row(5, 1) EXCEPT !.frequency = 2412, !.stored = 1]>>,
          sources |-> <<1, 2>>, version |-> 10, sidecar |-> FALSE, regular |-> TRUE,
          ordinary_tables |-> TRUE]

KismetFiles ==
    {Sound, [Sound EXCEPT !.rows = SubSeq(@, 1, 2)], [Sound EXCEPT !.rows = <<>>],
     [Sound EXCEPT !.rows = @ \o <<Row(6, 1), Row(7, 1)>>],
     [Sound EXCEPT !.version = 4], [Sound EXCEPT !.sidecar = TRUE], [Sound EXCEPT !.regular = FALSE],
     [Sound EXCEPT !.ordinary_tables = FALSE], [Sound EXCEPT !.sources = <<1, 1>>],
     [Sound EXCEPT !.sources = <<1>>], [Sound EXCEPT !.rows[2].micros = 1000000],
     [Sound EXCEPT !.rows[3].stored = 2], [Sound EXCEPT !.rows[3].original = 0],
     [Sound EXCEPT !.rows[2].converts = FALSE]}

I == INSTANCE KismetImport WITH
       Files <- KismetFiles, Extra <- Row(9, 1), Mappings <- {{1, 2}, {1}, {1, 2, 3}},
       Batches <- {0, 1, 2, 3, 4}, MAX_BATCH <- 3, MAX_SOURCES <- 2, MAX_ROWS <- 4

-----------------------------------------------------------------------------
(* Native acquisition: no, one or two scan results of two sources.         *)

Scan(key, source, bssid) ==
    [key |-> key, source |-> source, bssid |-> bssid, raw |-> <<"raw", key>>,
     from |-> 1, to |-> 2, time |-> 2, band |-> <<"5_ghz">>, width |-> <<>>]

CapabilitiesOf(available) ==
    <<[available |-> available, services |-> TRUE, authorization |-> "authorized", time |-> 1,
       bands |-> [k \in {1, 2} |-> {k}]]>>

StreamOf(scans, ending, fixture) ==
    [process |-> "p", clock |-> "p", redacted |-> FALSE, fixture |-> fixture,
     capabilities |-> IF ending[1] = "error" THEN <<>> ELSE CapabilitiesOf(scans # <<>>),
     scans |-> scans, terminal |-> ending[1], exit |-> ending[2],
     records |-> <<<<"raw", 0>>>> \o [i \in DOMAIN scans |-> scans[i].raw]]

NativeStreams ==
    {StreamOf(scans, ending, f) :
       scans \in {<<Scan(1, 1, <<"b">>)>>, <<Scan(2, 1, <<>>), Scan(1, 2, <<"b">>)>>},
       ending \in {<<"ok", 0>>, <<"timeout", 124>>, <<"cancelled", 143>>}, f \in BOOLEAN}
      \cup {StreamOf(<<>>, ending, FALSE) : ending \in {<<"ok", 0>>, <<"error", 70>>}}

ObservationRows ==
    [id : {1, 2}, radio : {<<>>, <<"r">>}, bss : {<<>>}, evidence : {<<>>, <<"a">>}]

SourceRow(id) == [id |-> id, sensor |-> <<>>, adapter |-> <<>>]

NativeContexts ==
    {[process |-> "p", session |-> "s", collector |-> "c", epoch |-> "e",
      privacy |-> [identifiers |-> p[1], payload |-> p[2]],
      sources |-> sources, observations |-> listed] :
       p \in {<<"owned_infrastructure", "discarded">>, <<"redacted", "discarded">>},
       sources \in {(1 :> SourceRow(i)) @@ (k :> SourceRow(j)) : i, j \in {1, 2}, k \in {2, 4}}
                     \cup [{1, 2, 3} -> {SourceRow(1)}]
                     \cup [{1} -> [id : {1}, sensor : {<<1>>}, adapter : {<<>>, <<1>>}]],
       listed \in UNION {[keys -> ObservationRows] : keys \in {{}, {1}, {1, 2}}}}

N == INSTANCE NativeAcquisition WITH
       Streams <- NativeStreams, Contexts <- NativeContexts,
       MAX_SESSION_SOURCE_MAPPINGS <- 2, MAX_CAPTURE_OBSERVATIONS <- 2,
       MAX_CAPTURE_SOURCE_RECORDS <- 3, MAX_CAPTURE_SESSION_BYTES <- 14,
       MAX_TEXT_BYTES <- 3, MIN_RECORD_FIXED_BYTES <- 1, TextBytes <- 1, FixedBytes <- 3

-----------------------------------------------------------------------------
captureVars == <<vars, workload>>
pointVars == <<started, last, event_last, windows, records, associations>>
pathVars == <<anchors, observations>>
surveyVars == <<phase, pointVars, pathVars>>
activeVars == <<run, schedule, clock, cancellation, execution_start, attempt_started, samples, results>>
liveVars == <<path, attempt, elapsed, get_started, wake, response, snapshot, asked>>
importVars == <<file, handle, length, copy, after, imported, receipts, complete, mapping>>
nativeVars == <<stream, context, session, acquisition>>
sourceVars == <<pc, cancelled, activeVars, liveVars, importVars, nativeVars>>

\* Nothing is published and nobody calls.
NoCapture == Init /\ workload = {}

NoPoint ==
    /\ started = 0 /\ last = 0 /\ event_last = 0
    /\ windows = <<>> /\ records = <<>> /\ associations = <<>>
NoPath == anchors = <<>> /\ observations = <<>>
NoSurvey == phase = 0 /\ NoPoint /\ NoPath

NoActive ==
    /\ run = 0 /\ schedule = 0 /\ clock = 0 /\ cancellation = 0
    /\ execution_start = 0 /\ attempt_started = 0 /\ samples = 0 /\ results = 0

NoLive ==
    /\ path = 0 /\ attempt = 0 /\ elapsed = 0 /\ get_started = 0
    /\ wake = 0 /\ response = 0 /\ snapshot = 0 /\ asked = 0

NoImport ==
    /\ file = 0 /\ handle = 0 /\ length = 0 /\ copy = 0
    /\ after = 0 /\ imported = 0 /\ receipts = 0 /\ complete = 0
    /\ mapping = 0

NoNative ==
    /\ stream = 0 /\ context = 0 /\ session = 0 /\ acquisition = 0
NoSource == pc = 0 /\ cancelled = 0 /\ NoActive /\ NoLive /\ NoImport /\ NoNative

SurveyInit ==
    \/ which = "point" /\ P!Init /\ started = 0 /\ NoPath
    \/ which = "path" /\ M!Init /\ anchors[1].at = 0 /\ NoPoint

SourceInit ==
    \/ which = "active" /\ A!Init /\ NoLive /\ NoImport /\ NoNative
    \/ which = "live" /\ L!Init /\ NoActive /\ NoImport /\ NoNative
    \/ which = "import" /\ I!Init /\ NoActive /\ NoLive /\ NoNative
    \/ which = "native" /\ N!Init /\ cancelled = FALSE /\ NoActive /\ NoLive /\ NoImport

FieldInit ==
    \/ which = "capture" /\ MCInit /\ NoSurvey /\ NoSource
    \/ SurveyInit /\ NoCapture /\ NoSource
    \/ SourceInit /\ NoCapture /\ NoSurvey

FieldNext ==
    /\ which' = which
    /\ \/ which = "capture" /\ MCNext /\ UNCHANGED <<surveyVars, sourceVars>>
       \/ /\ \/ which = "point" /\ P!Next /\ UNCHANGED pathVars
             \/ which = "path" /\ M!Next /\ UNCHANGED pointVars
          /\ UNCHANGED <<captureVars, sourceVars>>
       \/ /\ \/ which = "active" /\ A!Next /\ UNCHANGED <<liveVars, importVars, nativeVars>>
             \/ which = "live" /\ L!Next /\ UNCHANGED <<activeVars, importVars, nativeVars>>
             \/ which = "import" /\ I!Next /\ UNCHANGED <<activeVars, liveVars, nativeVars>>
             \/ /\ which = "native" /\ N!Next
                /\ UNCHANGED <<cancelled, activeVars, liveVars, importVars>>
          /\ UNCHANGED <<captureVars, surveyVars>>

\* The processes that publish captures are interchangeable.
HandleSymmetry == Permutations(Handles)

FieldSpec == FieldInit /\ [][FieldNext]_<<which, captureVars, surveyVars, sourceVars>>

-----------------------------------------------------------------------------
\* PointSurvey: every reachable point survey passes its own decoder.
SnapshotsReload == which = "point" => P!SnapshotsReload

\* PointSurvey: a completed point has the evidence its configuration asks for.
CompletedMeetsRequirements == which = "point" => P!CompletedMeetsRequirements

\* ManualPath: samples inside a pause are never placed and others always are, and the
\* reported gaps are exactly the uncovered scheduled time (they do not depend on the
\* samples, so paths without samples stand for all).
PathsAreTrue ==
    which = "path" =>
        /\ M!PausesStayUnplaced
        /\ phase = "stopped" /\ observations = <<>> => M!GapsAreTheUncovered

\* ActiveMeasurement: an admitted interval is scheduled within the run.
IntervalsSchedule == which = "active" => A!IntervalsSchedule

\* ActiveMeasurement: every report decodes again.
ReportsReload == which = "active" => A!ReportsReload

\* KismetLive and KismetImport: a poll returns every part, from whole bodies, or nothing,
\* and a finished import is one version of the file.
KismetIsWhole ==
    /\ which = "live" => L!PollIsWhole
    /\ which = "import" => I!ImportIsOneVersion

\* NativeAcquisition: what the adapter normalizes, the composition stores.
SessionsCompose == which = "native" => N!SessionsCompose
=============================================================================
