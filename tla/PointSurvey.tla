---------------------------- MODULE PointSurvey ----------------------------
(***************************************************************************)
(* A point survey: the operator stands on one point, and evidence counts   *)
(* only while a window is open (crates/survey: state.rs, association.rs,   *)
(* config.rs, state/wire.rs).  Every operation returns a new state or an   *)
(* error that leaves the old one, so a refused call is no step.            *)
(*                                                                         *)
(* Time is source-local nanoseconds, here 0..MaxTime.  An observation is   *)
(* abstracted to what admission tells apart: whether session and source    *)
(* are the configured ones, the classes of its quality flags, its capture  *)
(* time, dwell, payload kind, scan age, transmitter, which signal values   *)
(* are known and how its pose compares with the anchor.                    *)
(***************************************************************************)
EXTENDS Integers, SequencesExt

CONSTANTS
    MaxTime,        \* bound on the clock
    MAX_RECORDS, MAX_WINDOWS,
    Config,         \* the point's requirements, see ConfigOK
    Offers,         \* observations a source may deliver
    Responses       \* source response timings an API result may carry

VARIABLES phase, started, last, event_last, windows, records, associations

vars == <<phase, started, last, event_last, windows, records, associations>>

None == -1          \* an absent time: an open end, an unknown stamp
Time == 0..MaxTime

Bad(q) == q \cap {"stale", "contradictory"} # {}
Contradictory(q) == "contradictory" \in q
IncompleteDwell(q) == "partial" \in q

\* What ObservationEnvelope's constructor guarantees of a dwell window.
Envelope(o) ==
    o.dwell # <<>> /\ o.captured # None => o.dwell[1] <= o.captured /\ o.captured <= o.dwell[2]

Observations == {o \in Offers : Envelope(o)}

ConfigOK ==
    /\ "rssi" \in DOMAIN Config.metrics
    /\ \A k \in DOMAIN Config.metrics : Config.metrics[k] \in 1..MAX_RECORDS
    /\ \A f \in DOMAIN Config.channels : Config.channels[f] > 0
    /\ Config.mode \in {"scan", "frame"}

\* The capabilities the configured mode and metrics need of the collector.
Preflight ==
    /\ (IF Config.mode = "scan" THEN "nearby_scan" ELSE "monitor_frames") \in Config.capabilities
    /\ {"noise", "snr"} \cap DOMAIN Config.metrics # {} => "noise_dbm" \in Config.capabilities

\* A manual anchor accepts an unknown pose; a reported pose must be close to
\* the anchor, and under require_reported certain as well.
CheckPose(pose) ==
    \/ pose = "near"
    \/ pose = "unknown" /\ Config.pose_policy = "manual_anchor"
    \/ pose = "uncertain" /\ Config.pose_policy = "manual_anchor"

Synthetic(o) == ~Config.allow_synthetic /\ "synthetic" \in o.quality

EventLast == IF event_last = None THEN last ELSE event_last

HasRecord(id) == \E i \in DOMAIN records : records[i].id = id

HasAssociation(id) == \E i \in DOMAIN associations : associations[i].id = id

Closed(at) ==
    [windows EXCEPT ![Len(windows)].end = IF @ = None THEN at ELSE @]

\* Mutant: the strict clock may be set back behind a receipt association.
AdvancePastReceipts(at) ==
    /\ phase \in {"capturing", "paused"}
    /\ at >= last
    /\ last' = at
    /\ event_last' = None

\* check_time and advance: the strict clock catches up with the watermark.
Advance(at) ==
    /\ phase \in {"capturing", "paused"}
    /\ at >= EventLast
    /\ last' = at
    /\ event_last' = None

-----------------------------------------------------------------------------
(* progress(): counts per metric, active time, and per channel the time    *)
(* tuned to it while a window was open.                                    *)

Counts(metric) ==
    Cardinality({i \in DOMAIN records :
        /\ Config.target \in {"any", records[i].bssid}
        /\ metric \in {"rssi", "snr"} => records[i].rssi
        /\ metric \in {"noise", "snr"} => records[i].noise})

End(w, now) == IF w.end = None THEN now ELSE w.end

ActiveNanos(now) ==
    FoldSeq(LAMBDA w, sum : sum + End(w, now) - w.start, 0, windows)

\* Mutant: a dwell that overlaps the one before it is kept beside it.
DwellsUnmerged(freq) ==
    SetToSortSeq({records[i].dwell : i \in {j \in DOMAIN records :
                     records[j].dwell # <<>> /\ records[j].freq = freq}},
                 LAMBDA a, b : a[1] < b[1] \/ (a[1] = b[1] /\ a[2] <= b[2]))

\* The dwells of a frequency, sorted and merged where they touch.
MergedDwells(freq) ==
    LET dwells == {records[i].dwell : i \in {j \in DOMAIN records :
                      records[j].dwell # <<>> /\ records[j].freq = freq}}
        before(a, b) == a[1] < b[1] \/ (a[1] = b[1] /\ a[2] <= b[2])
        merge(acc, d) ==
            IF acc # <<>> /\ d[1] <= Last(acc)[2]
            THEN Front(acc) \o <<<<Last(acc)[1], IF d[2] > Last(acc)[2] THEN d[2] ELSE Last(acc)[2]>>>>
            ELSE Append(acc, d)
    IN  FoldLeft(merge, <<>>, SetToSortSeq(dwells, before))

\* The two-pointer sweep of one merged dwell over the windows from index i:
\* the index it stops at and the time shared so far.
RECURSIVE Sweep(_, _, _, _)
Sweep(d, i, total, now) ==
    IF i > Len(windows) THEN <<i, total>>
    ELSE LET from == windows[i].start
             to == End(windows[i], now)
             shared == (IF d[2] < to THEN d[2] ELSE to) - (IF d[1] > from THEN d[1] ELSE from)
         IN  CASE to <= d[1] -> Sweep(d, i + 1, total, now)
               [] to > d[1] /\ from >= d[2] -> <<i, total>>
               [] OTHER -> IF to >= d[2] THEN <<i, total + shared>>
                           ELSE Sweep(d, i + 1, total + shared, now)

DwellTotal(freq, now) ==
    FoldLeft(LAMBDA acc, d : Sweep(d, acc[1], acc[2], now), <<1, 0>>, MergedDwells(freq))[2]

Ready(now) ==
    /\ \A k \in DOMAIN Config.metrics : Counts(k) >= Config.metrics[k]
    /\ ActiveNanos(now) >= Config.minimum_active_time
    /\ \A f \in DOMAIN Config.channels : DwellTotal(f, now) >= Config.channels[f]

-----------------------------------------------------------------------------
Init ==
    /\ ConfigOK /\ Preflight
    /\ phase = "capturing"
    /\ started \in Time
    /\ last = started
    /\ event_last = None
    /\ windows = <<[start |-> started, end |-> None]>>
    /\ records = <<>>
    /\ associations = <<>>

Tick(at) ==
    /\ Advance(at)
    /\ UNCHANGED <<phase, started, windows, records, associations>>

Pause(at) ==
    /\ phase = "capturing"
    /\ Advance(at)
    /\ windows' = Closed(at)
    /\ phase' = "paused"
    /\ UNCHANGED <<started, records, associations>>

Resume(at) ==
    /\ phase = "paused"
    /\ Len(windows) < MAX_WINDOWS
    /\ Advance(at)
    /\ windows' = Append(windows, [start |-> at, end |-> None])
    /\ phase' = "capturing"
    /\ UNCHANGED <<started, records, associations>>

Finish(at) ==
    /\ phase = "capturing"
    /\ Advance(at)
    /\ Ready(at)
    /\ windows' = Closed(at)
    /\ phase' = "completed"
    /\ UNCHANGED <<started, records, associations>>

Cancel(at) ==
    /\ Advance(at)
    /\ windows' = Closed(at)
    /\ phase' = "cancelled"
    /\ UNCHANGED <<started, records, associations>>

Fail(at) ==
    /\ Advance(at)
    /\ windows' = Closed(at)
    /\ phase' = "failed"
    /\ UNCHANGED <<started, records, associations>>

\* The configured payload from a known transmitter, and a scan of known age.
PayloadOK(o) ==
    /\ o.payload = Config.mode
    /\ o.payload = "scan" => o.age # None /\ o.age <= Config.maximum_scan_age
    /\ o.bssid # "unknown"

\* The age that admission counts itself agrees with the one the scan reports.
AgeOK(o, received) ==
    o.payload = "scan" => /\ received - o.captured <= Config.maximum_scan_age
                          /\ o.age <= received - o.captured

\* The dwell a record keeps: none when the capture was incomplete.
KeptDwell(o) == IF IncompleteDwell(o.quality) THEN <<>> ELSE o.dwell

Evidence(o, received) ==
    [id |-> o.id, captured |-> o.captured, age |-> IF o.payload = "scan" THEN o.age ELSE None,
     admitted |-> received, bssid |-> o.bssid, rssi |-> o.rssi, noise |-> o.noise,
     pose |-> o.pose, quality |-> o.quality, dwell |-> KeptDwell(o),
     freq |-> IF KeptDwell(o) = <<>> THEN "unknown" ELSE o.freq]

\* Every early return of admit.
Admissible(o, received) ==
    /\ phase = "capturing"
    /\ received >= EventLast
    /\ Len(records) < MAX_RECORDS
    /\ o.configured
    /\ ~Synthetic(o) /\ ~Bad(o.quality)
    /\ o.captured # None
    /\ o.captured <= received
    /\ CheckPose(o.pose)
    /\ PayloadOK(o) /\ AgeOK(o, received)
    /\ o.captured >= Last(windows).start
    /\ ~HasRecord(o.id) /\ ~HasAssociation(o.id)
    /\ ~\E i \in DOMAIN records : records[i].captured = o.captured /\ records[i].bssid = o.bssid
    /\ KeptDwell(o) # <<>> => KeptDwell(o)[2] <= received

Admit(o, received) ==
    /\ Admissible(o, received)
    /\ last' = received
    /\ event_last' = None
    /\ records' = Append(records, Evidence(o, received))
    /\ UNCHANGED <<phase, started, windows, associations>>

\* association_basis: a known return time decides; request bounds alone must
\* lie inside the open window.  <<>> is a refusal.
AssociationBasis(r, active_start) ==
    IF r.returned # None
    THEN IF r.returned >= active_start /\ r.returned >= EventLast
         THEN <<r.returned, r.returned>> ELSE <<>>
    ELSE IF r.window # <<>> /\ r.window[2] > active_start
              /\ r.window[1] >= active_start /\ r.window[2] >= EventLast
         THEN r.window ELSE <<>>

Association(o, r, basis) ==
    [id |-> o.id, basis |-> basis, returned |-> r.returned, window |-> r.window,
     quality |-> o.quality, pose |-> o.pose]

\* associate_received: the watermark may move ahead of the strict clock, and
\* nothing that progress() reads changes.
Associate(o, r) ==
    LET basis == AssociationBasis(r, Last(windows).start)
    IN  /\ phase = "capturing"
        /\ Len(associations) < MAX_RECORDS
        /\ o.configured
        /\ ~Synthetic(o) /\ ~Contradictory(o.quality)
        /\ o.payload # "health"
        /\ o.pose = "unknown" \/ CheckPose(o.pose)
        /\ Last(windows).end = None
        /\ basis # <<>>
        /\ ~HasAssociation(o.id) /\ ~HasRecord(o.id)
        /\ event_last' = IF basis[2] > EventLast THEN basis[2] ELSE event_last
        /\ associations' = Append(associations, Association(o, r, basis))
        /\ UNCHANGED <<phase, started, last, windows, records>>

Next ==
    \/ \E at \in Time : \/ Tick(at) \/ Pause(at) \/ Resume(at)
                        \/ Finish(at) \/ Cancel(at) \/ Fail(at)
    \/ \E o \in Observations, at \in Time : Admit(o, at)
    \/ \E o \in Observations, r \in Responses : Associate(o, r)

Spec == Init /\ [][Next]_vars

-----------------------------------------------------------------------------
(* validate(): what decoding a stored snapshot demands of it.              *)

ValidWindows ==
    /\ windows # <<>> /\ Len(windows) <= MAX_WINDOWS
    /\ started <= last /\ windows[1].start = started
    /\ \A i \in DOMAIN windows :
         LET w == windows[i]
             previous == IF i = 1 THEN started ELSE End(windows[i - 1], last)
         IN  /\ previous <= w.start /\ w.start <= End(w, last) /\ End(w, last) <= last
             /\ w.end = None => i = Len(windows) /\ phase = "capturing"
    /\ phase = "capturing" => Last(windows).end = None

ValidRecord(r) ==
    /\ r.captured <= r.admitted /\ r.admitted <= last
    /\ ~Bad(r.quality)
    /\ \E i \in DOMAIN windows : windows[i].start <= r.captured /\ r.admitted <= End(windows[i], last)
    /\ ~Synthetic(r)
    /\ CheckPose(r.pose)
    /\ IF Config.mode = "scan"
       THEN /\ r.age # None
            /\ r.admitted - r.captured <= Config.maximum_scan_age
            /\ r.age <= r.admitted - r.captured
       ELSE r.age = None
    /\ r.dwell # <<>> => /\ ~IncompleteDwell(r.quality)
                         /\ r.dwell[2] <= r.admitted
                         /\ r.dwell[1] <= r.captured /\ r.captured <= r.dwell[2]

\* validate_local, validate_for_config and the window test of an association.
ValidAssociation(a) ==
    /\ ~Contradictory(a.quality) /\ ~Synthetic(a)
    /\ a.basis = IF a.returned # None THEN <<a.returned, a.returned>> ELSE a.window
    /\ a.pose = "unknown" \/ CheckPose(a.pose)
    /\ \E i \in DOMAIN windows :
         windows[i].start <= a.basis[1] /\ a.basis[2] <= End(windows[i], EventLast)

Validate ==
    /\ Preflight
    /\ Len(records) <= MAX_RECORDS /\ Len(associations) <= MAX_RECORDS
    /\ ValidWindows
    /\ \A i \in DOMAIN records : ValidRecord(records[i])
    /\ \A i, j \in DOMAIN records : i < j =>
         /\ records[i].id # records[j].id
         /\ records[i].admitted <= records[j].admitted
         /\ records[i].captured # records[j].captured \/ records[i].bssid # records[j].bssid
    /\ records # <<>> => started <= records[1].admitted
    /\ phase = "completed" => Ready(last)
    /\ LET latest == {a.basis[2] : a \in Range(associations)}
           ahead == {t \in latest : t > last /\ \A u \in latest : u <= t}
       IN  event_last = IF ahead = {} THEN None ELSE CHOOSE t \in ahead : TRUE
    /\ \A i \in DOMAIN associations :
         /\ ValidAssociation(associations[i])
         /\ ~HasRecord(associations[i].id)
         /\ \A j \in DOMAIN associations : i # j => associations[i].id # associations[j].id

\* DecodedPointSurvey: the limits come before validation; the tag chooses the
\* shape of the source versions, and only the current one is ever written.
Decodes(tag) ==
    /\ Len(records) <= MAX_RECORDS /\ Len(windows) <= MAX_WINDOWS
    /\ Len(associations) <= MAX_RECORDS
    /\ tag = "legacy" => records = <<>>
    /\ Validate

\* matches_canonical_observation: receipt timing is not compared.
MatchesCanonical(a, o) ==
    a.id = o.id /\ o.configured /\ a.pose = o.pose /\ a.quality = o.quality

\* validate_admitted_observation: o still matches the record with its id.
MatchesRecord(o, r) ==
    /\ o.configured /\ ~Synthetic(o) /\ ~Bad(o.quality)
    /\ o.captured = r.captured
    /\ CheckPose(o.pose)
    /\ PayloadOK(o)
    /\ o.payload = "scan" => o.age <= r.admitted - r.captured
    /\ KeptDwell(o) # <<>> => KeptDwell(o)[2] <= r.admitted /\ Envelope(o)
    /\ Evidence(o, r.admitted) = r

ValidateAdmitted(o) ==
    HasRecord(o.id) /\ MatchesRecord(o, SelectSeq(records, LAMBDA r : r.id = o.id)[1])

-----------------------------------------------------------------------------
\* Every state the operations reach passes the validation its own stored form
\* meets when it is decoded, and each record still matches the observation it
\* was admitted from (validate and validate_admitted_observation): a survey
\* that was saved can always be opened again.
SnapshotsReload ==
    /\ Decodes("2")
    /\ \A i \in DOMAIN associations : \E o \in Observations : MatchesCanonical(associations[i], o)
    /\ \A i \in DOMAIN records :
         \E o \in Observations : o.id = records[i].id /\ ValidateAdmitted(o)

\* What the point asks for, counted nanosecond by nanosecond: the ticks of
\* open windows, and those at which some record's receiver was tuned to f.
ActiveTicks ==
    UNION {windows[i].start .. (End(windows[i], last) - 1) : i \in DOMAIN windows}

TunedTicks(f) ==
    UNION {records[i].dwell[1] .. (records[i].dwell[2] - 1) :
              i \in {j \in DOMAIN records : records[j].dwell # <<>> /\ records[j].freq = f}}

\* A completed survey really has its evidence: enough strict records, enough
\* open time and, on each channel, enough distinct tuned time while a window
\* was open, no instant counted twice and none counted inside a pause; the
\* merge and sweep of progress() agree with the plain count in every state.
CompletedMeetsRequirements ==
    /\ \A f \in DOMAIN Config.channels :
         DwellTotal(f, last) = Cardinality(TunedTicks(f) \cap ActiveTicks)
    /\ phase = "completed" =>
         /\ Cardinality(ActiveTicks) >= Config.minimum_active_time
         /\ \A f \in DOMAIN Config.channels :
              Cardinality(TunedTicks(f) \cap ActiveTicks) >= Config.channels[f]
         /\ Cardinality({records[i].id : i \in {j \in DOMAIN records : records[j].rssi}})
              >= Config.metrics["rssi"]

=============================================================================
