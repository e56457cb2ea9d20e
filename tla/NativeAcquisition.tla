-------------------------- MODULE NativeAcquisition --------------------------
(***************************************************************************)
(* From a decoded collector stream to a durable session record: the caller *)
(* maps foreign keys to canonical identities, the adapter normalizes the   *)
(* stream, the composition derives the manifest and the session record     *)
(* from the one session, and the record is stored and decoded again.       *)
(*                                                                         *)
(* A stream is what the decoder of macos.rs lets through; its rows are     *)
(* scan observations.  Evidence is <<>> (unknown) or <<value>> (known).    *)
(* Keys and identities are numbers, a key's number is also its length, and *)
(* a hash is the thing it hashes.                                          *)
(***************************************************************************)
EXTENDS Integers, Sequences, FiniteSets, SequencesExt

CONSTANTS Streams,      \* decoded streams, each with the exit code it came with
          Contexts,     \* the mappings a caller may answer with
          MAX_SESSION_SOURCE_MAPPINGS, MAX_CAPTURE_OBSERVATIONS, MAX_CAPTURE_SOURCE_RECORDS,
          MAX_CAPTURE_SESSION_BYTES, MIN_RECORD_FIXED_BYTES,
          MAX_TEXT_BYTES,  \* of a domain text
          TextBytes,    \* the versions, session, epoch and reason of a record
          FixedBytes    \* what a record without rows really takes, texts included

VARIABLES pc, stream, context, session, acquisition

vars == <<pc, stream, context, session, acquisition>>

Nothing == [none |-> TRUE]
Known(e) == e # <<>>
Distinct(s) == \A i, j \in DOMAIN s : s[i] = s[j] => i = j
Ids(rows) == [i \in DOMAIN rows |-> rows[i].id]
Keys(rows) == [i \in DOMAIN rows |-> rows[i].key]

-----------------------------------------------------------------------------
(* Normalization                                                           *)

Completion(s) ==
    [status |-> s.terminal, count |-> Len(s.scans), partial |-> s.terminal # "ok" /\ s.scans # <<>>]

\* The adapter admits no payload, and identifiers only under a policy that
\* fits what the collector was asked to include.
PrivacyFits(s, privacy) ==
    /\ privacy.payload \in {"discarded", "not_applicable"}
    /\ privacy.identifiers \in IF s.redacted THEN {"redacted"}
                               ELSE {"owned_infrastructure", "explicit_research_consent"}

\* TransmitterAssigned that is content with a received BSSID.
TransmitterAssignedByBssid(scan, row) ==
    Known(row.radio) \/ Known(row.bss) => Known(scan.bssid)

\* Transmitter identities need a received BSSID and evidence for the match.
TransmitterAssigned(scan, row) ==
    Known(row.radio) \/ Known(row.bss) => Known(scan.bssid) /\ Known(row.evidence)

CanonicalChannel(scan) == [band |-> scan.band, primary_channel |-> <<>>, width |-> scan.width]

\* Capability states: the nearby scan as probed, bands some source reports,
\* and everything this collector does not implement.
CapabilityDocument(s, ctx) ==
    LET c == s.capabilities[1] IN
    [collector |-> ctx.collector, probed_at |-> [epoch |-> ctx.epoch, nanos |-> c.time],
     nearby |-> IF c.available THEN "available"
                ELSE IF ~ c.services \/ c.authorization # "authorized" THEN "permission_denied"
                ELSE "not_observable",
     bands |-> UNION {c.bands[k] : k \in DOMAIN c.bands}]

\* The capture time of a scan result is unknown: only the receipt and the
\* window of the API call have times, on the collector's clock.
Envelope(s, ctx, scan) ==
    LET source == ctx.sources[scan.source]
        row == ctx.observations[scan.key] IN
    [id |-> row.id, session |-> ctx.session, collector |-> ctx.collector,
     source |-> source.id, sensor |-> source.sensor, adapter |-> source.adapter,
     kind |-> IF s.fixture THEN "synthetic_fixture" ELSE "native_api",
     monotonic |-> <<>>, synchronization |-> <<>>, privacy |-> ctx.privacy, raw |-> <<scan.raw>>,
     quality |-> {"clock_uncertain"} \cup (IF s.fixture THEN {"synthetic_fixture"} ELSE {})
                   \cup (IF Completion(s).partial THEN {"partial_capture"} ELSE {}),
     channel |-> CanonicalChannel(scan), bssid |-> scan.bssid,
     radio |-> row.radio, bss |-> row.bss, evidence |-> row.evidence]

EnvelopeValid(e) == e.kind = "synthetic_fixture" => "synthetic_fixture" \in e.quality

\* SourceResponseTiming: the API window is a window, and the receipt is after it.
ResponseValid(scan) == scan.from <= scan.to /\ scan.to <= scan.time

\* A source key of the capabilities record, the mapping of which is missing
\* or repeats an identity, refuses the stream.
SourcesMapped(s, ctx) ==
    LET listed == UNION {DOMAIN s.capabilities[i].bands : i \in DOMAIN s.capabilities} IN
    /\ listed \subseteq DOMAIN ctx.sources
    /\ \A a, b \in listed : ctx.sources[a].id = ctx.sources[b].id => a = b

ObservationsMapped(s, ctx) ==
    /\ \A i \in DOMAIN s.scans :
         /\ s.scans[i].source \in DOMAIN ctx.sources
         /\ s.scans[i].key \in DOMAIN ctx.observations
         /\ TransmitterAssigned(s.scans[i], ctx.observations[s.scans[i].key])
    /\ Distinct([i \in DOMAIN s.scans |-> ctx.observations[s.scans[i].key].id])

Normalizes(s, ctx) ==
    /\ ctx.process = s.process
    /\ PrivacyFits(s, ctx.privacy)
    /\ SourcesMapped(s, ctx)
    /\ ObservationsMapped(s, ctx)
    /\ \A i \in DOMAIN s.scans :
         EnvelopeValid(Envelope(s, ctx, s.scans[i])) /\ ResponseValid(s.scans[i])

Normalized(s, ctx) ==
    [origin |-> IF s.fixture THEN "synthetic_fixture" ELSE "native_api",
     capabilities |-> IF s.capabilities = <<>> THEN <<>> ELSE <<CapabilityDocument(s, ctx)>>,
     observations |-> [i \in DOMAIN s.scans |-> Envelope(s, ctx, s.scans[i])],
     completion |-> Completion(s), source_records |-> s.records]

-----------------------------------------------------------------------------
(* The session record                                                      *)

\* Rows of a mapping in the order of their keys.
Rows(map) == LET keys == SetToSortSeq(DOMAIN map, <)
             IN [i \in DOMAIN keys |-> [key |-> keys[i]] @@ map[keys[i]]]

SortedRows(rows) == SortSeq(rows, LAMBDA a, b : a.key < b.key)

ValidMapping(m) ==
    /\ Len(m.sources) <= MAX_SESSION_SOURCE_MAPPINGS
    /\ Len(m.observations) <= MAX_CAPTURE_OBSERVATIONS
    /\ Distinct(Keys(m.sources)) /\ Distinct(Ids(m.sources))
    /\ Distinct(Keys(m.observations)) /\ Distinct(Ids(m.observations))
    /\ \A i \in DOMAIN m.observations :
         Known(m.observations[i].radio) \/ Known(m.observations[i].bss)
           => Known(m.observations[i].evidence)

ExitMatches(terminal, exit) ==
    exit \in CASE terminal = "ok" -> {0}
               [] terminal = "partial" -> {2}
               [] terminal = "permission_required" -> {77}
               [] terminal \in {"unsupported", "unavailable"} -> {69}
               [] terminal = "error" -> {70}
               [] terminal = "timeout" -> {124}
               [] terminal = "cancelled" -> {130, 143}

PartialFits(terminal, partial, count) == partial = (terminal # "ok" /\ count > 0)

ValidRecord(r) ==
    /\ r.count <= MAX_CAPTURE_OBSERVATIONS
    /\ ExitMatches(r.terminal, r.exit) /\ PartialFits(r.terminal, r.partial, r.count)
    /\ ValidMapping(r.mapping)

KeyBytes(rows) == FoldFunction(+, 0, Keys(rows))

\* The media type of known identity evidence takes one byte.
EvidenceBytes(rows) == Cardinality({i \in DOMAIN rows : Known(rows[i].evidence)})

\* Every row takes more than the bytes of its key and of its evidence.
RecordBytes(r) ==
    FixedBytes + KeyBytes(r.mapping.sources) + KeyBytes(r.mapping.observations)
      + EvidenceBytes(r.mapping.observations)
      + Len(r.mapping.sources) + Len(r.mapping.observations)

\* preflight_text: not empty and not too long.
PreflightText(key) == key \in 1..MAX_TEXT_BYTES

\* preflight_record_size, on the borrowed context.
PreflightFits(ctx) ==
    LET observations == Rows(ctx.observations) IN
    /\ Cardinality(DOMAIN ctx.sources) <= MAX_SESSION_SOURCE_MAPPINGS
    /\ Cardinality(DOMAIN ctx.observations) <= MAX_CAPTURE_OBSERVATIONS
    /\ \A key \in DOMAIN ctx.sources \cup DOMAIN ctx.observations : PreflightText(key)
    /\ MIN_RECORD_FIXED_BYTES + TextBytes + KeyBytes(Rows(ctx.sources))
         + KeyBytes(observations) + EvidenceBytes(observations) <= MAX_CAPTURE_SESSION_BYTES

CanonicalBytesFit(r) == RecordBytes(r) <= MAX_CAPTURE_SESSION_BYTES

\* from_canonical_bytes: rows are sorted while decoding, and the result has
\* to encode to the same bytes.
DecodesRecord(r) ==
    /\ CanonicalBytesFit(r)
    /\ ValidRecord(r)
    /\ SortedRows(r.mapping.sources) = r.mapping.sources
    /\ SortedRows(r.mapping.observations) = r.mapping.observations

-----------------------------------------------------------------------------
(* The manifest and its closure                                            *)

\* from_normalized_capture: source records are bytes that hash to their
\* references, and every reference of an observation is among them.
BatchValid(n) ==
    /\ Len(n.observations) <= MAX_CAPTURE_OBSERVATIONS
    /\ Len(n.source_records) <= MAX_CAPTURE_SOURCE_RECORDS
    /\ n.completion.count = Len(n.observations)
    /\ Distinct(n.source_records)
    /\ Cardinality({n.observations[i].privacy.payload = "retained" : i \in DOMAIN n.observations}) <= 1
    /\ Distinct(Ids(n.observations))
    /\ \A i \in DOMAIN n.observations :
         Known(n.observations[i].raw) => n.observations[i].raw[1] \in ToSet(n.source_records)

Manifest(n) ==
    [origin |-> n.origin, capabilities |-> n.capabilities, completion |-> n.completion,
     sources |-> n.source_records, observations |-> Ids(n.observations),
     raw |-> IF \E i \in DOMAIN n.observations : n.observations[i].privacy.payload = "retained"
             THEN "retained" ELSE "not_retained"]

ManifestValid(m) ==
    /\ Len(m.sources) <= MAX_CAPTURE_SOURCE_RECORDS
    /\ Len(m.observations) <= MAX_CAPTURE_OBSERVATIONS
    /\ m.completion.count = Len(m.observations)
    /\ PartialFits(m.completion.status, m.completion.partial, m.completion.count)
    /\ Distinct(m.sources) /\ Distinct(m.observations)

\* One envelope against the record: its identities are the record's and its
\* rows', and nothing it names lies outside them.
EnvelopeCloses(r, m, e, i) ==
    /\ e.id = m.observations[i]
    /\ e.session = r.session /\ e.collector = r.collector /\ e.privacy = r.privacy
    /\ Known(e.monotonic) => e.monotonic[1].epoch = r.epoch
    /\ Known(e.synchronization) => e.synchronization[1].epoch = r.epoch
    /\ \E k \in DOMAIN r.mapping.sources :
         LET row == r.mapping.sources[k] IN
         row.id = e.source /\ row.sensor = e.sensor /\ row.adapter = e.adapter
    /\ \E k \in DOMAIN r.mapping.observations :
         LET row == r.mapping.observations[k] IN
         row.id = e.id /\ row.radio = e.radio /\ row.bss = e.bss /\ row.evidence = e.evidence
    /\ Known(e.raw) => e.raw[1] \in ToSet(m.sources)

ValidAgainstManifest(r, m, envelopes) ==
    /\ r.manifest = m
    /\ r.count = Len(envelopes) /\ r.count = m.completion.count /\ Len(m.observations) = r.count
    /\ r.terminal = m.completion.status /\ r.partial = m.completion.partial
    /\ Known(m.capabilities) => m.capabilities[1].collector = r.collector
    /\ m.raw = IF r.privacy.payload = "retained" THEN "retained" ELSE "not_retained"
    /\ Distinct(Ids(envelopes))
    /\ \A i \in DOMAIN envelopes : EnvelopeCloses(r, m, envelopes[i], i)
    /\ ToSet(Ids(r.mapping.observations)) = ToSet(Ids(envelopes))

-----------------------------------------------------------------------------
(* Composition                                                             *)

Record(ses, manifest) ==
    LET ctx == ses.mapping
        done == ses.normalized.completion IN
    [session |-> ctx.session, collector |-> ctx.collector, epoch |-> ctx.epoch,
     process |-> ses.process, source_clock |-> ses.clock, manifest |-> manifest,
     mapping |-> [sources |-> Rows(ctx.sources), observations |-> Rows(ctx.observations)],
     privacy |-> ctx.privacy, terminal |-> done.status, partial |-> done.partial,
     count |-> done.count, exit |-> ses.exit]

\* from_session up to the clone of the capture: cheap checks first, with a
\* placeholder for the manifest hash.
Preflight(ses) ==
    LET done == ses.normalized.completion IN
    /\ ses.mapping.process = ses.process
    /\ done.status = ses.terminal
    /\ done.count = Len(ses.normalized.observations)
    /\ PartialFits(done.status, done.partial, Len(ses.normalized.observations))
    /\ PreflightFits(ses.mapping)
    /\ ValidRecord(Record(ses, Nothing)) /\ CanonicalBytesFit(Record(ses, Nothing))

Composes(ses) ==
    /\ Preflight(ses)
    /\ BatchValid(ses.normalized)
    /\ LET m == Manifest(ses.normalized)
           r == Record(ses, m) IN
       /\ ManifestValid(m) /\ CanonicalBytesFit(r)
       /\ ValidAgainstManifest(r, m, ses.normalized.observations)

-----------------------------------------------------------------------------
Init ==
    /\ pc = "stream" /\ stream \in Streams
    /\ context = Nothing /\ session = Nothing /\ acquisition = Nothing

\* The mapping callback of run_and_normalize.
Map ==
    /\ pc = "stream"
    /\ context' \in Contexts
    /\ pc' = "mapped" /\ UNCHANGED <<stream, session, acquisition>>

Normalize ==
    /\ pc = "mapped"
    /\ IF Normalizes(stream, context)
       THEN /\ pc' = "session"
            /\ session' = [process |-> stream.process, clock |-> stream.clock, mapping |-> context,
                           terminal |-> stream.terminal, exit |-> stream.exit,
                           normalized |-> Normalized(stream, context)]
       ELSE pc' = "refused" /\ UNCHANGED session
    /\ UNCHANGED <<stream, context, acquisition>>

Compose ==
    /\ pc = "session"
    /\ IF Composes(session)
       THEN /\ pc' = "composed"
            /\ acquisition' = [manifest |-> Manifest(session.normalized),
                               record |-> Record(session, Manifest(session.normalized))]
       ELSE pc' = "not_composed" /\ UNCHANGED acquisition
    /\ UNCHANGED <<stream, context, session>>

Next == Map \/ Normalize \/ Compose

-----------------------------------------------------------------------------
(* Properties                                                              *)

\* What the adapter normalizes, the composition can store: a session whose
\* mapping is exactly about its stream (one row for each observation, no
\* identity for two sources, no source key that is not a text) and whose
\* record fits is never refused, and a record that was composed decodes again
\* from its own bytes.  In particular the byte floor of the preflight never
\* refuses what the exact serialization would accept.
SessionsCompose ==
    /\ pc = "not_composed" =>
         \/ DOMAIN context.observations # {stream.scans[i].key : i \in DOMAIN stream.scans}
         \/ ~ Distinct(Ids(Rows(context.sources)))
         \/ \E key \in DOMAIN context.sources : ~ PreflightText(key)
         \/ ~ CanonicalBytesFit(Record(session, Nothing))
    /\ pc = "composed" => DecodesRecord(acquisition.record) /\ ManifestValid(acquisition.manifest)
=============================================================================
