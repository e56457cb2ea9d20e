----------------------- MODULE CollectorStreamProofs -----------------------
(***************************************************************************)
(* Proofs about CollectorWire.                                             *)
(*                                                                         *)
(* The properties are about the finished stream; what makes them true is   *)
(* where each thread stands when it writes.  The inductive invariant has   *)
(* three parts: the types, what every record already written satisfies     *)
(* (History, read off the records before it), and, while the process runs, *)
(* what each thread's place says about the stream and about the collecting *)
(* thread's variables (ThreadsOK).                                         *)
(***************************************************************************)
EXTENDS CollectorWire, FiniteSetTheorems, SequenceTheorems, TLAPS

IsStream(s) == s \in Seq({s[i] : i \in DOMAIN s})

Places == {"Hello", "Idle", "Start", "Authorize", "Assessed", "Request", "Set", "Loop", "List",
           "Capabilities", "Admit", "Interface", "Started", "Scanning", "Network", "Publish",
           "Exit", "Gone"}

(* The types of the variables.                                             *)
WireType ==
    /\ os \in [services : BOOLEAN, auth : States, power : [Interfaces -> BOOLEAN],
               clock : Nat, changes : Nat, flapped : BOOLEAN]
    /\ options \in CommandLines
    /\ ended \in BOOLEAN /\ torn \in BOOLEAN /\ late \in Nat
    /\ IsStream(stream)
    /\ at \in [Threads -> Places]
    /\ local \in [listed : {local.listed}, permitted : BOOLEAN, todo : Seq(Interfaces),
                  scan : Nat, begin : Nat, end : Nat, results : Int]
-----------------------------------------------------------------------------
(* What the records satisfy, whoever wrote them.                           *)

InOrder(s, now) ==
    \A i \in DOMAIN s :
        /\ s[i].kind \in Kinds /\ s[i].sequence = i - 1 /\ s[i].time \in 0..now
        /\ \A k \in 1..i : s[k].time <= s[i].time

HelloFirst(s, opts) ==
    \A i \in DOMAIN s :
        /\ i > 1 => s[1].kind = "hello" /\ s[i].kind # "hello"
        /\ s[i].kind = "hello" =>
            s[i].command = opts.command /\ s[i].limit = opts.limit /\ s[i].redacted = opts.redacted

EndsOnce(s, done, cut) ==
    \A i \in DOMAIN s : s[i].kind = "complete" => i = Len(s) /\ done /\ ~ cut

OfferIsTrue(cap) ==
    cap.scan = (MayScan(cap.services, cap.auth) /\ \E n \in DOMAIN cap.sources : cap.sources[n])

CapsOK(s, opts, steady) ==
    \A i \in Of(s, "capabilities") :
        /\ opts.command # "authorize" /\ \A k \in Of(s, "capabilities") : k = i
        /\ Cardinality(DOMAIN s[i].sources) <= MaxInterfaces
        /\ steady => OfferIsTrue(s[i])

AuthOK(s, opts) ==
    \A i \in Of(s, "authorization") :
        opts.command = "authorize" /\ i = 2 /\ s[i].prompt = MayRequest(s[i].services, s[i].auth)

StartsOK(s, opts, steady) ==
    \A i \in Of(s, "scan_started") :
        /\ opts.command = "scan" /\ s[i].begin <= s[i].time /\ Starts(s, i) = {}
        /\ steady => Offered(s, i) /\ PoweredOn(s, i, s[i].source)

ObsOK(s, opts) ==
    \A i \in Of(s, "scan_observation") :
        /\ opts.command = "scan"
        /\ \E start \in Starts(s, i) : start.source = s[i].source /\ start.begin = s[i].begin
        /\ s[i].begin <= s[i].end /\ s[i].end <= s[i].time
        /\ opts.redacted => ~ s[i].identified

EndOK(s, opts) ==
    \A i \in Of(s, "complete") :
        /\ s[i].count = Observations(s)
        /\ s[i].partial = (s[i].status # "ok" /\ Observations(s) > 0)
        /\ s[i].final # NoFinal => opts.command = "authorize"
        /\ s[i].status = "ok" =>
            /\ opts.command = "probe" => Of(s, "capabilities") # {}
            /\ opts.command = "scan" => Of(s, "scan_started") # {}
            /\ opts.command = "authorize" => Consent(s, s[i])

Steady == ~ os.flapped

HistoryOf(s, opts, now, done, cut, steady) ==
    /\ InOrder(s, now) /\ HelloFirst(s, opts) /\ EndsOnce(s, done, cut)
    /\ CapsOK(s, opts, steady) /\ AuthOK(s, opts)
    /\ StartsOK(s, opts, steady)
    /\ Observations(s) <= opts.limit /\ ObsOK(s, opts) /\ WindowsClosed(s)
    /\ EndOK(s, opts)

History == HistoryOf(stream, options, os.clock, ended, torn, Steady)
-----------------------------------------------------------------------------
(* What the place of a thread says while the process runs.                 *)

Asked(s) == \E i \in Of(s, "authorization") : s[i].services /\ s[i].prompt

Assessed(s, l) ==
    \E i \in Of(s, "authorization") :
        s[i].services \in BOOLEAN /\ s[i].services = l.services /\ s[i].auth = l.auth

MainOK(m, c, d, opts, s, done, listed) ==
    /\ m = "Hello" => c = "Idle" /\ d = "Idle" /\ (~ done => s = <<>>)
    /\ m # "Hello" /\ ~ done => s # <<>> /\ s[1].kind = "hello"
    /\ m = "Start" => opts.command # "authorize" /\ c = "Idle"
    /\ m = "Authorize" => opts.command = "authorize" /\ (~ done => Len(s) = 1)
    /\ m = "Assessed" => opts.command = "authorize" /\ (~ done => Assessed(s, listed[1]))
    /\ m = "Request" \/ d = "Set" => opts.command = "authorize" /\ (~ done => Asked(s))

Lists(c) == c \in {"List", "Capabilities", "Admit"}
InScan(c) == c \in {"Started", "Scanning", "Network", "Publish"}
Scans(c) == c = "Interface" \/ InScan(c)
Returned(c) == c \in {"Network", "Publish"}

(* The listing the thread holds: power as it was read, unless it changed.  *)
Listing(l, power, steady) ==
    /\ Range(l.todo) \subseteq DOMAIN l.listed[1].sources
    /\ l.permitted = MayScan(l.listed[1].services, l.listed[1].auth)
    /\ steady => \A i \in DOMAIN l.listed[1].sources : l.listed[1].sources[i] = power[i]

Announced(s, listed) ==
    \E c \in Of(s, "capabilities") :
        s[c].sources = listed.sources /\ s[c].services = listed.services /\ s[c].auth = listed.auth

Begun(s, l) ==
    \E k \in Of(s, "scan_started") :
        s[k].scan = l.scan /\ s[k].source = Head(l.todo) /\ s[k].begin = l.begin

CollectOK(c, opts, s, done, l, now, power, steady) ==
    /\ Lists(c) => opts.command \in {"probe", "scan"}
    /\ Scans(c) => opts.command = "scan" /\ l.permitted
    /\ c \in {"Idle", "List", "Capabilities"} => Of(s, "capabilities") = {}
    /\ c = "Capabilities" =>
        /\ DOMAIN l.listed[1].sources = Range(l.todo)
        /\ Cardinality(DOMAIN l.listed[1].sources) <= MaxInterfaces
    /\ c \in {"Capabilities", "Admit"} \/ Scans(c) => Listing(l, power, steady)
    /\ c = "Admit" \/ Scans(c) => (~ done => Announced(s, l.listed[1]))
    /\ c = "Interface" /\ l.todo = <<>> /\ ~ done => Of(s, "scan_started") # {}
    /\ InScan(c) => l.todo # <<>> /\ l.begin <= now /\ (steady => power[Head(l.todo)])
    /\ InScan(c) /\ c # "Started" => (~ done => Begun(s, l))
    /\ Returned(c) => l.begin <= l.end /\ l.end <= now
    /\ c = "Publish" => Observations(s) < opts.limit

(* The scan numbers in the stream, and the window of the scan under way.   *)
Numbered(s, n) ==
    \A i \in Of(s, "scan_started") \cup Of(s, "scan_observation") : s[i].scan \in 0..n

NoResults(s, n) == \A i \in Of(s, "scan_observation") : s[i].scan # n

OneWindow(s, n, end) ==
    /\ \A i \in Of(s, "scan_observation") : s[i].scan = n => s[i].end = end
    /\ \A k \in Of(s, "scan_started") : s[k].scan = n => s[k].time <= end

ScanOK(c, s, l) ==
    /\ Numbered(s, l.scan)
    /\ c = "Scanning" => NoResults(s, l.scan)
    /\ Returned(c) => OneWindow(s, l.scan, l.end)

CollectsOK ==
    CollectOK(at["collect"], options, stream, ended, local, os.clock, os.power, Steady)

ThreadsOK ==
    /\ MainOK(at["main"], at["collect"], at["delegate"], options, stream, ended, local.listed)
    /\ CollectsOK /\ ScanOK(at["collect"], stream, local)

(* At most the observation under way follows a revocation.                 *)
OneLate == late \in {0, 1} /\ (Running /\ at["collect"] = "Publish" /\ ~ Permitted => late = 0)

WireInv == /\ WireType /\ History /\ OneLate
           /\ Running => ~ torn /\ ThreadsOK
-----------------------------------------------------------------------------
(* Streams and the record that is appended to them.                        *)

Extension(s, t, r) ==
    /\ Len(s) \in Nat /\ DOMAIN s = 1..Len(s)
    /\ IsStream(t) /\ Len(t) = Len(s) + 1 /\ DOMAIN t = 1..Len(t)
    /\ t[Len(t)] = r /\ \A i \in 1..Len(s) : t[i] = s[i]

(* Appending a record keeps the earlier ones in place.                     *)
LEMMA Grown ==
    ASSUME NEW s, NEW r, IsStream(s)
    PROVE  Extension(s, Append(s, r), r)
<1> DEFINE S == {s[i] : i \in DOMAIN s} \cup {r}
           t == Append(s, r)
<1>1. s \in Seq(S)
  <2>1. s \in Seq({s[i] : i \in DOMAIN s})
    BY DEF IsStream
  <2>2. {s[i] : i \in DOMAIN s} \subseteq S
    OBVIOUS
  <2> QED BY <2>1, <2>2
<1>2. /\ Len(s) \in Nat /\ DOMAIN s = 1..Len(s) /\ Len(t) = Len(s) + 1 /\ DOMAIN t = 1..Len(t)
      /\ t[Len(t)] = r /\ (\A i \in 1..Len(s) : t[i] = s[i]) /\ t \in Seq(S)
  <2> HIDE DEF S
  <2>1. r \in S
    BY DEF S
  <2> QED BY <1>1, <2>1
<1>3. t \in Seq({t[i] : i \in DOMAIN t})
  BY <1>2, SeqOfRange, RangeEquality DEF Range
<1> QED BY <1>2, <1>3, Zenon DEF Extension, IsStream

(* The records of one kind, after a record is appended.                    *)
LEMMA OfGrows ==
    ASSUME NEW s, NEW t, NEW r, Extension(s, t, r), NEW k
    PROVE  /\ Of(s, k) \subseteq 1..Len(s) /\ Of(t, k) \subseteq 1..Len(t)
           /\ \A i \in Of(s, k) : t[i] = s[i]
           /\ r.kind # k => Of(t, k) = Of(s, k)
           /\ r.kind = k => Of(t, k) = Of(s, k) \cup {Len(t)}
BY DEF Extension, Of

(* What a decoder has seen before a record does not change later.          *)
LEMMA SeenBefore ==
    ASSUME NEW s, NEW t, NEW r, Extension(s, t, r)
    PROVE  /\ \A i \in 1..Len(t) : Caps(t, i) = Caps(s, i)
           /\ \A i \in 1..Len(s) : Starts(t, i) = Starts(s, i)
<1>1. /\ Len(s) \in Nat /\ Len(t) = Len(s) + 1 /\ DOMAIN s = 1..Len(s) /\ DOMAIN t = 1..Len(t)
      /\ \A i \in 1..Len(s) : t[i] = s[i]
  BY DEF Extension
<1>2. ASSUME NEW i \in 1..Len(t)
      PROVE  Caps(t, i) = Caps(s, i)
  <2>1. {c \in Of(t, "capabilities") : c < i} = {c \in Of(s, "capabilities") : c < i}
    BY <1>1 DEF Of
  <2>2. \A c \in {c \in Of(s, "capabilities") : c < i} : t[c] = s[c]
    BY <1>1 DEF Of
  <2> QED BY <2>1, <2>2 DEF Caps
<1>3. ASSUME NEW i \in 1..Len(s)
      PROVE  Starts(t, i) = Starts(s, i)
  <2>1. {c \in Of(t, "scan_started") : c < i /\ t[c].scan = t[i].scan}
        = {c \in Of(s, "scan_started") : c < i /\ s[c].scan = s[i].scan}
    BY <1>1 DEF Of
  <2>2. \A c \in {c \in Of(s, "scan_started") : c < i /\ s[c].scan = s[i].scan} : t[c] = s[c]
    BY <1>1, Zenon DEF Of
  <2> QED BY <2>1, <2>2, Zenon DEF Starts
<1> QED BY <1>2, <1>3

(* The observation count, after a record is appended.                      *)
LEMMA CountGrows ==
    ASSUME NEW s, NEW t, NEW r, Extension(s, t, r)
    PROVE  /\ Observations(s) \in Nat
           /\ r.kind # "scan_observation" => Observations(t) = Observations(s)
           /\ r.kind = "scan_observation" => Observations(t) = Observations(s) + 1
<1> DEFINE A == Of(s, "scan_observation")
           B == Of(t, "scan_observation")
<1>1. Observations(s) = Cardinality(A) /\ Observations(t) = Cardinality(B)
  BY DEF Observations, Of
<1>2. Len(s) \in Nat /\ Len(t) = Len(s) + 1 /\ A \subseteq 1..Len(s)
  BY OfGrows, Zenon DEF Extension
<1>3. IsFiniteSet(A) /\ Cardinality(A) \in Nat
  <2>1. IsFiniteSet(1..Len(s))
    BY <1>2, FS_Interval
  <2>2. IsFiniteSet(A)
    BY <1>2, <2>1, FS_Subset, Zenon
  <2> QED BY <2>2, FS_CardinalityType
<1>4. r.kind # "scan_observation" => B = A
  BY OfGrows
<1>5. r.kind = "scan_observation" => Cardinality(B) = Cardinality(A) + 1
  <2>1. Len(t) \notin A
    BY <1>2
  <2>2. Cardinality(A \cup {Len(t)}) = Cardinality(A) + 1
    BY <1>3, <2>1, FS_AddElement, Zenon
  <2>3. r.kind = "scan_observation" => B = A \cup {Len(t)}
    BY OfGrows
  <2> QED BY <2>2, <2>3, Zenon
<1> QED BY <1>1, <1>3, <1>4, <1>5
-----------------------------------------------------------------------------
(* What the appended record must satisfy for the history to stay true.     *)

(* The order of the records, and who comes first and last.                 *)
LEMMA OrderGrows ==
    ASSUME NEW s, NEW t, NEW r, NEW now \in Nat, Extension(s, t, r), InOrder(s, now),
           r.kind \in Kinds, r.sequence = Len(s), r.time = now
    PROVE  InOrder(t, now)
<1>1. /\ Len(s) \in Nat /\ Len(t) = Len(s) + 1 /\ DOMAIN s = 1..Len(s) /\ DOMAIN t = 1..Len(t)
      /\ t[Len(t)] = r /\ \A i \in 1..Len(s) : t[i] = s[i]
  BY Zenon DEF Extension
<1>2. ASSUME NEW i \in 1..Len(s)
      PROVE  /\ t[i].kind \in Kinds /\ t[i].sequence = i - 1 /\ t[i].time \in 0..now
             /\ \A k \in 1..i : t[k].time <= t[i].time
  <2>1. t[i] = s[i] /\ i \in DOMAIN s
    BY <1>1, <1>2
  <2>2. \A k \in 1..i : t[k] = s[k]
    BY <1>1, <1>2
  <2> QED BY <2>1, <2>2 DEF InOrder
<1>3. \A k \in 1..Len(t) : t[k].time <= t[Len(t)].time
  <2> TAKE k \in 1..Len(t)
  <2>1. CASE k = Len(t)
    BY <1>1, <2>1
  <2>2. CASE k \in 1..Len(s)
    BY <1>1, <1>2, <2>2
  <2> QED BY <1>1, <2>1, <2>2
<1>4. t[Len(t)].kind \in Kinds /\ t[Len(t)].sequence = Len(t) - 1 /\ t[Len(t)].time \in 0..now
  BY <1>1
<1>5. \A i \in 1..Len(t) : i \in 1..Len(s) \/ i = Len(t)
  BY <1>1
<1> QED BY <1>1, <1>2, <1>3, <1>4, <1>5, Zenon DEF InOrder

LEMMA HelloGrows ==
    ASSUME NEW s, NEW t, NEW r, NEW o, Extension(s, t, r), HelloFirst(s, o),
           s # <<>> => s[1].kind = "hello" /\ r.kind # "hello",
           r.kind = "hello" =>
                r.command = o.command /\ r.limit = o.limit /\ r.redacted = o.redacted
    PROVE  HelloFirst(t, o)
<1>1. /\ Len(s) \in Nat /\ Len(t) = Len(s) + 1 /\ DOMAIN s = 1..Len(s) /\ DOMAIN t = 1..Len(t)
      /\ t[Len(t)] = r /\ \A i \in 1..Len(s) : t[i] = s[i]
  BY Zenon DEF Extension
<1>2. Len(t) > 1 => s # <<>> /\ t[1] = s[1]
  BY <1>1
<1>3. ASSUME NEW i \in 1..Len(s)
      PROVE  /\ i > 1 => t[1].kind = "hello" /\ t[i].kind # "hello"
             /\ t[i].kind = "hello" =>
                t[i].command = o.command /\ t[i].limit = o.limit /\ t[i].redacted = o.redacted
  BY <1>1 DEF HelloFirst
<1>4. \A i \in 1..Len(t) : i \in 1..Len(s) \/ i = Len(t)
  BY <1>1
<1> QED BY <1>1, <1>2, <1>3, <1>4, Zenon DEF HelloFirst

(* A kind of record no other kind disturbs.                                *)
LEMMA OthersKeep ==
    ASSUME NEW s, NEW t, NEW r, Extension(s, t, r), NEW o, NEW steady
    PROVE  /\ r.kind # "capabilities" /\ CapsOK(s, o, steady) => CapsOK(t, o, steady)
           /\ r.kind # "authorization" /\ AuthOK(s, o) => AuthOK(t, o)
           /\ r.kind # "scan_started" /\ StartsOK(s, o, steady) => StartsOK(t, o, steady)
           /\ r.kind # "scan_observation" /\ ObsOK(s, o) => ObsOK(t, o)
           /\ r.kind # "scan_observation" /\ WindowsClosed(s) => WindowsClosed(t)
<1>1. \A k : /\ \A i \in Of(s, k) : t[i] = s[i] /\ i \in 1..Len(s)
             /\ r.kind # k => Of(t, k) = Of(s, k)
  BY OfGrows
<1>2. \A i \in 1..Len(s) : Caps(t, i) = Caps(s, i) /\ Starts(t, i) = Starts(s, i)
  <2>1. 1..Len(s) \subseteq 1..Len(t)
    BY DEF Extension
  <2> QED BY <2>1, SeenBefore, Zenon
<1>3. r.kind # "capabilities" /\ CapsOK(s, o, steady) => CapsOK(t, o, steady)
  BY <1>1 DEF CapsOK
<1>4. r.kind # "authorization" /\ AuthOK(s, o) => AuthOK(t, o)
  BY <1>1 DEF AuthOK
<1>5. r.kind # "scan_started" /\ StartsOK(s, o, steady) => StartsOK(t, o, steady)
  BY <1>1, <1>2 DEF StartsOK, Offered, PoweredOn
<1>6. r.kind # "scan_observation" /\ ObsOK(s, o) => ObsOK(t, o)
  BY <1>1, <1>2 DEF ObsOK
<1>7. r.kind # "scan_observation" /\ WindowsClosed(s) => WindowsClosed(t)
  BY <1>1, <1>2 DEF WindowsClosed
<1> QED BY <1>3, <1>4, <1>5, <1>6, <1>7, Zenon

(* Frames of every record but the terminal one.                            *)
LEMMA FrameGrows ==
    ASSUME NEW s, NEW t, NEW r, NEW o, NEW now \in Nat, NEW cut, NEW steady, Extension(s, t, r),
           HistoryOf(s, o, now, FALSE, cut, steady),
           r.kind \in Kinds \ {"complete"}, r.sequence = Len(s), r.time = now,
           s # <<>> => s[1].kind = "hello" /\ r.kind # "hello",
           r.kind = "hello" =>
                r.command = o.command /\ r.limit = o.limit /\ r.redacted = o.redacted
    PROVE  InOrder(t, now) /\ HelloFirst(t, o) /\ EndsOnce(t, FALSE, cut) /\ EndOK(t, o)
<1>1. InOrder(t, now)
  BY OrderGrows, Zenon DEF HistoryOf
<1>2. HelloFirst(t, o)
  BY HelloGrows, Zenon DEF HistoryOf
<1>3. Of(s, "complete") = {}
  BY Zenon DEF HistoryOf, EndsOnce, Of
<1>4. Of(t, "complete") = {}
  BY <1>3, OfGrows
<1>5. EndsOnce(t, FALSE, cut)
  BY <1>4, Zenon DEF EndsOnce, Of
<1>6. EndOK(t, o)
  BY <1>4, Zenon DEF EndOK
<1> QED BY <1>1, <1>2, <1>5, <1>6, Zenon

(* The hello, an authorization record or a capabilities record is added.   *)
LEMMA HelloAdded ==
    ASSUME NEW s, NEW t, NEW r, NEW o, NEW now \in Nat, NEW cut, NEW steady, Extension(s, t, r),
           HistoryOf(s, o, now, FALSE, cut, steady), r.sequence = Len(s), r.time = now,
           s = <<>>, r.kind = "hello",
           r.command = o.command, r.limit = o.limit, r.redacted = o.redacted
    PROVE  HistoryOf(t, o, now, FALSE, cut, steady)
<1>1. r.kind \in Kinds \ {"complete"}
  BY Zenon DEF Kinds
<1>2. InOrder(t, now) /\ HelloFirst(t, o) /\ EndsOnce(t, FALSE, cut) /\ EndOK(t, o)
  BY <1>1, FrameGrows, Zenon
<1>3. Observations(t) = Observations(s)
  BY CountGrows, Zenon
<1>4. CapsOK(t, o, steady) /\ AuthOK(t, o) /\ StartsOK(t, o, steady) /\ ObsOK(t, o) /\ WindowsClosed(t)
  BY OthersKeep, Zenon DEF HistoryOf
<1> QED BY <1>2, <1>3, <1>4, Zenon DEF HistoryOf

LEMMA AuthorizationAdded ==
    ASSUME NEW s, NEW t, NEW r, NEW o, NEW now \in Nat, NEW cut, NEW steady, Extension(s, t, r),
           HistoryOf(s, o, now, FALSE, cut, steady), r.sequence = Len(s), r.time = now,
           Len(s) = 1, s[1].kind = "hello", r.kind = "authorization",
           o.command = "authorize", r.prompt = MayRequest(r.services, r.auth)
    PROVE  HistoryOf(t, o, now, FALSE, cut, steady)
<1>1. r.kind \in Kinds \ {"complete"}
  BY Zenon DEF Kinds
<1>2. InOrder(t, now) /\ HelloFirst(t, o) /\ EndsOnce(t, FALSE, cut) /\ EndOK(t, o)
  BY <1>1, FrameGrows, Zenon
<1>3. Observations(t) = Observations(s)
  BY CountGrows, Zenon
<1>4. CapsOK(t, o, steady) /\ StartsOK(t, o, steady) /\ ObsOK(t, o) /\ WindowsClosed(t)
  BY OthersKeep, Zenon DEF HistoryOf
<1>5. Len(t) = 2 /\ t[2] = r
  BY DEF Extension
<1>6. /\ Of(t, "authorization") = Of(s, "authorization") \cup {Len(t)}
      /\ \A i \in Of(s, "authorization") : t[i] = s[i]
  BY OfGrows
<1>7. AuthOK(t, o)
  BY <1>5, <1>6, Zenon DEF AuthOK, HistoryOf
<1> QED BY <1>2, <1>3, <1>4, <1>7, Zenon DEF HistoryOf

LEMMA CapabilitiesAdded ==
    ASSUME NEW s, NEW t, NEW r, NEW o, NEW now \in Nat, NEW cut, NEW steady, Extension(s, t, r),
           HistoryOf(s, o, now, FALSE, cut, steady), r.sequence = Len(s), r.time = now,
           s[1].kind = "hello", r.kind = "capabilities",
           o.command # "authorize", Of(s, "capabilities") = {},
           Cardinality(DOMAIN r.sources) <= MaxInterfaces, steady => OfferIsTrue(r)
    PROVE  HistoryOf(t, o, now, FALSE, cut, steady)
<1>1. r.kind \in Kinds \ {"complete"}
  BY Zenon DEF Kinds
<1>2. InOrder(t, now) /\ HelloFirst(t, o) /\ EndsOnce(t, FALSE, cut) /\ EndOK(t, o)
  BY <1>1, FrameGrows, Zenon
<1>3. Observations(t) = Observations(s)
  BY CountGrows, Zenon
<1>4. AuthOK(t, o) /\ StartsOK(t, o, steady) /\ ObsOK(t, o) /\ WindowsClosed(t)
  BY OthersKeep, Zenon DEF HistoryOf
<1>5. Of(t, "capabilities") = {Len(t)}
  BY OfGrows
<1>6. t[Len(t)] = r
  BY Zenon DEF Extension
<1>7. CapsOK(t, o, steady)
  BY <1>5, <1>6, Zenon DEF CapsOK
<1> QED BY <1>2, <1>3, <1>4, <1>7, Zenon DEF HistoryOf

(* A scan is announced: its number is new, and an earlier capabilities     *)
(* record offers it.                                                       *)
LEMMA StartAdded ==
    ASSUME NEW s, NEW t, NEW r, NEW o, NEW now \in Nat, NEW cut, NEW steady, Extension(s, t, r),
           HistoryOf(s, o, now, FALSE, cut, steady), r.sequence = Len(s), r.time = now,
           s[1].kind = "hello", r.kind = "scan_started", o.command = "scan", r.begin <= now,
           \A k \in Of(s, "scan_started") : s[k].scan # r.scan,
           steady => \E c \in Of(s, "capabilities") :
                        s[c].scan /\ r.source \in DOMAIN s[c].sources /\ s[c].sources[r.source]
    PROVE  HistoryOf(t, o, now, FALSE, cut, steady)
<1>1. r.kind \in Kinds \ {"complete"}
  BY Zenon DEF Kinds
<1>2. InOrder(t, now) /\ HelloFirst(t, o) /\ EndsOnce(t, FALSE, cut) /\ EndOK(t, o)
  BY <1>1, FrameGrows, Zenon
<1>3. Observations(t) = Observations(s)
  BY CountGrows, Zenon
<1>4. CapsOK(t, o, steady) /\ AuthOK(t, o) /\ ObsOK(t, o) /\ WindowsClosed(t)
  BY OthersKeep, Zenon DEF HistoryOf
<1> DEFINE n == Len(t)
<1>5. Len(s) \in Nat /\ n = Len(s) + 1 /\ t[n] = r
  BY Zenon DEF Extension
<1>6. Of(t, "scan_started") = Of(s, "scan_started") \cup {n}
  BY OfGrows
<1>7. \A k : Of(s, k) \subseteq 1..Len(s) /\ \A i \in Of(s, k) : t[i] = s[i]
  BY OfGrows
<1>8. Starts(t, n) = {}
  BY <1>5, <1>6, <1>7 DEF Starts
<1>9. Caps(t, n) = Caps(s, n)
  BY <1>5, SeenBefore
<1>10. \A c \in Of(s, "capabilities") : s[c] \in Caps(t, n)
  <2>1. \A c \in Of(s, "capabilities") : c < n
    BY <1>5, <1>7
  <2>2. \A c \in Of(s, "capabilities") : s[c] \in Caps(s, n)
    BY <2>1, Zenon DEF Caps
  <2> QED BY <1>9, <2>2, Zenon
<1>11. steady => Offered(t, n) /\ PoweredOn(t, n, r.source)
  BY <1>10, Zenon DEF Offered, PoweredOn
<1>12. \A i \in Of(s, "scan_started") :
           Caps(t, i) = Caps(s, i) /\ Starts(t, i) = Starts(s, i) /\ t[i] = s[i]
  BY <1>5, <1>7, SeenBefore
<1>13. StartsOK(s, o, steady)
  BY Zenon DEF HistoryOf
<1>14. StartsOK(t, o, steady)
  <2>1. ASSUME NEW i \in Of(s, "scan_started")
        PROVE  /\ o.command = "scan" /\ t[i].begin <= t[i].time /\ Starts(t, i) = {}
               /\ steady => Offered(t, i) /\ PoweredOn(t, i, t[i].source)
    BY <1>12, <1>13, Zenon DEF StartsOK, Offered, PoweredOn
  <2>2. /\ t[n].begin <= t[n].time /\ Starts(t, n) = {}
        /\ steady => Offered(t, n) /\ PoweredOn(t, n, t[n].source)
    BY <1>5, <1>8, <1>11, Zenon
  <2> QED BY <1>6, <2>1, <2>2, Zenon DEF StartsOK
<1> QED BY <1>2, <1>3, <1>4, <1>14, Zenon DEF HistoryOf

(* An observation is added to the scan under way.                          *)
LEMMA ObservationAdded ==
    ASSUME NEW s, NEW t, NEW r, NEW o, NEW now \in Nat, NEW cut, NEW steady, Extension(s, t, r),
           HistoryOf(s, o, now, FALSE, cut, steady), r.sequence = Len(s), r.time = now,
           s[1].kind = "hello", r.kind = "scan_observation", o.command = "scan",
           o.limit \in Nat, Observations(s) < o.limit,
           r.begin <= r.end, r.end <= now, o.redacted => ~ r.identified,
           \E k \in Of(s, "scan_started") :
               s[k].scan = r.scan /\ s[k].source = r.source /\ s[k].begin = r.begin,
           OneWindow(s, r.scan, r.end)
    PROVE  HistoryOf(t, o, now, FALSE, cut, steady)
<1>1. r.kind \in Kinds \ {"complete"}
  BY Zenon DEF Kinds
<1>2. InOrder(t, now) /\ HelloFirst(t, o) /\ EndsOnce(t, FALSE, cut) /\ EndOK(t, o)
  BY <1>1, FrameGrows, Zenon
<1>3. Observations(t) <= o.limit
  BY CountGrows
<1>4. CapsOK(t, o, steady) /\ AuthOK(t, o) /\ StartsOK(t, o, steady)
  BY OthersKeep, Zenon DEF HistoryOf
<1> DEFINE n == Len(t)
<1>5. Len(s) \in Nat /\ n = Len(s) + 1 /\ t[n] = r
  BY Zenon DEF Extension
<1>6. /\ Of(t, "scan_observation") = Of(s, "scan_observation") \cup {n}
      /\ Of(t, "scan_started") = Of(s, "scan_started")
  BY OfGrows
<1>7. \A k : Of(s, k) \subseteq 1..Len(s) /\ \A i \in Of(s, k) : t[i] = s[i]
  BY OfGrows
<1>8. Starts(t, n) = {s[k] : k \in {k \in Of(s, "scan_started") : s[k].scan = r.scan}}
  <2>1. \A k \in Of(s, "scan_started") : k < n /\ t[k] = s[k]
    BY <1>5, <1>7
  <2>2. {k \in Of(t, "scan_started") : k < n /\ t[k].scan = t[n].scan}
        = {k \in Of(s, "scan_started") : s[k].scan = r.scan}
    BY <1>5, <1>6, <2>1
  <2> QED BY <2>1, <2>2 DEF Starts
<1>9. \A i \in Of(s, "scan_observation") : Starts(t, i) = Starts(s, i) /\ t[i] = s[i]
  BY <1>5, <1>7, SeenBefore
<1>10. ObsOK(t, o)
  <2>1. ObsOK(s, o)
    BY Zenon DEF HistoryOf
  <2>2. \E start \in Starts(t, n) : start.source = r.source /\ start.begin = r.begin
    BY <1>8, Zenon
  <2> DEFINE Holds(i) == /\ \E start \in Starts(t, i) :
                                start.source = t[i].source /\ start.begin = t[i].begin
                         /\ t[i].begin <= t[i].end /\ t[i].end <= t[i].time
                         /\ o.redacted => ~ t[i].identified
  <2>3. ASSUME NEW i \in Of(s, "scan_observation") PROVE Holds(i)
    BY <1>9, <2>1 DEF ObsOK
  <2>4. Holds(n)
    BY <1>5, <2>2
  <2> QED BY <1>6, <2>3, <2>4, Zenon DEF ObsOK
<1>11. WindowsClosed(t)
  <2>1. WindowsClosed(s)
    BY Zenon DEF HistoryOf
  <2>2. \A start \in Starts(t, n) : start.time <= r.end
    BY <1>8, Zenon DEF OneWindow
  <2>3. \A k \in Of(s, "scan_observation") : s[k].scan = r.scan => s[k].end = r.end
    BY Zenon DEF OneWindow
  <2>4. ASSUME NEW i \in Of(s, "scan_observation")
        PROVE  /\ \A start \in Starts(t, i) : start.time <= t[i].end
               /\ t[i].scan = t[n].scan => t[i].end = t[n].end
               /\ \A k \in Of(s, "scan_observation") : t[k].scan = t[i].scan => t[k].end = t[i].end
    <3>1. Starts(t, i) = Starts(s, i) /\ t[i] = s[i] /\ t[n] = r
      BY <1>5, <1>9
    <3>2. \A k \in Of(s, "scan_observation") : t[k] = s[k]
      BY <1>9
    <3> QED BY <2>1, <2>3, <3>1, <3>2 DEF WindowsClosed
  <2>5. \A start \in Starts(t, n) : start.time <= t[n].end
    BY <1>5, <2>2, Zenon
  <2> QED BY <1>6, <2>4, <2>5, Zenon DEF WindowsClosed
<1> QED BY <1>2, <1>3, <1>4, <1>10, <1>11, Zenon DEF HistoryOf

(* The terminal record is added.                                           *)
LEMMA CompleteAdded ==
    ASSUME NEW s, NEW t, NEW r, NEW o, NEW now \in Nat, NEW steady, Extension(s, t, r),
           HistoryOf(s, o, now, FALSE, FALSE, steady), r.sequence = Len(s), r.time = now,
           s # <<>> => s[1].kind = "hello", r.kind = "complete",
           r.count = Observations(s), r.partial = (r.status # "ok" /\ Observations(s) > 0),
           r.final # NoFinal => o.command = "authorize",
           r.status = "ok" =>
                /\ o.command = "probe" => Of(s, "capabilities") # {}
                /\ o.command = "scan" => Of(s, "scan_started") # {}
                /\ o.command = "authorize" => Consent(s, r)
    PROVE  HistoryOf(t, o, now, TRUE, FALSE, steady)
<1>1. InOrder(t, now)
  <2>1. r.kind \in Kinds
    BY Zenon DEF Kinds
  <2> QED BY <2>1, OrderGrows, Zenon DEF HistoryOf
<1>2. HelloFirst(t, o)
  BY HelloGrows, Zenon DEF HistoryOf
<1>3. Of(s, "complete") = {}
  BY Zenon DEF HistoryOf, EndsOnce, Of
<1>4. Of(t, "complete") = {Len(t)}
  BY <1>3, OfGrows
<1>5. EndsOnce(t, TRUE, FALSE)
  BY <1>4, Zenon DEF EndsOnce, Of
<1>6. Observations(t) = Observations(s)
  BY CountGrows, Zenon
<1>7. CapsOK(t, o, steady) /\ AuthOK(t, o) /\ StartsOK(t, o, steady) /\ ObsOK(t, o) /\ WindowsClosed(t)
  BY OthersKeep, Zenon DEF HistoryOf
<1>8. \A k : k # "complete" => Of(t, k) = Of(s, k) /\ \A i \in Of(s, k) : t[i] = s[i]
  BY OfGrows
<1>9. Consent(s, r) => Consent(t, r)
  BY <1>8, Zenon DEF Consent
<1>10. t[Len(t)] = r
  BY Zenon DEF Extension
<1>11. EndOK(t, o)
  BY <1>4, <1>6, <1>8, <1>9, <1>10, Zenon DEF EndOK
<1> QED BY <1>1, <1>2, <1>5, <1>6, <1>7, <1>11, Zenon DEF HistoryOf
-----------------------------------------------------------------------------
(* The decoders, on any stream.                                            *)

(* What the Rust decoder asks and contract.py does not are the windows and *)
(* whose final permission it is.                                           *)
LEMMA WindowsDecide ==
    ASSUME NEW s, IsStream(s), WindowsClosed(s), Framed(s) => FinalHolds(s)
    PROVE  decode(s) <=> decode_stream(s)
<1>0. Len(s) \in Nat /\ DOMAIN s = 1..Len(s) /\ (Len(s) >= 1 => s # <<>>)
  BY DEF IsStream
<1>1. Framed(s) => Len(s) >= 2
  <2> SUFFICES ASSUME Framed(s) PROVE Len(s) >= 2
    BY Zenon
  <2>1. 1 \in DOMAIN s /\ s[1].kind = "hello" /\ s[Len(s)].kind = "complete"
    BY Zenon DEF Framed, Of
  <2> QED BY <1>0, <2>1
<1>2. ScansHold(s) /\ ObservationsHold(s) => \A i \in Of(s, "scan_observation") : Offered(s, i)
  <2> SUFFICES ASSUME ScansHold(s), ObservationsHold(s), NEW i \in Of(s, "scan_observation")
               PROVE  Offered(s, i)
    BY Zenon
  <2>1. PICK k \in Of(s, "scan_started") : k < i
    BY Zenon DEF ObservationsHold, Starts
  <2>2. Offered(s, k)
    BY Zenon DEF ScansHold
  <2>3. Caps(s, k) \subseteq Caps(s, i)
    BY <1>0, <2>1 DEF Caps, Of
  <2> QED BY <2>2, <2>3, Zenon DEF Offered
<1> QED BY <1>0, <1>1, <1>2 DEF decode, decode_stream

(* Only an authorize process ends its stream with a final permission.      *)
LEMMA FinalsAreAuthorize ==
    ASSUME History, Framed(stream)
    PROVE  FinalHolds(stream)
<1>1. HelloFirst(stream, options) /\ EndOK(stream, options)
  BY Zenon DEF History, HistoryOf
<1>2. 1 \in Of(stream, "hello") /\ Len(stream) \in Of(stream, "complete")
  BY Zenon DEF Framed
<1>3. stream[1].command = options.command
  BY <1>1, <1>2, Zenon DEF HelloFirst, Of
<1> QED BY <1>1, <1>2, <1>3, Zenon DEF EndOK, FinalHolds

(* A stream whose history holds, with its hello and its end, is decoded.   *)
LEMMA FinishedDecodes ==
    ASSUME IsStream(stream), History, Steady, options.command \in {"probe", "scan", "authorize"},
           Of(stream, "complete") # {}, stream[1].kind = "hello"
    PROVE  decode(stream)
<1> DEFINE s == stream
           o == options
           n == Len(stream)
<1>0. /\ Len(s) \in Nat /\ DOMAIN s = 1..n
      /\ IsStream(s) /\ Of(s, "complete") # {} /\ s[1].kind = "hello"
  BY DEF IsStream
<1>1. HistoryOf(s, o, os.clock, ended, torn, TRUE)
  BY Zenon DEF History, Steady
<1>2. PICK e \in DOMAIN s : s[e].kind = "complete" /\ e = n /\ ~ torn
  BY <1>1, Zenon DEF HistoryOf, EndsOnce, Of
<1>3. Of(s, "complete") = {n}
  BY <1>1, <1>2, Zenon DEF HistoryOf, EndsOnce, Of
<1>4. /\ 1 \in DOMAIN s /\ Of(s, "hello") = {1}
      /\ s[1].command = o.command /\ s[1].limit = o.limit /\ s[1].redacted = o.redacted
  <2>1. HelloFirst(s, o)
    BY <1>1, Zenon DEF HistoryOf
  <2>2. 1 \in DOMAIN s
    BY <1>0, <1>2
  <2>3. \A i \in DOMAIN s : i = 1 \/ i > 1
    BY <1>0
  <2> QED BY <1>0, <2>1, <2>2, <2>3, Zenon DEF HelloFirst, Of
<1>5. Framed(s)
  <2>1. InOrder(s, os.clock)
    BY <1>1, Zenon DEF HistoryOf
  <2>2. \A i \in 2..n : i \in DOMAIN s /\ i - 1 \in 1..i
    BY <1>0
  <2> QED BY <1>3, <1>4, <2>1, <2>2, Zenon DEF Framed, InOrder
<1>6. CapabilitiesHold(s)
  <2>1. CapsOK(s, o, TRUE)
    BY <1>1, Zenon DEF HistoryOf
  <2>2. Cardinality(Of(s, "capabilities")) <= 1
    <3>1. CASE Of(s, "capabilities") = {}
      BY <3>1, FS_EmptySet
    <3>2. CASE Of(s, "capabilities") # {}
      <4>1. PICK c : Of(s, "capabilities") = {c}
        BY <2>1, <3>2, Zenon DEF CapsOK
      <4> QED BY <4>1, FS_Singleton
    <3> QED BY <3>1, <3>2, Zenon
  <2> QED BY <1>4, <2>1, <2>2, Zenon DEF CapsOK, CapabilitiesHold, OfferIsTrue
<1>7. AuthorizationHolds(s)
  BY <1>1, <1>4, Zenon DEF HistoryOf, AuthOK, AuthorizationHolds
<1>8. ScansHold(s)
  BY <1>1, <1>4, Zenon DEF HistoryOf, StartsOK, ScansHold
<1>9. ObservationsHold(s)
  BY <1>1, <1>4, Zenon DEF HistoryOf, ObsOK, ObservationsHold
<1>10. WindowsClosed(s)
  BY <1>1, Zenon DEF HistoryOf
<1>11. Of(s, "scan_started") # {} => Offered(s, n)
  <2> SUFFICES ASSUME NEW k \in Of(s, "scan_started") PROVE Offered(s, n)
    BY Zenon
  <2>1. Offered(s, k)
    BY <1>8, Zenon DEF ScansHold
  <2>2. Caps(s, k) \subseteq Caps(s, n)
    BY <1>0 DEF Caps, Of
  <2> QED BY <2>1, <2>2, Zenon DEF Offered
<1>12. CompletionHolds(s) /\ FinalHolds(s)
  <2>1. EndOK(s, o)
    BY <1>1, Zenon DEF HistoryOf
  <2> QED BY <1>3, <1>4, <1>11, <2>1, Zenon DEF EndOK, CompletionHolds, FinalHolds
<1> QED BY <1>0, <1>2, <1>5, <1>6, <1>7, <1>8, <1>9, <1>10, <1>12 DEF decode
-----------------------------------------------------------------------------
(* A finite set of numbers has an ascending enumeration, so Sorted is one. *)

Ascending(S, s) == s \in [1..Cardinality(S) -> S]
                   /\ \A i, j \in 1..Cardinality(S) : i < j => s[i] < s[j]

(* A nonempty finite set of numbers has a greatest element.                *)
LEMMA Greatest ==
    ASSUME NEW S, S \subseteq Nat, IsFiniteSet(S), S # {}
    PROVE  \E m \in S : \A x \in S : x <= m
<1> DEFINE Bad == {T \in FiniteSubsetsOf(S) : T # {} /\ ~ \E m \in T : \A x \in T : x <= m}
<1> SUFFICES ASSUME Bad # {} PROVE FALSE
  <2>1. S \in FiniteSubsetsOf(S)
    BY Zenon DEF FiniteSubsetsOf
  <2> QED BY <2>1, Zenon
<1>1. Bad \subseteq FiniteSubsetsOf(S)
  BY Zenon
<1>2. PICK T \in Bad : \A U \in Bad : ~ (<<U, T>> \in StrictSubsetOrdering(S))
  BY <1>1, FS_StrictSubsetOrderingWellFounded, WFMin, Zenon
<1>3. T \in SUBSET S /\ IsFiniteSet(T) /\ T # {} /\ ~ \E m \in T : \A x \in T : x <= m
  BY Zenon DEF FiniteSubsetsOf
<1>4. PICK y \in T : TRUE
  BY <1>3, Zenon
<1> DEFINE U == T \ {y}
<1>5. U \in FiniteSubsetsOf(S) /\ <<U, T>> \in StrictSubsetOrdering(S)
  BY <1>3, <1>4, FS_Subset, Zenon DEF FiniteSubsetsOf, StrictSubsetOrdering
<1>6. CASE U = {}
  BY <1>3, <1>4, <1>6
<1>7. CASE U # {}
  <2>1. PICK m \in U : \A x \in U : x <= m
    BY <1>2, <1>5, <1>7, Zenon
  <2>2. y \in Nat /\ m \in Nat /\ T = U \cup {y} /\ U \subseteq Nat
    BY <1>3, <1>4, <2>1, Zenon
  <2>3. CASE y <= m
    BY <1>3, <2>1, <2>2, <2>3, Zenon
  <2>4. CASE ~ (y <= m)
    BY <1>3, <2>1, <2>2, <2>4
  <2> QED BY <2>3, <2>4, Zenon
<1> QED BY <1>6, <1>7, Zenon

(* Sorted enumerates its set in ascending order.                           *)
LEMMA SortedAscends ==
    ASSUME NEW S, S \subseteq Nat, IsFiniteSet(S)
    PROVE  Ascending(S, Sorted(S))
<1> DEFINE Bad == {T \in FiniteSubsetsOf(S) : ~ \E s : Ascending(T, s)}
<1>1. SUFFICES ASSUME Bad # {} PROVE FALSE
  <2>1. S \in FiniteSubsetsOf(S)
    BY Zenon DEF FiniteSubsetsOf
  <2>2. \E s : Ascending(S, s)
    BY <1>1, <2>1, Zenon
  <2> QED BY <2>2, Zenon DEF Ascending, Sorted
<1>2. PICK T \in Bad : \A U \in Bad : ~ (<<U, T>> \in StrictSubsetOrdering(S))
  <2>1. Bad \subseteq FiniteSubsetsOf(S)
    BY Zenon
  <2> QED BY <1>1, <2>1, FS_StrictSubsetOrderingWellFounded, WFMin, Zenon
<1>3. T \in SUBSET S /\ IsFiniteSet(T) /\ ~ \E s : Ascending(T, s)
  BY Zenon DEF FiniteSubsetsOf
<1>4. T # {}
  <2> SUFFICES ASSUME T = {} PROVE FALSE
    BY Zenon
  <2>1. Cardinality(T) = 0
    BY FS_EmptySet, Zenon
  <2>2. Ascending(T, [i \in 1..0 |-> 0])
    BY <2>1 DEF Ascending
  <2> QED BY <1>3, <2>2, Zenon
<1>5. PICK m \in T : \A x \in T : x <= m
  BY <1>3, <1>4, Greatest, Zenon
<1> DEFINE U == T \ {m}
           n == Cardinality(U)
<1>6. U \in FiniteSubsetsOf(S) /\ <<U, T>> \in StrictSubsetOrdering(S)
  BY <1>3, <1>5, FS_Subset, Zenon DEF FiniteSubsetsOf, StrictSubsetOrdering
<1>7. PICK u : Ascending(U, u)
  BY <1>2, <1>6, Zenon
<1>8. n \in Nat /\ Cardinality(T) = n + 1
  <2>1. IsFiniteSet(U) /\ m \notin U /\ T = U \cup {m}
    BY <1>3, <1>5, FS_Subset, Zenon
  <2> QED BY <2>1, FS_AddElement, FS_CardinalityType, Zenon
<1> DEFINE v == [i \in 1..n + 1 |-> IF i <= n THEN u[i] ELSE m]
<1>9. u \in [1..n -> U] /\ \A i, j \in 1..n : i < j => u[i] < u[j]
  BY <1>7, Zenon DEF Ascending
<1>a. U \subseteq T /\ \A x \in U : x # m
  BY Zenon
<1> HIDE DEF U, n
<1>10. v \in [1..n + 1 -> T]
  BY <1>5, <1>8, <1>9, <1>a
<1>11. ASSUME NEW i \in 1..n + 1, NEW j \in 1..n + 1, i < j
       PROVE  v[i] < v[j]
  <2>1. i \in 1..n /\ v[i] = u[i]
    BY <1>8, <1>11
  <2>2. CASE j \in 1..n
    BY <1>8, <1>9, <1>11, <2>1, <2>2
  <2>3. CASE j = n + 1
    <3>1. u[i] \in U /\ v[j] = m
      BY <1>8, <1>9, <2>1, <2>3
    <3>2. u[i] \in Nat /\ m \in Nat /\ u[i] <= m /\ u[i] # m
      BY <1>3, <1>5, <1>a, <3>1, Zenon
    <3> QED BY <2>1, <3>1, <3>2
  <2> QED BY <1>8, <2>2, <2>3
<1>12. Ascending(T, v)
  BY <1>8, <1>10, <1>11, Zenon DEF Ascending
<1> QED BY <1>3, <1>12, Zenon
=============================================================================
