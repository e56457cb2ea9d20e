------------------------ MODULE CollectorWireProofs ------------------------
(***************************************************************************)
(* Theorems about CollectorWire.                                           *)
(***************************************************************************)
EXTENDS CollectorStreamProofs

-----------------------------------------------------------------------------
(* What one thread's step leaves of the others' places.                    *)

Gathered == {"capabilities", "scan_started", "scan_observation"}

Alike(s, t) ==
    /\ \A k \in Gathered : Of(t, k) = Of(s, k) /\ \A i \in Of(s, k) : t[i] = s[i]
    /\ Observations(t) = Observations(s)

LEMMA AlikeGrows ==
    ASSUME NEW s, NEW t, NEW r, Extension(s, t, r), r.kind \notin Gathered
    PROVE  Alike(s, t)
<1>1. \A k \in Gathered : Of(t, k) = Of(s, k) /\ \A i \in Of(s, k) : t[i] = s[i]
  BY OfGrows
<1>2. Observations(t) = Observations(s)
  BY CountGrows DEF Gathered
<1> QED BY <1>1, <1>2, Zenon DEF Alike

(* The collecting thread's place survives what others write, the end of    *)
(* the stream, the clock, and a change of power.                           *)
LEMMA CollectKept ==
    ASSUME WireType, CollectsOK, at'["collect"] \in {at["collect"], "Exit"}, Alike(stream, stream'),
           options' = options, local' = local, ended => ended',
           os'.clock \in Nat, os.clock <= os'.clock, Steady' => Steady /\ os'.power = os.power
    PROVE  CollectsOK'
<1> DEFINE c == at["collect"]
<1>0. /\ CollectOK(c, options, stream, ended, local, os.clock, os.power, Steady)
      /\ options' = options /\ local' = local /\ (ended => ended')
  BY Zenon DEF CollectsOK
<1>1. CASE at'["collect"] = "Exit"
  BY <1>1, Zenon DEF CollectsOK, CollectOK, Lists, Scans, InScan, Returned
<1>2. CASE at'["collect"] = c
  <2>1. /\ Of(stream', "capabilities") = Of(stream, "capabilities")
        /\ Of(stream', "scan_started") = Of(stream, "scan_started")
    BY Zenon DEF Alike, Gathered
  <2>2. Announced(stream, local.listed[1]) => Announced(stream', local.listed[1])
    BY Zenon DEF Alike, Gathered, Announced
  <2>3. Begun(stream, local) => Begun(stream', local)
    BY Zenon DEF Alike, Gathered, Begun
  <2>4. Listing(local, os.power, Steady) => Listing(local, os'.power, Steady')
    BY Zenon DEF Listing
  <2>5. Observations(stream') = Observations(stream)
    BY Zenon DEF Alike
  <2>6. local.begin <= os.clock => local.begin <= os'.clock
    BY DEF WireType
  <2>7. local.end <= os.clock => local.end <= os'.clock
    BY DEF WireType
  <2>8. (Steady => os.power[Head(local.todo)]) => (Steady' => os'.power[Head(local.todo)])
    BY Zenon
  <2>9. CollectOK(c, options, stream', ended', local, os'.clock, os'.power, Steady')
    BY <1>0, <2>1, <2>2, <2>3, <2>4, <2>5, <2>6, <2>7, <2>8 DEF CollectOK
  <2> QED BY <1>0, <1>2, <2>9, Zenon DEF CollectsOK
<1> QED BY <1>1, <1>2

LEMMA ScanKept ==
    ASSUME NEW c, NEW c2 \in {c, "Exit"}, NEW s, NEW t, Alike(s, t), NEW l, ScanOK(c, s, l)
    PROVE  ScanOK(c2, t, l)
<1>1. Numbered(t, l.scan)
  BY Zenon DEF Alike, Gathered, ScanOK, Numbered
<1>2. NoResults(s, l.scan) => NoResults(t, l.scan)
  BY Zenon DEF Alike, Gathered, NoResults
<1>3. OneWindow(s, l.scan, l.end) => OneWindow(t, l.scan, l.end)
  BY Zenon DEF Alike, Gathered, OneWindow
<1> QED BY <1>1, <1>2, <1>3, Zenon DEF ScanOK, Returned

(* While the collecting thread works, the main thread is in its loop.      *)
LEMMA MainDuring ==
    ASSUME NEW m, NEW c, NEW d, NEW c2, c # "Idle", NEW o, o.command # "authorize",
           NEW s, NEW t, NEW done, ~ done => t # <<>> /\ t[1] = s[1], NEW listed, NEW listed2,
           MainOK(m, c, d, o, s, done, listed)
    PROVE  MainOK(m, c2, d, o, t, done, listed2)
BY DEF MainOK
-----------------------------------------------------------------------------
(* The two ways a step writes.                                             *)

LEMMA StampedFields ==
    ASSUME NEW rec
    PROVE  /\ Stamped(rec).sequence = Len(stream) /\ Stamped(rec).time = os.clock
           /\ \A f \in DOMAIN rec : f \notin {"sequence", "time"} => Stamped(rec)[f] = rec[f]
BY Zenon DEF Stamped

(* A record is written, or nothing is.                                     *)
LEMMA EmitStep ==
    ASSUME NEW th, NEW rec, NEW next, Emit(th, rec, next), IsStream(stream)
    PROVE  \/ /\ ~ ended /\ Extension(stream, stream', Stamped(rec))
              /\ UNCHANGED <<os, options, ended, torn, exit>>
           \/ stream' = stream /\ ended /\ UNCHANGED <<os, options, ended, torn, exit>>
           \/ /\ stream' = stream /\ ~ ended /\ torn' /\ exit' # <<>>
              /\ UNCHANGED <<os, options, ended>>
<1>1. CASE ended
  BY <1>1, Zenon DEF Emit
<1>2. CASE ~ ended /\ stream' = Written(rec) /\ UNCHANGED <<torn, exit>>
  <2>1. Extension(stream, stream', Stamped(rec))
    BY <1>2, Grown, Zenon DEF Written
  <2> QED BY <1>2, <2>1, Zenon DEF Emit
<1>3. CASE ~ ended /\ stream' = stream /\ torn' = TRUE /\ exit' = <<74>>
  BY <1>3, Zenon DEF Emit
<1> QED BY <1>1, <1>2, <1>3, Zenon DEF Emit

(* While the process runs on, the record was written whole.                *)
LEMMA EmitRunning ==
    ASSUME NEW th, NEW rec, NEW next, Emit(th, rec, next), IsStream(stream), Running'
    PROVE  /\ UNCHANGED <<os, options, ended, torn>>
           /\ (ended /\ stream' = stream) \/ (~ ended /\ Extension(stream, stream', Stamped(rec)))
BY EmitStep, Zenon DEF Running

(* The history survives a step that writes no whole record: time passes,   *)
(* power changes, the stream ends or is cut.                               *)
LEMMA HistoryUnwritten ==
    ASSUME WireType, History, stream' = stream, options' = options,
           os'.clock \in Nat, os.clock <= os'.clock, os.flapped => os'.flapped,
           ended => ended', torn' => torn \/ ~ ended
    PROVE  History'
<1>0. os.clock \in Nat /\ HistoryOf(stream, options, os.clock, ended, torn, Steady)
  BY Zenon DEF WireType, History
<1>1. InOrder(stream, os'.clock)
  BY <1>0 DEF HistoryOf, InOrder
<1>2. EndsOnce(stream, ended', torn')
  BY <1>0, Zenon DEF HistoryOf, EndsOnce
<1>3. CapsOK(stream, options, Steady')
  BY <1>0, Zenon DEF HistoryOf, CapsOK, Steady
<1>4. StartsOK(stream, options, Steady')
  BY <1>0, Zenon DEF HistoryOf, StartsOK, Steady
<1> QED BY <1>0, <1>1, <1>2, <1>3, <1>4, Zenon DEF History, HistoryOf

(* The first record of a stream that goes on is the hello.                 *)
LEMMA HelloLeads ==
    ASSUME WireInv, Running, ~ ended
    PROVE  stream # <<>> => stream[1].kind = "hello" /\ at["main"] # "Hello"
BY Zenon DEF WireInv, ThreadsOK, MainOK

(* The terminal record agrees with the stream before it.                   *)
LEMMA FinishHistory ==
    ASSUME WireInv, Running, NEW th, NEW status, NEW code, NEW extra,
           Finish(th, status, code, extra),
           extra # NoFinal => options.command = "authorize",
           ~ ended /\ status = "ok" =>
                /\ options.command = "probe" => Of(stream, "capabilities") # {}
                /\ options.command = "scan" => Of(stream, "scan_started") # {}
                /\ options.command = "authorize" =>
                    /\ \E i \in Of(stream, "authorization") :
                        stream[i].services /\ (stream[i].auth = "authorized" \/ stream[i].prompt)
                    /\ extra = FinalOf(TRUE, "authorized")
    PROVE  History'
<1> DEFINE rec == [kind |-> "complete", status |-> status, final |-> extra,
                   count |-> Observations(stream),
                   partial |-> status # "ok" /\ Observations(stream) > 0]
           r == Stamped(rec)
<1>1. WireType /\ History /\ ~ torn /\ os.clock \in Nat /\ IsStream(stream)
  BY Zenon DEF WireInv, WireType
<1>2. UNCHANGED <<os, options>>
  BY Zenon DEF Finish
<1>3. CASE ended
  <2>1. UNCHANGED <<ended, stream, torn>>
    BY <1>3, Zenon DEF Finish
  <2> QED BY <1>1, <1>2, <2>1, HistoryUnwritten
<1>4. CASE ~ ended /\ ended' = TRUE /\ stream' = stream
  BY <1>1, <1>2, <1>4, HistoryUnwritten
<1>5. CASE ~ ended /\ ended' = TRUE /\ stream' = Written(rec) /\ UNCHANGED torn
  <2>1. Extension(stream, stream', r)
    BY <1>1, <1>5, Grown, Zenon DEF Written
  <2>2. /\ r.sequence = Len(stream) /\ r.time = os.clock /\ r.kind = "complete"
        /\ r.status = status /\ r.final = extra /\ r.count = Observations(stream)
        /\ r.partial = (status # "ok" /\ Observations(stream) > 0)
    BY StampedFields, Zenon
  <2> HIDE DEF r
  <2>a. ended = FALSE /\ torn = FALSE
    BY <1>1, <1>5, Zenon DEF WireType
  <2>3. HistoryOf(stream, options, os.clock, FALSE, FALSE, Steady)
    BY <1>1, <2>a, Zenon DEF History
  <2>4. stream # <<>> => stream[1].kind = "hello"
    BY <1>5, HelloLeads, Zenon
  <2>5. r.status = "ok" =>
            /\ options.command = "probe" => Of(stream, "capabilities") # {}
            /\ options.command = "scan" => Of(stream, "scan_started") # {}
            /\ options.command = "authorize" => Consent(stream, r)
    BY <1>5, <2>2, Zenon DEF Consent
  <2>6. HistoryOf(stream', options, os.clock, TRUE, FALSE, Steady)
    BY <1>1, <2>1, <2>2, <2>3, <2>4, <2>5, CompleteAdded, Zenon
  <2>7. ended' = TRUE /\ torn' = FALSE /\ options' = options /\ os' = os
    BY <1>2, <1>5, <2>a, Zenon
  <2> QED BY <2>6, <2>7, Zenon DEF History, Steady
<1> QED BY <1>3, <1>4, <1>5, Zenon DEF Finish

(* Every thread's place agrees with the ended stream.                      *)
LEMMA FinishThreads ==
    ASSUME WireInv, Running, NEW th \in Threads, NEW status, NEW code, NEW extra,
           Finish(th, status, code, extra),
           th = "collect" => at["collect"] # "Idle", th = "delegate" => at["delegate"] # "Idle"
    PROVE  Running' => ~ torn' /\ ThreadsOK'
<1> SUFFICES ASSUME Running' PROVE ~ torn' /\ ThreadsOK'
  BY Zenon
<1>1. WireType /\ ~ torn /\ ThreadsOK
  BY Zenon DEF WireInv
<1>2. UNCHANGED <<os, options, local>> /\ at' = [at EXCEPT ![th] = "Exit"]
  BY Zenon DEF Finish
<1>3. at \in [Threads -> Places] /\ {"main", "collect", "delegate"} \subseteq Threads
  BY <1>1, Zenon DEF WireType, Threads
<1>4. /\ at'["main"] \in {at["main"], "Exit"}
      /\ at'["collect"] \in {at["collect"], "Exit"} /\ at'["delegate"] \in {at["delegate"], "Exit"}
      /\ at'["collect"] = at["collect"] \/ at["collect"] # "Idle"
      /\ at'["delegate"] = at["delegate"] \/ at["delegate"] # "Idle"
  BY <1>2, <1>3, Zenon
<1>5. ~ torn' /\ ended' = TRUE /\ Alike(stream, stream')
  <2>1. Alike(stream, stream)
    BY Zenon DEF Alike
  <2>2. CASE ended
    BY <1>1, <2>1, <2>2, Zenon DEF Finish, WireType
  <2>3. CASE ~ ended
    <3> DEFINE rec == [kind |-> "complete", status |-> status, final |-> extra,
                       count |-> Observations(stream),
                       partial |-> status # "ok" /\ Observations(stream) > 0]
    <3>1. ended' = TRUE /\ stream' = Written(rec) /\ torn' = torn
      BY <2>3, Zenon DEF Finish, Running
    <3>2. Extension(stream, stream', Stamped(rec))
      BY <1>1, <3>1, Grown, Zenon DEF Written, WireType
    <3>3. Stamped(rec).kind = "complete"
      BY StampedFields, Zenon
    <3>4. Alike(stream, stream')
      BY <3>2, <3>3, AlikeGrows, Zenon DEF Gathered
    <3> QED BY <1>1, <3>1, <3>4, Zenon
  <2> QED BY <2>2, <2>3, Zenon
<1>6. MainOK(at'["main"], at'["collect"], at'["delegate"], options, stream', TRUE, local.listed)
  BY <1>1, <1>4, Zenon DEF ThreadsOK, MainOK
<1>7. CollectsOK'
  <2>1. os'.clock \in Nat /\ os.clock <= os'.clock /\ (Steady' => Steady /\ os'.power = os.power)
    BY <1>1, <1>2 DEF WireType, Steady
  <2> QED BY <1>1, <1>2, <1>4, <1>5, <2>1, CollectKept, Zenon DEF ThreadsOK
<1>8. ScanOK(at'["collect"], stream', local)
  BY <1>1, <1>4, <1>5, ScanKept DEF ThreadsOK
<1> QED BY <1>2, <1>5, <1>6, <1>7, <1>8, Zenon DEF ThreadsOK

(* A step that writes nothing whole, or adds a record that continues the   *)
(* history, continues the history.                                         *)
LEMMA EmitHistory ==
    ASSUME WireInv, Running, NEW th, NEW rec, NEW next, Emit(th, rec, next),
           ~ ended /\ Extension(stream, stream', Stamped(rec)) =>
                HistoryOf(stream', options, os.clock, FALSE, FALSE, Steady)
    PROVE  History'
<1>1. WireType /\ History /\ IsStream(stream) /\ os.clock \in Nat /\ torn = FALSE /\ ended \in BOOLEAN
  BY Zenon DEF WireInv, WireType
<1>2. CASE ~ ended /\ Extension(stream, stream', Stamped(rec)) /\ UNCHANGED <<os, options, ended, torn>>
  <2>1. ended' = FALSE /\ torn' = FALSE /\ os' = os /\ options' = options
    BY <1>1, <1>2, Zenon
  <2>2. HistoryOf(stream', options, os.clock, FALSE, FALSE, Steady)
    BY <1>2, Zenon
  <2> QED BY <2>1, <2>2, Zenon DEF History, Steady
<1>3. CASE stream' = stream /\ UNCHANGED <<os, options, ended>> /\ (torn' => torn \/ ~ ended)
  BY <1>1, <1>3, HistoryUnwritten
<1> QED BY <1>1, <1>2, <1>3, EmitStep, Zenon

(* The history as the next record meets it.                                *)
LEMMA OpenHistory ==
    ASSUME WireInv, Running, ~ ended
    PROVE  /\ HistoryOf(stream, options, os.clock, FALSE, FALSE, Steady)
           /\ os.clock \in Nat /\ IsStream(stream) /\ torn = FALSE /\ ended = FALSE
<1>1. os.clock \in Nat /\ IsStream(stream) /\ torn = FALSE /\ ended = FALSE
  BY Zenon DEF WireInv, WireType
<1>2. HistoryOf(stream, options, os.clock, FALSE, FALSE, Steady)
  BY <1>1, Zenon DEF WireInv, History
<1> QED BY <1>1, <1>2, Zenon
-----------------------------------------------------------------------------
(* The actions.                                                            *)

LEMMA MainHelloStep ==
    ASSUME WireInv, MainHello
    PROVE  History' /\ (Running' => ~ torn' /\ ThreadsOK')
<1> DEFINE rec == [kind |-> "hello", command |-> options.command, limit |-> options.limit,
                   redacted |-> options.redacted]
           next == IF options.command = "authorize" THEN "Authorize" ELSE "Start"
           r == Stamped(rec)
<1>1. /\ WireType /\ ~ torn /\ ThreadsOK /\ Running /\ at["main"] = "Hello"
      /\ Emit("main", rec, next) /\ local' = local /\ IsStream(stream)
  BY Zenon DEF WireInv, MainHello, WireType
<1>2. /\ r.sequence = Len(stream) /\ r.time = os.clock /\ r.kind = "hello"
      /\ r.command = options.command /\ r.limit = options.limit /\ r.redacted = options.redacted
  BY StampedFields, Zenon
<1>3. at["collect"] = "Idle" /\ at["delegate"] = "Idle" /\ (~ ended => stream = <<>>)
  BY <1>1, Zenon DEF ThreadsOK, MainOK
<1>4. at'["main"] = next /\ at'["collect"] = "Idle" /\ at'["delegate"] = "Idle"
  BY <1>1, <1>3, Zenon DEF Emit, WireType, Threads
<1>5. History'
  <2>1. ASSUME ~ ended, Extension(stream, stream', r)
        PROVE  HistoryOf(stream', options, os.clock, FALSE, FALSE, Steady)
    <3> HIDE DEF r
    <3> QED BY <1>1, <1>2, <1>3, <2>1, OpenHistory, HelloAdded, Zenon
  <2> HIDE DEF rec, next
  <2> QED BY <1>1, <2>1, EmitHistory, Zenon
<1>6. ASSUME Running' PROVE ~ torn' /\ ThreadsOK'
  <2>1. /\ UNCHANGED <<os, options, ended, torn>>
        /\ (ended /\ stream' = stream) \/ (~ ended /\ Extension(stream, stream', r))
    <3> HIDE DEF rec, next
    <3> QED BY <1>1, <1>6, EmitRunning, Zenon
  <2>2. ~ ended => stream' # <<>> /\ stream'[1].kind = "hello" /\ Len(stream') = 1
    <3> HIDE DEF r
    <3>1. ~ ended => Len(stream') = 1 /\ stream'[1] = r
      BY <1>2, <1>3, <2>1 DEF Extension
    <3>2. ~ ended => stream'[1].kind = "hello"
      BY <1>2, <3>1, Zenon
    <3>3. Len(stream') = 1 => stream' # <<>>
      OBVIOUS
    <3> QED BY <3>1, <3>2, <3>3, Zenon
  <2>3. MainOK(next, "Idle", "Idle", options, stream', ended, local.listed)
    BY <2>2, Zenon DEF MainOK
  <2>4. Alike(stream, stream')
    <3>1. Alike(stream, stream)
      BY Zenon DEF Alike
    <3> HIDE DEF r
    <3> QED BY <1>2, <2>1, <3>1, AlikeGrows, Zenon DEF Gathered
  <2>5. CollectsOK'
    <3>1. os'.clock \in Nat /\ os.clock <= os'.clock /\ (Steady' => Steady /\ os'.power = os.power)
      BY <1>1, <2>1 DEF WireType, Steady
    <3> QED BY <1>1, <1>3, <1>4, <2>1, <2>4, <3>1, CollectKept, Zenon DEF ThreadsOK
  <2>6. ScanOK(at'["collect"], stream', local)
    BY <1>1, <1>3, <1>4, <2>4, ScanKept, Zenon DEF ThreadsOK
  <2> HIDE DEF next
  <2> QED BY <1>1, <1>4, <2>1, <2>3, <2>5, <2>6, Zenon DEF ThreadsOK
<1> QED BY <1>5, <1>6, Zenon

LEMMA MainAuthorizeStep ==
    ASSUME WireInv, MainAuthorize
    PROVE  History' /\ (Running' => ~ torn' /\ ThreadsOK')
<1> DEFINE rec == [kind |-> "authorization", auth |-> os.auth, services |-> os.services,
                   prompt |-> MayRequest(os.services, os.auth)]
           next == IF MayRequest(os.services, os.auth) THEN "Request" ELSE "Assessed"
           r == Stamped(rec)
<1>1. /\ WireType /\ ~ torn /\ ThreadsOK /\ Running /\ at["main"] = "Authorize"
      /\ Emit("main", rec, next) /\ IsStream(stream) /\ os.services \in BOOLEAN
      /\ local' = [local EXCEPT !.listed = <<[services |-> os.services, auth |-> os.auth]>>]
  BY Zenon DEF WireInv, MainAuthorize, WireType
<1>2. /\ r.sequence = Len(stream) /\ r.time = os.clock /\ r.kind = "authorization"
      /\ r.services = os.services /\ r.auth = os.auth
      /\ r.prompt = MayRequest(os.services, os.auth)
  BY StampedFields, Zenon
<1>3. options.command = "authorize" /\ (~ ended => Len(stream) = 1 /\ stream[1].kind = "hello")
  BY <1>1, Zenon DEF ThreadsOK, MainOK
<1>4. at'["main"] = next /\ at'["collect"] = at["collect"] /\ at'["delegate"] = at["delegate"]
  BY <1>1, Zenon DEF Emit, WireType, Threads
<1>5. History'
  <2>1. ASSUME ~ ended, Extension(stream, stream', r)
        PROVE  HistoryOf(stream', options, os.clock, FALSE, FALSE, Steady)
    <3> HIDE DEF r
    <3> QED BY <1>1, <1>2, <1>3, <2>1, OpenHistory, AuthorizationAdded, Zenon
  <2> HIDE DEF rec, next
  <2> QED BY <1>1, <2>1, EmitHistory, Zenon
<1>6. ASSUME Running' PROVE ~ torn' /\ ThreadsOK'
  <2>1. /\ UNCHANGED <<os, options, ended, torn>>
        /\ (ended /\ stream' = stream) \/ (~ ended /\ Extension(stream, stream', r))
    <3> HIDE DEF rec, next
    <3> QED BY <1>1, <1>6, EmitRunning, Zenon
  <2>2. local'.listed[1].services = os.services /\ local'.listed[1].auth = os.auth
        /\ local'.scan = local.scan
    BY <1>1, Zenon DEF WireType
  <2>3. ~ ended => /\ stream' # <<>> /\ stream'[1].kind = "hello"
                   /\ Len(stream') \in Of(stream', "authorization") /\ stream'[Len(stream')] = r
    <3> HIDE DEF r
    <3> QED BY <1>2, <1>3, <2>1 DEF Extension, Of
  <2>4. ~ ended => Assessed(stream', local'.listed[1])
    BY <1>1, <1>2, <2>2, <2>3, Zenon DEF Assessed
  <2>5. ~ ended /\ MayRequest(os.services, os.auth) => Asked(stream')
    BY <1>2, <2>3, Zenon DEF Asked, MayRequest
  <2>6. MainOK(next, at["collect"], at["delegate"], options, stream', ended, local'.listed)
    <3>1. MainOK("Authorize", at["collect"], at["delegate"], options, stream, ended, local.listed)
      BY <1>1, Zenon DEF ThreadsOK
    <3>2. at["delegate"] = "Set" /\ ~ ended => Asked(stream')
      <4>1. Asked(stream) => Asked(stream')
        BY <1>1, <2>1, OfGrows DEF Asked
      <4> QED BY <3>1, <4>1, Zenon DEF MainOK
    <3> QED BY <1>3, <2>3, <2>4, <2>5, <3>2, Zenon DEF MainOK
  <2>7. Alike(stream, stream')
    <3>1. Alike(stream, stream)
      BY DEF Alike
    <3> HIDE DEF r
    <3> QED BY <1>2, <2>1, <3>1, AlikeGrows, Zenon DEF Gathered
  <2>8. CollectsOK'
    <3>1. /\ ~ Lists(at["collect"]) /\ ~ Scans(at["collect"])
          /\ at["collect"] = "Idle" => Of(stream, "capabilities") = {}
      BY <1>1, <1>3, Zenon DEF ThreadsOK, CollectsOK, CollectOK
    <3> QED BY <1>4, <2>7, <3>1, Zenon
        DEF CollectsOK, CollectOK, Alike, Gathered, Lists, Scans, InScan, Returned
  <2>9. ScanOK(at'["collect"], stream', local')
    <3>1. ~ Scans(at["collect"]) /\ ScanOK(at["collect"], stream, local)
      BY <1>1, <1>3, Zenon DEF ThreadsOK, CollectsOK, CollectOK
    <3>2. ScanOK(at["collect"], stream', local)
      BY <2>7, <3>1, ScanKept, Zenon
    <3> QED BY <1>4, <2>2, <3>1, <3>2, Zenon DEF ScanOK, Scans, InScan, Returned
  <2> HIDE DEF next
  <2> QED BY <1>1, <1>4, <2>1, <2>6, <2>8, <2>9, Zenon DEF ThreadsOK
<1> QED BY <1>5, <1>6

LEMMA MainStartStep ==
    ASSUME WireInv, MainStart
    PROVE  History' /\ (Running' => ~ torn' /\ ThreadsOK')
<1>1. /\ WireType /\ History /\ ~ torn /\ ThreadsOK /\ Running /\ at["main"] = "Start"
      /\ UNCHANGED <<os, options, ended, stream, torn, local>>
  BY Zenon DEF WireInv, MainStart
<1>2. at'["main"] = "Loop" /\ at'["collect"] = "List" /\ at'["delegate"] = at["delegate"]
  BY <1>1, Zenon DEF MainStart, WireType, Threads
<1>3. History'
  BY <1>1, HistoryUnwritten DEF WireType
<1>4. at["collect"] = "Idle" /\ options.command \in {"probe", "scan"}
  BY <1>1, CollectorWireAssumption, Zenon DEF ThreadsOK, MainOK, WireType
<1>5. MainOK("Loop", "List", at["delegate"], options, stream, ended, local.listed)
  BY <1>1, Zenon DEF ThreadsOK, MainOK
<1>6. CollectOK("List", options, stream, ended, local, os.clock, os.power, Steady)
  BY <1>1, <1>4, Zenon DEF ThreadsOK, CollectsOK, CollectOK, Lists, Scans, InScan, Returned
<1>7. ScanOK("List", stream, local)
  BY <1>1, <1>4, Zenon DEF ThreadsOK, ScanOK, Returned
<1>8. UNCHANGED Steady
  BY <1>1, Zenon DEF Steady
<1> QED BY <1>1, <1>2, <1>3, <1>5, <1>6, <1>7, <1>8, Zenon DEF ThreadsOK, CollectsOK

LEMMA MainRequestStep ==
    ASSUME WireInv, MainRequest
    PROVE  History' /\ (Running' => ~ torn' /\ ThreadsOK')
<1>1. /\ WireType /\ History /\ ~ torn /\ ThreadsOK /\ Running /\ at["main"] = "Request"
      /\ UNCHANGED <<os, options, ended, stream, torn, local>>
  BY Zenon DEF WireInv, MainRequest
<1>2. at'["main"] = "Loop" /\ at'["collect"] = at["collect"] /\ at'["delegate"] = "Set"
  BY <1>1, Zenon DEF MainRequest, WireType, Threads
<1>3. History'
  BY <1>1, HistoryUnwritten DEF WireType
<1>4. MainOK("Loop", at["collect"], "Set", options, stream, ended, local.listed)
  BY <1>1, Zenon DEF ThreadsOK, MainOK
<1>5. UNCHANGED Steady
  BY <1>1, Zenon DEF Steady
<1> QED BY <1>1, <1>2, <1>3, <1>4, <1>5, Zenon DEF ThreadsOK, CollectsOK

(* The authorize command ends: a grant is reported only after one was      *)
(* assessed or asked for.                                                  *)
LEMMA FinishAuthorizeStep ==
    ASSUME WireInv, Running, NEW th \in {"main", "delegate"}, NEW services \in BOOLEAN, NEW auth,
           FinishAuthorize(th, services, auth), options.command = "authorize",
           th = "delegate" => at["delegate"] # "Idle",
           ~ ended => Asked(stream) \/ Assessed(stream, [services |-> services, auth |-> auth])
    PROVE  History' /\ (Running' => ~ torn' /\ ThreadsOK')
<1>1. th \in Threads /\ th # "collect"
  BY Zenon DEF Threads
<1>2. CASE MayScan(services, auth)
  <2>1. Finish(th, "ok", 0, FinalOf(services, auth))
    BY <1>2, Zenon DEF FinishAuthorize
  <2>2. services = TRUE /\ auth = "authorized"
    BY <1>2, Zenon DEF MayScan
  <2>3. ~ ended => \E i \in Of(stream, "authorization") :
                stream[i].services /\ (stream[i].auth = "authorized" \/ stream[i].prompt)
    BY <2>2, Zenon DEF Asked, Assessed
  <2>4. History'
    BY <2>1, <2>2, <2>3, FinishHistory, Zenon
  <2> QED BY <1>1, <2>1, <2>4, FinishThreads, Zenon
<1>3. CASE ~ MayScan(services, auth)
  <2>1. Finish(th, "permission_required", 77, FinalOf(services, auth))
    BY <1>3, Zenon DEF FinishAuthorize
  <2>2. History'
    BY <2>1, FinishHistory, Zenon
  <2> QED BY <1>1, <2>1, <2>2, FinishThreads, Zenon
<1> QED BY <1>2, <1>3, Zenon

LEMMA MainAssessedStep ==
    ASSUME WireInv, MainAssessed
    PROVE  History' /\ (Running' => ~ torn' /\ ThreadsOK')
<1> DEFINE l == local.listed[1]
<1>1. Running /\ at["main"] = "Assessed" /\ FinishAuthorize("main", l.services, l.auth)
  BY Zenon DEF MainAssessed
<1>2. /\ options.command = "authorize"
      /\ ~ ended => Assessed(stream, l)
  BY <1>1, Zenon DEF WireInv, ThreadsOK, MainOK
<1>3. ~ ended => l.services \in BOOLEAN /\ Assessed(stream, [services |-> l.services, auth |-> l.auth])
  BY <1>2, Zenon DEF Assessed
<1>4. CASE ~ ended
  BY <1>1, <1>2, <1>3, <1>4, FinishAuthorizeStep, Zenon
<1>5. CASE ended
  <2>1. PICK status, code : Finish("main", status, code, FinalOf(l.services, l.auth))
    BY <1>1, Zenon DEF FinishAuthorize
  <2>2. History'
    BY <1>1, <1>2, <1>5, <2>1, FinishHistory, Zenon
  <2>3. "main" \in Threads
    BY Zenon DEF Threads
  <2> QED BY <1>1, <2>1, <2>2, <2>3, FinishThreads, Zenon
<1> QED BY <1>4, <1>5, Zenon

LEMMA DidChangeStep ==
    ASSUME WireInv, DidChangeAuthorization
    PROVE  History' /\ (Running' => ~ torn' /\ ThreadsOK')
<1>1. Running /\ at["delegate"] = "Set" /\ FinishAuthorize("delegate", os.services, os.auth)
  BY Zenon DEF DidChangeAuthorization
<1>2. options.command = "authorize" /\ (~ ended => Asked(stream))
  BY <1>1, Zenon DEF WireInv, ThreadsOK, MainOK
<1>3. os.services \in BOOLEAN
  BY Zenon DEF WireInv, WireType
<1> QED BY <1>1, <1>2, <1>3, FinishAuthorizeStep, Zenon

LEMMA HandleStep ==
    ASSUME WireInv, NEW h \in Handlers, Handle(h)
    PROVE  History' /\ (Running' => ~ torn' /\ ThreadsOK')
<1>1. Running /\ h \in Threads /\ h # "collect" /\ h # "delegate"
  BY CollectorWireAssumption, Zenon DEF Handle, Threads
<1>2. PICK status, code : status # "ok" /\ Finish(h, status, code, NoFinal)
  <2>1. h \in {"deadline", "sigint", "sigterm"}
    BY CollectorWireAssumption, Zenon
  <2> QED BY <2>1, Zenon DEF Handle
<1>3. History'
  BY <1>1, <1>2, FinishHistory, Zenon
<1> QED BY <1>1, <1>2, <1>3, FinishThreads, Zenon

LEMMA ExitsStep ==
    ASSUME WireInv, NEW th \in Threads, Exits(th)
    PROVE  History' /\ (Running' => ~ torn' /\ ThreadsOK')
<1>1. /\ WireType /\ History /\ exit' = <<leaving[th]>>
      /\ UNCHANGED <<os, options, ended, stream, torn>>
  BY Zenon DEF WireInv, Exits
<1>2. History'
  BY <1>1, HistoryUnwritten DEF WireType
<1>3. ~ Running'
  BY <1>1, Zenon DEF Running
<1> QED BY <1>2, <1>3, Zenon

(* Time, permission and power change under the threads' feet.              *)
LEMMA SystemStep ==
    ASSUME WireInv, Tick \/ Environment
    PROVE  History' /\ (Running' => ~ torn' /\ ThreadsOK')
<1>1. /\ WireType /\ History /\ Running /\ ~ torn /\ ThreadsOK
      /\ UNCHANGED <<options, ended, stream, torn, at, local>>
  BY Zenon DEF WireInv, Tick, Environment
<1> DEFINE Moves == /\ os'.clock \in Nat /\ os.clock <= os'.clock
                    /\ os.flapped => os'.flapped
                    /\ Steady' => Steady /\ os'.power = os.power
<1>2. Moves
  <2>1. CASE Tick
    BY <1>1, <2>1 DEF WireType, Tick, Steady
  <2>2. ASSUME NEW v \in BOOLEAN, NEW a \in States,
               os' = [os EXCEPT !.services = v, !.auth = a, !.changes = @ + 1]
        PROVE  Moves
    BY <1>1, <2>2 DEF WireType, Steady
  <2>3. ASSUME NEW i \in Interfaces,
               os' = [os EXCEPT !.power[i] = ~ @, !.changes = @ + 1, !.flapped = TRUE]
        PROVE  Moves
    BY <1>1, <2>3 DEF WireType, Steady
  <2> HIDE DEF Moves
  <2> QED BY <2>1, <2>2, <2>3, Zenon DEF Environment
<1>3. History'
  BY <1>1, <1>2, HistoryUnwritten, Zenon
<1>4. CollectsOK'
  <2>1. Alike(stream, stream')
    BY <1>1, Zenon DEF Alike
  <2> QED BY <1>1, <1>2, <2>1, CollectKept, Zenon DEF ThreadsOK
<1>5. ThreadsOK'
  BY <1>1, <1>4, Zenon DEF ThreadsOK
<1> QED BY <1>1, <1>3, <1>5, Zenon

(* A step of the collecting thread that ends the stream.                   *)
LEMMA CollectFinishes ==
    ASSUME WireInv, Running, at["collect"] # "Idle", NEW status, NEW code,
           Finish("collect", status, code, NoFinal),
           ~ ended /\ status = "ok" =>
                /\ options.command = "probe" => Of(stream, "capabilities") # {}
                /\ options.command = "scan" => Of(stream, "scan_started") # {}
                /\ options.command # "authorize"
    PROVE  History' /\ (Running' => ~ torn' /\ ThreadsOK')
<1>1. "collect" \in Threads
  BY Zenon DEF Threads
<1>2. History'
  BY FinishHistory, Zenon
<1> QED BY <1>1, <1>2, FinishThreads, Zenon

(* A step of the collecting thread that writes nothing.                    *)
LEMMA CollectMoves ==
    ASSUME WireInv, Running, at["collect"] # "Idle", options.command # "authorize",
           NEW c, at' = [at EXCEPT !["collect"] = c], UNCHANGED <<os, options, ended, stream, torn>>,
           CollectOK(c, options, stream, ended, local', os.clock, os.power, Steady),
           ScanOK(c, stream, local')
    PROVE  History' /\ (Running' => ~ torn' /\ ThreadsOK')
<1>1. WireType /\ History /\ ~ torn /\ ThreadsOK
  BY Zenon DEF WireInv
<1>2. History'
  BY <1>1, HistoryUnwritten DEF WireType
<1>3. at'["main"] = at["main"] /\ at'["collect"] = c /\ at'["delegate"] = at["delegate"]
  BY <1>1, Zenon DEF WireType, Threads
<1>4. MainOK(at["main"], c, at["delegate"], options, stream, ended, local'.listed)
  BY <1>1, Zenon DEF ThreadsOK, MainOK
<1>5. UNCHANGED Steady
  BY Zenon DEF Steady
<1> QED BY <1>1, <1>2, <1>3, <1>4, <1>5, Zenon DEF ThreadsOK, CollectsOK

(* A step of the collecting thread that writes a record.                   *)
LEMMA CollectWrites ==
    ASSUME WireInv, Running, at["collect"] # "Idle", options.command # "authorize",
           NEW rec, NEW c, Emit("collect", rec, c),
           ~ ended /\ Extension(stream, stream', Stamped(rec)) =>
                HistoryOf(stream', options, os.clock, FALSE, FALSE, Steady),
           (ended /\ stream' = stream) \/ (~ ended /\ Extension(stream, stream', Stamped(rec))) =>
                /\ CollectOK(c, options, stream', ended, local', os.clock, os.power, Steady)
                /\ ScanOK(c, stream', local')
    PROVE  History' /\ (Running' => ~ torn' /\ ThreadsOK')
<1>1. WireType /\ ~ torn /\ ThreadsOK /\ IsStream(stream)
  BY Zenon DEF WireInv, WireType
<1>2. History'
  BY EmitHistory, Zenon
<1>3. ASSUME Running' PROVE ~ torn' /\ ThreadsOK'
  <2>1. /\ UNCHANGED <<os, options, ended, torn>>
        /\ (ended /\ stream' = stream) \/ (~ ended /\ Extension(stream, stream', Stamped(rec)))
    BY <1>1, <1>3, EmitRunning, Zenon
  <2>2. at'["main"] = at["main"] /\ at'["collect"] = c /\ at'["delegate"] = at["delegate"]
    BY <1>1, Zenon DEF Emit, WireType, Threads
  <2>3. ~ ended => stream' # <<>> /\ stream'[1] = stream[1]
    <3>1. ~ ended => stream # <<>>
      BY <1>1, Zenon DEF ThreadsOK, MainOK
    <3>2. stream # <<>> => Len(stream) > 0
      BY <1>1 DEF IsStream
    <3> QED BY <2>1, <3>1, <3>2 DEF Extension
  <2>4. MainOK(at["main"], c, at["delegate"], options, stream', ended, local'.listed)
    BY <1>1, <2>3 DEF ThreadsOK, MainOK
  <2>5. UNCHANGED Steady
    BY <2>1, Zenon DEF Steady
  <2> QED BY <1>1, <2>1, <2>2, <2>4, <2>5, Zenon DEF ThreadsOK, CollectsOK
<1> QED BY <1>2, <1>3, Zenon

(* The interfaces of a listing, sorted.                                    *)
LEMMA NamesListed ==
    ASSUME NEW visible \in Listings, NEW names, names = Sorted({i \in visible : Wanted(i)})
    PROVE  /\ names \in Seq(Interfaces) /\ Range(names) \subseteq Interfaces
           /\ Cardinality(Range(names)) <= Cardinality(visible)
<1> DEFINE S == {i \in visible : Wanted(i)}
<1>1. visible \subseteq Interfaces /\ IsFiniteSet(visible) /\ S \subseteq visible
  BY CollectorWireAssumption, FS_Subset, Zenon
<1>2. S \subseteq Nat /\ IsFiniteSet(S) /\ Cardinality(S) \in Nat
  BY <1>1, CollectorWireAssumption, FS_Subset, FS_CardinalityType, Zenon
<1> HIDE DEF S
<1>3. names \in [1..Cardinality(S) -> S]
  BY <1>2, SortedAscends, Zenon DEF Ascending, S
<1>4. names \in Seq(Interfaces)
  <2>1. names \in [1..Cardinality(S) -> Interfaces]
    BY <1>1, <1>3, Zenon
  <2> QED BY <1>2, <2>1
<1>5. Range(names) \subseteq visible
  BY <1>1, <1>3, Zenon DEF Range
<1> QED BY <1>1, <1>4, <1>5, FS_Subset, Zenon

LEMMA ListStep ==
    ASSUME WireInv, NEW visible \in Listings, List(visible)
    PROVE  History' /\ (Running' => ~ torn' /\ ThreadsOK')
<1>1. /\ WireType /\ ThreadsOK /\ Running /\ at["collect"] = "List"
      /\ options.command \in {"probe", "scan"} /\ Of(stream, "capabilities") = {}
  BY Zenon DEF WireInv, ThreadsOK, List, CollectAt, CollectsOK, CollectOK, Lists
<1>2. CASE Finish("collect", "error", 70, NoFinal)
  BY <1>1, <1>2, CollectFinishes, Zenon
<1>3. CASE ~ Finish("collect", "error", 70, NoFinal)
  <2> DEFINE names == Sorted({i \in visible : Wanted(i)})
             sources == [i \in Range(names) |-> os.power[i]]
  <2>1. /\ Cardinality(visible) <= MaxInterfaces
        /\ local' = [local EXCEPT !.permitted = Permitted,
                        !.listed = <<[services |-> os.services, auth |-> os.auth,
                                      sources |-> sources]>>,
                        !.todo = names]
        /\ at' = [at EXCEPT !["collect"] = "Capabilities"] /\ CollectStays
    BY <1>3, Zenon DEF List
  <2>2. /\ names \in Seq(Interfaces) /\ Range(names) \subseteq Interfaces
        /\ Cardinality(Range(names)) <= Cardinality(visible)
    BY NamesListed, Zenon
  <2>3. Cardinality(Range(names)) <= MaxInterfaces
    <3>1. IsFiniteSet(visible) /\ IsFiniteSet(Range(names))
      BY <2>2, CollectorWireAssumption, FS_Subset, Zenon
    <3>2. Cardinality(visible) \in Nat /\ Cardinality(Range(names)) \in Nat
      BY <3>1, FS_CardinalityType, Zenon
    <3> HIDE DEF names
    <3> QED BY <2>1, <2>2, <3>2, CollectorWireAssumption
  <2> HIDE DEF names
  <2>4. /\ local'.todo = names /\ local'.permitted = Permitted /\ local'.scan = local.scan
        /\ local'.listed[1].services = os.services /\ local'.listed[1].auth = os.auth
        /\ local'.listed[1].sources = sources
    BY <1>1, <2>1, Zenon DEF WireType
  <2>5. Listing(local', os.power, Steady)
    BY <2>4, Zenon DEF Listing, Permitted
  <2>6. CollectOK("Capabilities", options, stream, ended, local', os.clock, os.power, Steady)
    BY <1>1, <2>3, <2>4, <2>5, Zenon DEF CollectOK, Lists, Scans, InScan, Returned
  <2>7. ScanOK("Capabilities", stream, local')
    BY <1>1, <2>4, Zenon DEF ThreadsOK, ScanOK, Returned
  <2> QED BY <1>1, <2>1, <2>6, <2>7, CollectMoves, Zenon DEF CollectStays
<1> QED BY <1>2, <1>3, Zenon

LEMMA CapabilitiesStep ==
    ASSUME WireInv, Capabilities
    PROVE  History' /\ (Running' => ~ torn' /\ ThreadsOK')
<1> DEFINE l == local.listed[1]
           offer == local.permitted /\ \E i \in Range(local.todo) : os.power[i]
           rec == [kind |-> "capabilities", scan |-> offer, services |-> l.services,
                   auth |-> l.auth, sources |-> l.sources]
           r == Stamped(rec)
<1>1. /\ WireType /\ ThreadsOK /\ Running /\ at["collect"] = "Capabilities"
      /\ Emit("collect", rec, "Admit") /\ local' = local
  BY Zenon DEF WireInv, Capabilities, CollectAt
<1>2. /\ options.command \in {"probe", "scan"} /\ Of(stream, "capabilities") = {}
      /\ DOMAIN l.sources = Range(local.todo) /\ Cardinality(DOMAIN l.sources) <= MaxInterfaces
      /\ Listing(local, os.power, Steady)
  BY <1>1, Zenon DEF ThreadsOK, CollectsOK, CollectOK, Lists
<1>3. /\ r.sequence = Len(stream) /\ r.time = os.clock /\ r.kind = "capabilities" /\ r.scan = offer
      /\ r.services = l.services /\ r.auth = l.auth /\ r.sources = l.sources
  BY StampedFields
<1>4. Steady => OfferIsTrue(r)
  <2>1. local.permitted = MayScan(l.services, l.auth)
    BY <1>2, Zenon DEF Listing
  <2>2. Steady => \A n \in DOMAIN l.sources : l.sources[n] = os.power[n]
    BY <1>2, Zenon DEF Listing
  <2> HIDE DEF r, l
  <2> QED BY <1>2, <1>3, <2>1, <2>2, Zenon DEF OfferIsTrue
<1> HIDE DEF rec, r
<1>5. ASSUME ~ ended, Extension(stream, stream', r)
      PROVE  HistoryOf(stream', options, os.clock, FALSE, FALSE, Steady)
  <2>1. stream[1].kind = "hello"
    BY <1>1, <1>5, Zenon DEF ThreadsOK, MainOK
  <2>2. Cardinality(DOMAIN r.sources) <= MaxInterfaces
    BY <1>2, <1>3, Zenon
  <2> HIDE DEF l, offer
  <2> QED BY <1>1, <1>2, <1>3, <1>4, <1>5, <2>1, <2>2, OpenHistory, CapabilitiesAdded, Zenon
<1>6. ASSUME (ended /\ stream' = stream) \/ (~ ended /\ Extension(stream, stream', r))
      PROVE  /\ CollectOK("Admit", options, stream', ended, local, os.clock, os.power, Steady)
             /\ ScanOK("Admit", stream', local)
  <2>1. ~ ended => Announced(stream', l)
    <3>1. ~ ended => Len(stream') \in Of(stream', "capabilities") /\ stream'[Len(stream')] = r
      BY <1>3, <1>6 DEF Extension, Of
    <3> QED BY <1>3, <3>1, Zenon DEF Announced
  <2>2. Numbered(stream', local.scan)
    <3>1. Numbered(stream, local.scan)
      BY <1>1, Zenon DEF ThreadsOK, ScanOK
    <3> QED BY <1>3, <1>6, <3>1, OfGrows DEF Numbered
  <2> QED BY <1>2, <2>1, <2>2, Zenon DEF CollectOK, ScanOK, Lists, Scans, InScan, Returned
<1> QED BY <1>1, <1>2, <1>5, <1>6, CollectWrites, Zenon DEF r

LEMMA AdmitStep ==
    ASSUME WireInv, Admit
    PROVE  History' /\ (Running' => ~ torn' /\ ThreadsOK')
<1>1. /\ WireType /\ ThreadsOK /\ Running /\ at["collect"] = "Admit"
  BY Zenon DEF WireInv, Admit, CollectAt
<1>2. /\ options.command \in {"probe", "scan"} /\ Listing(local, os.power, Steady)
      /\ ~ ended => Announced(stream, local.listed[1])
  BY <1>1, Zenon DEF ThreadsOK, CollectsOK, CollectOK, Lists
<1>3. CASE options.command = "probe"
  <2>1. Finish("collect", "ok", 0, NoFinal)
    BY <1>3, Zenon DEF Admit
  <2>2. ~ ended => Of(stream, "capabilities") # {}
    BY <1>2, Zenon DEF Announced
  <2> QED BY <1>1, <1>3, <2>1, <2>2, CollectFinishes, Zenon
<1>4. CASE options.command # "probe" /\ ~ local.permitted
  <2>1. Finish("collect", "permission_required", 77, NoFinal)
    BY <1>4, Zenon DEF Admit
  <2> QED BY <1>1, <2>1, CollectFinishes, Zenon
<1>5. CASE options.command # "probe" /\ local.permitted /\ local.todo = <<>>
  <2>1. Finish("collect", "unsupported", 69, NoFinal)
    BY <1>5, Zenon DEF Admit
  <2> QED BY <1>1, <2>1, CollectFinishes, Zenon
<1>6. CASE options.command # "probe" /\ local.permitted /\ local.todo # <<>>
  <2>1. at' = [at EXCEPT !["collect"] = "Interface"] /\ UNCHANGED local /\ CollectStays
    BY <1>6, Zenon DEF Admit
  <2>2. CollectOK("Interface", options, stream, ended, local', os.clock, os.power, Steady)
    BY <1>2, <1>6, <2>1, Zenon DEF CollectOK, Lists, Scans, InScan, Returned
  <2>3. ScanOK("Interface", stream, local')
    BY <1>1, <2>1, Zenon DEF ThreadsOK, ScanOK, Returned
  <2> QED BY <1>1, <1>2, <2>1, <2>2, <2>3, CollectMoves, Zenon DEF CollectStays
<1> QED BY <1>3, <1>4, <1>5, <1>6, Zenon

LEMMA StartScanStep ==
    ASSUME WireInv, StartScan
    PROVE  History' /\ (Running' => ~ torn' /\ ThreadsOK')
<1>1. WireType /\ ThreadsOK /\ Running /\ at["collect"] = "Interface"
  BY Zenon DEF WireInv, StartScan, CollectAt
<1>2. /\ options.command = "scan" /\ local.permitted /\ Listing(local, os.power, Steady)
      /\ ~ ended => Announced(stream, local.listed[1])
      /\ local.todo = <<>> /\ ~ ended => Of(stream, "scan_started") # {}
  BY <1>1, Zenon DEF ThreadsOK, CollectsOK, CollectOK, Scans
<1>3. CASE local.todo = <<>>
  <2>1. Finish("collect", "ok", 0, NoFinal)
    BY <1>3, Zenon DEF StartScan
  <2> QED BY <1>1, <1>2, <1>3, <2>1, CollectFinishes, Zenon
<1>4. CASE Finish("collect", "unavailable", 69, NoFinal)
  BY <1>1, <1>4, CollectFinishes, Zenon
<1>5. CASE Finish("collect", "permission_required", 77, NoFinal)
  BY <1>1, <1>5, CollectFinishes, Zenon
<1>6. CASE /\ local.todo # <<>> /\ os.power[Head(local.todo)]
           /\ local' = [local EXCEPT !.begin = os.clock]
           /\ at' = [at EXCEPT !["collect"] = "Started"] /\ CollectStays
  <2>1. /\ local'.begin = os.clock /\ local'.todo = local.todo /\ local'.listed = local.listed
        /\ local'.permitted = local.permitted /\ local'.scan = local.scan /\ os.clock <= os.clock
    BY <1>1, <1>6 DEF WireType
  <2>2. Listing(local', os.power, Steady)
    BY <1>2, <2>1, Zenon DEF Listing
  <2>3. CollectOK("Started", options, stream, ended, local', os.clock, os.power, Steady)
    BY <1>2, <1>6, <2>1, <2>2, Zenon DEF CollectOK, Lists, Scans, InScan, Returned
  <2>4. ScanOK("Started", stream, local')
    BY <1>1, <2>1, Zenon DEF ThreadsOK, ScanOK, Returned
  <2> QED BY <1>1, <1>2, <1>6, <2>3, <2>4, CollectMoves, Zenon DEF CollectStays
<1> QED BY <1>3, <1>4, <1>5, <1>6, Zenon DEF StartScan

(* What a scanning thread still finds in the stream after its own record.  *)
LEMMA AnnouncedGrows ==
    ASSUME NEW s, NEW t, NEW r, Extension(s, t, r), NEW l
    PROVE  /\ Announced(s, l) => Announced(t, l)
           /\ Begun(s, l) => Begun(t, l)
<1>1. \A k : Of(s, k) \subseteq Of(t, k) /\ \A i \in Of(s, k) : t[i] = s[i]
  BY OfGrows
<1> QED BY <1>1, Zenon DEF Announced, Begun

LEMMA EmitStartedStep ==
    ASSUME WireInv, EmitStarted
    PROVE  History' /\ (Running' => ~ torn' /\ ThreadsOK')
<1> DEFINE l == local.listed[1]
           src == Head(local.todo)
           rec == [kind |-> "scan_started", scan |-> local.scan + 1, source |-> src,
                   begin |-> local.begin]
           r == Stamped(rec)
<1>1. /\ WireType /\ ThreadsOK /\ Running /\ at["collect"] = "Started"
      /\ Emit("collect", rec, "Scanning") /\ local' = [local EXCEPT !.scan = @ + 1]
  BY Zenon DEF WireInv, EmitStarted, CollectAt
<1>2. /\ options.command = "scan" /\ local.permitted /\ Listing(local, os.power, Steady)
      /\ ~ ended => Announced(stream, l)
      /\ local.todo # <<>> /\ local.begin <= os.clock /\ (Steady => os.power[src])
  BY <1>1, Zenon DEF ThreadsOK, CollectsOK, CollectOK, Scans, InScan
<1>3. Numbered(stream, local.scan) /\ local.scan \in Nat
  BY <1>1, Zenon DEF ThreadsOK, ScanOK, WireType
<1>4. src \in Range(local.todo)
  BY <1>1, <1>2 DEF WireType, Range
<1>5. /\ r.sequence = Len(stream) /\ r.time = os.clock /\ r.kind = "scan_started"
      /\ r.scan = local.scan + 1 /\ r.source = src /\ r.begin = local.begin
  BY StampedFields, Zenon
<1> HIDE DEF rec, r
<1>6. ASSUME ~ ended, Extension(stream, stream', r)
      PROVE  HistoryOf(stream', options, os.clock, FALSE, FALSE, Steady)
  <2>1. stream[1].kind = "hello"
    BY <1>1, <1>6, Zenon DEF ThreadsOK, MainOK
  <2>2. \A k \in Of(stream, "scan_started") : stream[k].scan # r.scan
    BY <1>3, <1>5 DEF Numbered
  <2>3. HistoryOf(stream, options, os.clock, FALSE, FALSE, Steady) /\ os.clock \in Nat
    BY <1>1, <1>6, OpenHistory, Zenon
  <2>4. ASSUME Steady
        PROVE  \E c \in Of(stream, "capabilities") :
                    /\ stream[c].scan /\ r.source \in DOMAIN stream[c].sources
                    /\ stream[c].sources[r.source]
    <3>1. PICK c \in Of(stream, "capabilities") :
                /\ stream[c].sources = l.sources /\ stream[c].services = l.services
                /\ stream[c].auth = l.auth
      BY <1>2, <1>6, Zenon DEF Announced
    <3>2. src \in DOMAIN l.sources /\ l.sources[src] /\ MayScan(l.services, l.auth)
      BY <1>2, <1>4, <2>4, Zenon DEF Listing
    <3>3. OfferIsTrue(stream[c])
      BY <2>3, <2>4, Zenon DEF HistoryOf, CapsOK
    <3>4. stream[c].scan
      BY <3>1, <3>2, <3>3, Zenon DEF OfferIsTrue
    <3> QED BY <1>5, <3>1, <3>2, <3>4, Zenon
  <2>5. r.begin <= os.clock
    BY <1>2, <1>5, Zenon
  <2> HIDE DEF src
  <2> QED BY <1>2, <1>5, <1>6, <2>1, <2>2, <2>3, <2>4, <2>5, StartAdded, Zenon
<1>7. ASSUME (ended /\ stream' = stream) \/ (~ ended /\ Extension(stream, stream', r))
      PROVE  /\ CollectOK("Scanning", options, stream', ended, local', os.clock, os.power, Steady)
             /\ ScanOK("Scanning", stream', local')
  <2>1. /\ local'.scan = local.scan + 1 /\ local'.todo = local.todo /\ local'.begin = local.begin
        /\ local'.listed = local.listed /\ local'.permitted = local.permitted
    BY <1>1, Zenon DEF WireType
  <2>2. ~ ended => Announced(stream', l)
    BY <1>2, <1>7, AnnouncedGrows
  <2>3. ~ ended => Begun(stream', local')
    <3>1. ~ ended => Len(stream') \in Of(stream', "scan_started") /\ stream'[Len(stream')] = r
      BY <1>5, <1>7 DEF Extension, Of
    <3> QED BY <1>5, <2>1, <3>1, Zenon DEF Begun
  <2>4. Listing(local', os.power, Steady)
    BY <1>2, <2>1, Zenon DEF Listing
  <2>5. CollectOK("Scanning", options, stream', ended, local', os.clock, os.power, Steady)
    BY <1>2, <2>1, <2>2, <2>3, <2>4, Zenon DEF CollectOK, Lists, Scans, InScan, Returned
  <2>6. /\ Of(stream', "scan_observation") = Of(stream, "scan_observation")
        /\ \A i \in Of(stream, "scan_observation") : stream'[i] = stream[i]
        /\ \A i \in Of(stream', "scan_started") :
                (i \in Of(stream, "scan_started") /\ stream'[i] = stream[i]) \/ stream'[i] = r
    <3>1. CASE stream' = stream
      BY <3>1, Zenon
    <3>2. CASE Extension(stream, stream', r)
      <4>1. stream'[Len(stream')] = r
        BY <3>2, Zenon DEF Extension
      <4> QED BY <1>5, <3>2, <4>1, OfGrows
    <3> QED BY <1>7, <3>1, <3>2, Zenon
  <2>7. Numbered(stream', local'.scan)
    BY <1>3, <1>5, <2>1, <2>6 DEF Numbered
  <2>8. NoResults(stream', local'.scan)
    BY <1>3, <2>1, <2>6 DEF Numbered, NoResults
  <2> QED BY <2>5, <2>7, <2>8, Zenon DEF ScanOK, Returned
<1> QED BY <1>1, <1>2, <1>6, <1>7, CollectWrites, Zenon DEF r

LEMMA ScanReturnsStep ==
    ASSUME WireInv, NEW n \in 0..MaxResults, ScanReturns(n)
    PROVE  History' /\ (Running' => ~ torn' /\ ThreadsOK')
<1>1. WireType /\ History /\ ThreadsOK /\ Running /\ at["collect"] = "Scanning"
  BY Zenon DEF WireInv, ScanReturns, CollectAt
<1>2. /\ options.command = "scan" /\ local.permitted /\ Listing(local, os.power, Steady)
      /\ ~ ended => Announced(stream, local.listed[1]) /\ Begun(stream, local)
      /\ local.todo # <<>> /\ local.begin <= os.clock /\ (Steady => os.power[Head(local.todo)])
  BY <1>1, Zenon DEF ThreadsOK, CollectsOK, CollectOK, Scans, InScan
<1>3. CASE ~ Permitted
  <2>1. Finish("collect", "permission_required", 77, NoFinal)
    BY <1>3, Zenon DEF ScanReturns
  <2> QED BY <1>1, <2>1, CollectFinishes, Zenon
<1>4. CASE Permitted
  <2>1. /\ local' = [local EXCEPT !.end = os.clock, !.results = n]
        /\ at' = [at EXCEPT !["collect"] = "Network"] /\ CollectStays
    BY <1>4, Zenon DEF ScanReturns
  <2>2. /\ local'.begin = local.begin /\ local'.todo = local.todo /\ local'.listed = local.listed
        /\ local'.permitted = local.permitted /\ local'.scan = local.scan /\ local'.end = os.clock
        /\ os.clock <= os.clock
    BY <1>1, <2>1 DEF WireType
  <2>3. Listing(local', os.power, Steady)
    BY <1>2, <2>2, Zenon DEF Listing
  <2>4. ~ ended => Begun(stream, local')
    BY <1>2, <2>2, Zenon DEF Begun
  <2>5. CollectOK("Network", options, stream, ended, local', os.clock, os.power, Steady)
    BY <1>2, <2>2, <2>3, <2>4, Zenon DEF CollectOK, Lists, Scans, InScan, Returned
  <2>6. OneWindow(stream, local'.scan, local'.end)
    <3>1. NoResults(stream, local.scan)
      BY <1>1, Zenon DEF ThreadsOK, ScanOK
    <3>2. \A k \in Of(stream, "scan_started") : stream[k].time <= os.clock
      BY <1>1 DEF History, HistoryOf, InOrder, Of, WireType
    <3> QED BY <2>2, <3>1, <3>2, Zenon DEF OneWindow, NoResults
  <2>7. ScanOK("Network", stream, local')
    BY <1>1, <2>2, <2>6, Zenon DEF ThreadsOK, ScanOK
  <2> QED BY <1>1, <1>2, <2>1, <2>5, <2>7, CollectMoves, Zenon DEF CollectStays
<1> QED BY <1>3, <1>4, Zenon

LEMMA ScanFailsStep ==
    ASSUME WireInv, ScanFails
    PROVE  History' /\ (Running' => ~ torn' /\ ThreadsOK')
<1>1. Running /\ at["collect"] = "Scanning" /\ Finish("collect", "error", 70, NoFinal)
  BY Zenon DEF ScanFails, CollectAt
<1> QED BY <1>1, CollectFinishes, Zenon

LEMMA NextNetworkStep ==
    ASSUME WireInv, NextNetwork
    PROVE  History' /\ (Running' => ~ torn' /\ ThreadsOK')
<1>1. WireType /\ ThreadsOK /\ Running /\ at["collect"] = "Network"
  BY Zenon DEF WireInv, NextNetwork, CollectAt
<1>2. /\ options.command = "scan" /\ local.permitted /\ Listing(local, os.power, Steady)
      /\ ~ ended => Announced(stream, local.listed[1]) /\ Begun(stream, local)
      /\ local.todo # <<>> /\ local.begin <= os.clock /\ (Steady => os.power[Head(local.todo)])
      /\ local.begin <= local.end /\ local.end <= os.clock
  BY <1>1, Zenon DEF ThreadsOK, CollectsOK, CollectOK, Scans, InScan, Returned
<1>3. CASE local.results = 0
  <2>1. /\ local' = [local EXCEPT !.todo = Tail(@)]
        /\ at' = [at EXCEPT !["collect"] = "Interface"] /\ CollectStays
    BY <1>3, Zenon DEF NextNetwork
  <2>2. /\ local'.todo = Tail(local.todo) /\ local'.listed = local.listed
        /\ local'.permitted = local.permitted /\ local'.scan = local.scan
    BY <1>1, <2>1, Zenon DEF WireType
  <2>3. Range(Tail(local.todo)) \subseteq Range(local.todo)
    <3>1. local.todo \in Seq(Interfaces)
      BY <1>1, Zenon DEF WireType
    <3>2. \A i \in DOMAIN Tail(local.todo) :
                i + 1 \in DOMAIN local.todo /\ Tail(local.todo)[i] = local.todo[i + 1]
      BY <1>2, <3>1
    <3> QED BY <3>2, Zenon DEF Range
  <2>4. Listing(local', os.power, Steady)
    BY <1>2, <2>2, <2>3, Zenon DEF Listing
  <2>5. ~ ended => Of(stream, "scan_started") # {}
    BY <1>2, Zenon DEF Begun
  <2>6. CollectOK("Interface", options, stream, ended, local', os.clock, os.power, Steady)
    BY <1>2, <2>2, <2>4, <2>5, Zenon DEF CollectOK, Lists, Scans, InScan, Returned
  <2>7. ScanOK("Interface", stream, local')
    BY <1>1, <2>2, Zenon DEF ThreadsOK, ScanOK, Returned
  <2> QED BY <1>1, <1>2, <2>1, <2>6, <2>7, CollectMoves, Zenon DEF CollectStays
<1>4. CASE local.results # 0 /\ ~ Permitted
  <2>1. Finish("collect", "permission_required", 77, NoFinal)
    BY <1>4, Zenon DEF NextNetwork
  <2> QED BY <1>1, <2>1, CollectFinishes, Zenon
<1>5. CASE local.results # 0 /\ Permitted /\ Observations(stream) >= options.limit
  <2>1. Finish("collect", "partial", 2, NoFinal)
    BY <1>5, Zenon DEF NextNetwork
  <2> QED BY <1>1, <2>1, CollectFinishes, Zenon
<1>6. CASE local.results # 0 /\ Permitted /\ ~ (Observations(stream) >= options.limit)
  <2>1. at' = [at EXCEPT !["collect"] = "Publish"] /\ local' = local /\ CollectStays
    BY <1>6, Zenon DEF NextNetwork
  <2>2. Observations(stream) < options.limit
    <3>1. options.limit \in Nat
      BY <1>1, CollectorWireAssumption, Zenon DEF WireType
    <3>2. Extension(stream, Append(stream, 0), 0)
      BY <1>1, Grown, Zenon DEF WireType
    <3>3. Observations(stream) \in Nat
      BY <3>2, CountGrows, Zenon
    <3> QED BY <1>6, <3>1, <3>3
  <2>3. CollectOK("Publish", options, stream, ended, local', os.clock, os.power, Steady)
    BY <1>2, <2>1, <2>2, Zenon DEF CollectOK, Lists, Scans, InScan, Returned
  <2>4. ScanOK("Publish", stream, local')
    BY <1>1, <2>1, Zenon DEF ThreadsOK, ScanOK, Returned
  <2> QED BY <1>1, <1>2, <2>1, <2>3, <2>4, CollectMoves, Zenon DEF CollectStays
<1> QED BY <1>3, <1>4, <1>5, <1>6, Zenon

LEMMA PublishStep ==
    ASSUME WireInv, Publish
    PROVE  History' /\ (Running' => ~ torn' /\ ThreadsOK')
<1> DEFINE src == Head(local.todo)
           rec == [kind |-> "scan_observation", scan |-> local.scan, source |-> src,
                   begin |-> local.begin, end |-> local.end, identified |-> ~ options.redacted]
           r == Stamped(rec)
<1>1. /\ WireType /\ ThreadsOK /\ Running /\ at["collect"] = "Publish"
      /\ Emit("collect", rec, "Network") /\ local' = [local EXCEPT !.results = @ - 1]
  BY Zenon DEF WireInv, Publish, CollectAt
<1>2. /\ options.command = "scan" /\ local.permitted /\ Listing(local, os.power, Steady)
      /\ ~ ended => Announced(stream, local.listed[1]) /\ Begun(stream, local)
      /\ local.todo # <<>> /\ local.begin <= os.clock /\ (Steady => os.power[src])
      /\ local.begin <= local.end /\ local.end <= os.clock
      /\ Observations(stream) < options.limit
  BY <1>1, Zenon DEF ThreadsOK, CollectsOK, CollectOK, Scans, InScan, Returned
<1>3. /\ Numbered(stream, local.scan) /\ OneWindow(stream, local.scan, local.end)
      /\ local.scan \in Nat
  BY <1>1, Zenon DEF ThreadsOK, ScanOK, Returned, WireType
<1>4. /\ r.sequence = Len(stream) /\ r.time = os.clock /\ r.kind = "scan_observation"
      /\ r.scan = local.scan /\ r.source = src /\ r.begin = local.begin /\ r.end = local.end
      /\ r.identified = ~ options.redacted
  BY StampedFields
<1> HIDE DEF rec, r
<1>5. ASSUME ~ ended, Extension(stream, stream', r)
      PROVE  HistoryOf(stream', options, os.clock, FALSE, FALSE, Steady)
  <2>1. stream[1].kind = "hello"
    BY <1>1, <1>5, Zenon DEF ThreadsOK, MainOK
  <2>2. HistoryOf(stream, options, os.clock, FALSE, FALSE, Steady) /\ os.clock \in Nat
    BY <1>1, <1>5, OpenHistory, Zenon
  <2>3. \E k \in Of(stream, "scan_started") :
            stream[k].scan = r.scan /\ stream[k].source = r.source /\ stream[k].begin = r.begin
    BY <1>2, <1>4, <1>5, Zenon DEF Begun
  <2>4. OneWindow(stream, r.scan, r.end)
    BY <1>3, <1>4, Zenon
  <2>5. options.limit \in Nat /\ (options.redacted => ~ r.identified)
    BY <1>1, <1>4, CollectorWireAssumption, Zenon DEF WireType
  <2> HIDE DEF src
  <2> QED BY <1>2, <1>4, <1>5, <2>1, <2>2, <2>3, <2>4, <2>5, ObservationAdded, Zenon
<1>6. ASSUME (ended /\ stream' = stream) \/ (~ ended /\ Extension(stream, stream', r))
      PROVE  /\ CollectOK("Network", options, stream', ended, local', os.clock, os.power, Steady)
             /\ ScanOK("Network", stream', local')
  <2>1. /\ local'.scan = local.scan /\ local'.todo = local.todo /\ local'.begin = local.begin
        /\ local'.end = local.end /\ local'.listed = local.listed
        /\ local'.permitted = local.permitted
    BY <1>1, Zenon DEF WireType
  <2>2. ~ ended => Announced(stream', local.listed[1]) /\ Begun(stream', local)
    BY <1>2, <1>6, AnnouncedGrows
  <2>3. ~ ended => Begun(stream', local')
    BY <2>1, <2>2, Zenon DEF Begun
  <2>4. Listing(local', os.power, Steady)
    BY <1>2, <2>1, Zenon DEF Listing
  <2>5. CollectOK("Network", options, stream', ended, local', os.clock, os.power, Steady)
    BY <1>2, <2>1, <2>2, <2>3, <2>4, Zenon DEF CollectOK, Lists, Scans, InScan, Returned
  <2>6. /\ Of(stream', "scan_started") = Of(stream, "scan_started")
        /\ \A i \in Of(stream, "scan_started") : stream'[i] = stream[i]
        /\ \A i \in Of(stream', "scan_observation") :
                (i \in Of(stream, "scan_observation") /\ stream'[i] = stream[i]) \/ stream'[i] = r
    <3>1. CASE stream' = stream
      BY <3>1, Zenon
    <3>2. CASE Extension(stream, stream', r)
      <4>1. stream'[Len(stream')] = r
        BY <3>2 DEF Extension
      <4> QED BY <1>4, <3>2, <4>1, OfGrows
    <3> QED BY <1>6, <3>1, <3>2, Zenon
  <2>7. Numbered(stream', local'.scan)
    BY <1>3, <1>4, <2>1, <2>6 DEF Numbered
  <2>8. OneWindow(stream', local'.scan, local'.end)
    BY <1>3, <1>4, <2>1, <2>6 DEF OneWindow
  <2> QED BY <2>5, <2>7, <2>8, Zenon DEF ScanOK
<1> QED BY <1>1, <1>2, <1>5, <1>6, CollectWrites, Zenon DEF r
-----------------------------------------------------------------------------
(* Types.                                                                  *)

(* Writing and finishing keep the types of what they touch.                *)
LEMMA EmitType ==
    ASSUME WireType, NEW th \in Threads, NEW rec, NEW next \in Places, Emit(th, rec, next)
    PROVE  /\ os' = os /\ options' = options /\ ended' = ended
           /\ torn' \in BOOLEAN /\ late' \in Nat /\ IsStream(stream') /\ at' \in [Threads -> Places]
<1>1. os' = os /\ options' = options /\ ended' = ended /\ at' \in [Threads -> Places] /\ late' \in Nat
  BY DEF Emit, WireType
<1>2. torn' \in BOOLEAN
  BY Zenon DEF Emit, WireType
<1>3. IsStream(stream')
  BY EmitStep, Zenon DEF WireType, Extension
<1> QED BY <1>1, <1>2, <1>3, Zenon

LEMMA FinishType ==
    ASSUME WireType, NEW th \in Threads, NEW status, NEW code, NEW extra,
           Finish(th, status, code, extra)
    PROVE  WireType'
<1>1. os' = os /\ options' = options /\ local' = local /\ late' = late
  BY Zenon DEF Finish
<1>2. at' \in [Threads -> Places]
  BY Zenon DEF Finish, WireType, Places
<1>3. ended' \in BOOLEAN /\ torn' \in BOOLEAN
  BY Zenon DEF Finish, WireType
<1>4. IsStream(stream')
  <2>1. \A r : IsStream(Append(stream, r))
    BY Grown, Zenon DEF WireType, Extension
  <2>2. IsStream(stream) /\ (stream' = stream \/ \E r : stream' = Append(stream, r))
    BY Zenon DEF Finish, Written, WireType
  <2> QED BY <2>1, <2>2, Zenon
<1> QED BY <1>1, <1>2, <1>3, <1>4, Zenon DEF WireType

LEMMA MainType ==
    ASSUME WireType, Main
    PROVE  WireType'
<1>1. {"main", "collect", "delegate"} \subseteq Threads
  BY Zenon DEF Threads
<1>2. CASE MainHello
  <2>1. local' = local
    BY <1>2, Zenon DEF MainHello
  <2> DEFINE next == IF options.command = "authorize" THEN "Authorize" ELSE "Start"
  <2>2. PICK rec : Emit("main", rec, next)
    BY <1>2, Zenon DEF MainHello
  <2>3. next \in Places
    BY Zenon DEF Places
  <2> HIDE DEF next
  <2> QED BY <1>1, <2>1, <2>2, <2>3, EmitType, Zenon DEF WireType
<1>3. CASE MainAuthorize
  <2>1. local' = [local EXCEPT !.listed = <<[services |-> os.services, auth |-> os.auth]>>]
    BY <1>3, Zenon DEF MainAuthorize
  <2> DEFINE next == IF MayRequest(os.services, os.auth) THEN "Request" ELSE "Assessed"
  <2>2. PICK rec : Emit("main", rec, next)
    BY <1>3, Zenon DEF MainAuthorize
  <2>3. next \in Places
    BY Zenon DEF Places
  <2> HIDE DEF next
  <2> QED BY <1>1, <2>1, <2>2, <2>3, EmitType, Zenon DEF WireType
<1>4. CASE MainAssessed
  BY <1>1, <1>4, FinishType, Zenon DEF MainAssessed, FinishAuthorize
<1>5. CASE MainStart
  <2>1. at' \in [Threads -> Places]
    BY <1>1, <1>5, Zenon DEF WireType, MainStart, Places
  <2> QED BY <1>5, <2>1, Zenon DEF WireType, MainStart
<1>6. CASE MainRequest
  <2>1. at' \in [Threads -> Places]
    BY <1>1, <1>6, Zenon DEF WireType, MainRequest, Places
  <2> QED BY <1>6, <2>1, Zenon DEF WireType, MainRequest
<1> QED BY <1>2, <1>3, <1>4, <1>5, <1>6, Zenon DEF Main

(* A step of the collecting thread that writes nothing keeps the types.    *)
LEMMA StaysType ==
    ASSUME WireType, CollectStays, NEW c \in Places, at' = [at EXCEPT !["collect"] = c],
           local' \in [listed : {local'.listed}, permitted : BOOLEAN, todo : Seq(Interfaces),
                       scan : Nat, begin : Nat, end : Nat, results : Int]
    PROVE  WireType'
<1>1. at' \in [Threads -> Places]
  BY Zenon DEF WireType
<1> QED BY <1>1, Zenon DEF WireType, CollectStays

LEMMA CollectType ==
    ASSUME WireInv, Collect
    PROVE  WireType'
<1> DEFINE LocalType == local' \in [listed : {local'.listed}, permitted : BOOLEAN,
                                    todo : Seq(Interfaces), scan : Nat, begin : Nat, end : Nat,
                                    results : Int]
<1>0. /\ WireType /\ "collect" \in Threads
      /\ {"Capabilities", "Admit", "Interface", "Started", "Scanning", "Network", "Publish"} \subseteq Places
  BY Zenon DEF WireInv, Threads, Places
<1>1. ASSUME NEW status, NEW code, Finish("collect", status, code, NoFinal)
      PROVE  WireType'
  BY <1>0, <1>1, FinishType, Zenon
<1>2. ASSUME NEW rec, NEW c \in Places, Emit("collect", rec, c), LocalType
      PROVE  WireType'
  BY <1>0, <1>2, EmitType, Zenon DEF WireType
<1>3. ASSUME NEW visible \in Listings, List(visible)
      PROVE  WireType'
  <2>1. CASE Finish("collect", "error", 70, NoFinal)
    BY <1>1, <2>1, Zenon
  <2>2. CASE ~ Finish("collect", "error", 70, NoFinal)
    <3> DEFINE names == Sorted({i \in visible : Wanted(i)})
               listed == <<[services |-> os.services, auth |-> os.auth,
                            sources |-> [i \in Range(names) |-> os.power[i]]]>>
    <3>1. /\ local' = [local EXCEPT !.permitted = Permitted, !.listed = listed, !.todo = names]
          /\ at' = [at EXCEPT !["collect"] = "Capabilities"] /\ CollectStays
      BY <1>3, <2>2, Zenon DEF List
    <3>2. names \in Seq(Interfaces) /\ Permitted \in BOOLEAN
      BY <1>0, NamesListed, Zenon DEF Permitted, MayScan, WireType
    <3> HIDE DEF names, listed
    <3>3. LocalType
      BY <1>0, <3>1, <3>2, Zenon DEF WireType
    <3> QED BY <1>0, <3>1, <3>3, StaysType, Zenon
  <2> QED BY <2>1, <2>2, Zenon
<1>4. CASE Capabilities
  <2>1. LocalType
    BY <1>0, <1>4, Zenon DEF Capabilities, WireType
  <2>2. PICK rec : Emit("collect", rec, "Admit")
    BY <1>4, Zenon DEF Capabilities
  <2> QED BY <1>0, <1>2, <2>1, <2>2, Zenon
<1>5. CASE Admit
  <2>1. CASE at' = [at EXCEPT !["collect"] = "Interface"] /\ UNCHANGED local /\ CollectStays
    <3>1. LocalType
      BY <1>0, <2>1, Zenon DEF WireType
    <3> QED BY <1>0, <2>1, <3>1, StaysType, Zenon
  <2>2. CASE \E status, code : Finish("collect", status, code, NoFinal)
    BY <1>1, <2>2, Zenon
  <2> QED BY <1>5, <2>1, <2>2, Zenon DEF Admit
<1>6. CASE StartScan
  <2>1. CASE /\ local' = [local EXCEPT !.begin = os.clock]
             /\ at' = [at EXCEPT !["collect"] = "Started"] /\ CollectStays
    <3>1. LocalType
      BY <1>0, <2>1, Zenon DEF WireType
    <3> QED BY <1>0, <2>1, <3>1, StaysType, Zenon
  <2>2. CASE \E status, code : Finish("collect", status, code, NoFinal)
    BY <1>1, <2>2
  <2> QED BY <1>6, <2>1, <2>2, Zenon DEF StartScan
<1>7. CASE EmitStarted
  <2>1. LocalType
    <3>1. local' = [local EXCEPT !.scan = @ + 1] /\ local.scan + 1 \in Nat
      BY <1>0, <1>7 DEF EmitStarted, WireType
    <3> QED BY <1>0, <3>1, Zenon DEF WireType
  <2>2. PICK rec : Emit("collect", rec, "Scanning")
    BY <1>7, Zenon DEF EmitStarted
  <2> QED BY <1>0, <1>2, <2>1, <2>2, Zenon
<1>8. ASSUME NEW n \in 0..MaxResults, ScanReturns(n)
      PROVE  WireType'
  <2>1. CASE /\ local' = [local EXCEPT !.end = os.clock, !.results = n]
             /\ at' = [at EXCEPT !["collect"] = "Network"] /\ CollectStays
    <3>1. n \in Int
      BY CollectorWireAssumption
    <3>2. LocalType
      BY <1>0, <2>1, <3>1, Zenon DEF WireType
    <3> QED BY <1>0, <2>1, <3>2, StaysType, Zenon
  <2>2. CASE \E status, code : Finish("collect", status, code, NoFinal)
    BY <1>1, <2>2, Zenon
  <2> QED BY <1>8, <2>1, <2>2, Zenon DEF ScanReturns
<1>9. CASE ScanFails
  BY <1>1, <1>9, Zenon DEF ScanFails
<1>10. CASE NextNetwork
  <2>1. CASE /\ local' = [local EXCEPT !.todo = Tail(@)]
             /\ at' = [at EXCEPT !["collect"] = "Interface"] /\ CollectStays
    <3>1. local.todo # <<>>
      BY <1>10, Zenon DEF WireInv, NextNetwork, CollectAt, ThreadsOK, CollectsOK, CollectOK, InScan
    <3>2. Tail(local.todo) \in Seq(Interfaces)
      BY <1>0, <3>1 DEF WireType
    <3>3. LocalType
      BY <1>0, <2>1, <3>2, Zenon DEF WireType
    <3> QED BY <1>0, <2>1, <3>3, StaysType, Zenon
  <2>2. CASE at' = [at EXCEPT !["collect"] = "Publish"] /\ UNCHANGED local /\ CollectStays
    <3>1. LocalType
      BY <1>0, <2>2, Zenon DEF WireType
    <3> QED BY <1>0, <2>2, <3>1, StaysType, Zenon
  <2>3. CASE \E status, code : Finish("collect", status, code, NoFinal)
    BY <1>1, <2>3
  <2> QED BY <1>10, <2>1, <2>2, <2>3, Zenon DEF NextNetwork
<1>11. CASE Publish
  <2>1. LocalType
    <3>1. local' = [local EXCEPT !.results = local.results - 1]
      BY <1>11, Zenon DEF Publish
    <3>2. local.results - 1 \in Int
      BY <1>0 DEF WireType
    <3> QED BY <1>0, <3>1, <3>2, Zenon DEF WireType
  <2>2. PICK rec : Emit("collect", rec, "Network")
    BY <1>11, Zenon DEF Publish
  <2> QED BY <1>0, <1>2, <2>1, <2>2, Zenon
<1> QED BY <1>3, <1>4, <1>5, <1>6, <1>7, <1>8, <1>9, <1>10, <1>11, Zenon DEF Collect

LEMMA SystemType ==
    ASSUME WireType, Tick \/ Environment
    PROVE  WireType'
<1>1. UNCHANGED <<options, ended, stream, torn, at, local>> /\ late' \in Nat
  <2>1. UNCHANGED <<options, ended, stream, torn, at, local>> /\ (late' = late \/ late' = 0)
    BY Zenon DEF Tick, Environment
  <2> QED BY <2>1 DEF WireType
<1> DEFINE T == [services : BOOLEAN, auth : States, power : [Interfaces -> BOOLEAN],
                 clock : Nat, changes : Nat, flapped : BOOLEAN]
<1>2. os \in T /\ os.changes + 1 \in Nat
  BY DEF WireType
<1>3. os' \in T
  <2>1. CASE Tick
    BY <1>2, <2>1 DEF Tick
  <2>2. ASSUME NEW v \in BOOLEAN, NEW a \in States,
               os' = [os EXCEPT !.services = v, !.auth = a, !.changes = @ + 1]
        PROVE  os' \in T
    BY <1>2, <2>2, Zenon
  <2>3. ASSUME NEW i \in Interfaces,
               os' = [os EXCEPT !.power[i] = ~ @, !.changes = @ + 1, !.flapped = TRUE]
        PROVE  os' \in T
    <3>1. [os.power EXCEPT ![i] = ~ @] \in [Interfaces -> BOOLEAN]
      BY <1>2, Zenon
    <3> QED BY <1>2, <2>3, <3>1, Zenon
  <2> HIDE DEF T
  <2> QED BY <2>1, <2>2, <2>3, Zenon DEF Environment
<1> QED BY <1>1, <1>3, Zenon DEF WireType

LEMMA ExitsType ==
    ASSUME WireType, NEW th \in Threads, Exits(th)
    PROVE  WireType'
<1>1. UNCHANGED <<os, options, ended, stream, torn, late>> /\ at' = [t \in Threads |-> "Gone"]
  BY Zenon DEF Exits
<1>2. local' \in [listed : {local'.listed}, permitted : BOOLEAN, todo : Seq(Interfaces),
                  scan : Nat, begin : Nat, end : Nat, results : Int]
  BY DEF Exits, NewLocal
<1>3. at' \in [Threads -> Places]
  BY <1>1, Zenon DEF Places
<1> QED BY <1>1, <1>2, <1>3, Zenon DEF WireType

LEMMA TypeStep ==
    ASSUME WireInv, WireNext
    PROVE  WireType'
<1>1. WireType
  BY Zenon DEF WireInv
<1>2. CASE Main
  BY <1>1, <1>2, MainType, Zenon
<1>3. CASE Collect
  BY <1>3, CollectType, Zenon
<1>4. CASE DidChangeAuthorization
  <2>1. "delegate" \in Threads
    BY Zenon DEF Threads
  <2> QED BY <1>1, <1>4, <2>1, FinishType, Zenon DEF DidChangeAuthorization, FinishAuthorize
<1>5. ASSUME NEW h \in Handlers, Handle(h)
      PROVE  WireType'
  <2>1. h \in Threads /\ h \in {"deadline", "sigint", "sigterm"}
    BY CollectorWireAssumption, Zenon DEF Threads
  <2>2. PICK status, code : Finish(h, status, code, NoFinal)
    BY <1>5, <2>1, Zenon DEF Handle
  <2> QED BY <1>1, <2>1, <2>2, FinishType, Zenon
<1>6. ASSUME NEW th \in Threads, Exits(th)
      PROVE  WireType'
  BY <1>1, <1>6, ExitsType, Zenon
<1>7. CASE Tick \/ Environment
  BY <1>1, <1>7, SystemType, Zenon
<1> QED BY <1>2, <1>3, <1>4, <1>5, <1>6, <1>7, Zenon DEF WireNext
-----------------------------------------------------------------------------
(* Revocation.                                                             *)

(* Writing another record than an observation, or finishing, publishes     *)
(* nothing and brings no thread to Publish.                                *)
LEMMA EmitQuiet ==
    ASSUME OneLate, WireType, Running, NEW th \in Threads, NEW rec, NEW next, Emit(th, rec, next),
           rec.kind # "scan_observation", next # "Publish"
    PROVE  OneLate'
<1>1. late' = late /\ os' = os /\ (at'["collect"] = "Publish" => at["collect"] = "Publish")
  BY Zenon DEF Emit, WireType, Threads
<1> QED BY <1>1, Zenon DEF OneLate, Permitted

LEMMA FinishQuiet ==
    ASSUME OneLate, WireType, Running, NEW th \in Threads, NEW status, NEW code, NEW extra,
           Finish(th, status, code, extra)
    PROVE  OneLate'
<1>1. late' = late /\ os' = os /\ (at'["collect"] = "Publish" => at["collect"] = "Publish")
  BY Zenon DEF Finish, WireType, Threads
<1> QED BY <1>1, Zenon DEF OneLate, Permitted

LEMMA LateStep ==
    ASSUME WireInv, WireNext
    PROVE  OneLate'
<1>1. WireType /\ OneLate /\ {"main", "collect", "delegate"} \subseteq Threads
  BY Zenon DEF WireInv, Threads
<1>2. CASE late' = late /\ os' = os /\ Running /\ (at'["collect"] = "Publish" => at["collect"] = "Publish")
  BY <1>1, <1>2, Zenon DEF OneLate, Permitted
<1>3. CASE Main
  <2>1. CASE MainHello
    <3> DEFINE rec == [kind |-> "hello", command |-> options.command, limit |-> options.limit,
                       redacted |-> options.redacted]
               next == IF options.command = "authorize" THEN "Authorize" ELSE "Start"
    <3>1. Running /\ Emit("main", rec, next) /\ rec.kind # "scan_observation" /\ next # "Publish"
      BY <2>1, Zenon DEF MainHello
    <3> HIDE DEF rec, next
    <3> QED BY <1>1, <3>1, EmitQuiet, Zenon
  <2>2. CASE MainAuthorize
    <3> DEFINE rec == [kind |-> "authorization", auth |-> os.auth, services |-> os.services,
                       prompt |-> MayRequest(os.services, os.auth)]
               next == IF MayRequest(os.services, os.auth) THEN "Request" ELSE "Assessed"
    <3>1. Running /\ Emit("main", rec, next) /\ rec.kind # "scan_observation" /\ next # "Publish"
      BY <2>2, Zenon DEF MainAuthorize
    <3> HIDE DEF rec, next
    <3> QED BY <1>1, <3>1, EmitQuiet
  <2>3. CASE MainAssessed
    BY <1>1, <2>3, FinishQuiet, Zenon DEF MainAssessed, FinishAuthorize
  <2>4. CASE MainStart
    BY <1>1, <1>2, <2>4, Zenon DEF MainStart, WireType
  <2>5. CASE MainRequest
    BY <1>1, <1>2, <2>5, Zenon DEF MainRequest, WireType
  <2> QED BY <1>3, <2>1, <2>2, <2>3, <2>4, <2>5, Zenon DEF Main
<1>4. ASSUME Running, NEW status, NEW code, Finish("collect", status, code, NoFinal)
      PROVE  OneLate'
  BY <1>1, <1>4, FinishQuiet, Zenon
<1>5. ASSUME Running, CollectStays, NEW c, c # "Publish" \/ Permitted, at' = [at EXCEPT !["collect"] = c]
      PROVE  OneLate'
  <2>1. at'["collect"] = c /\ late' = late /\ os' = os
    BY <1>1, <1>5, Zenon DEF WireType, CollectStays
  <2> QED BY <1>1, <1>5, <2>1, Zenon DEF OneLate, Permitted
<1>6. CASE Collect
  <2>1. ASSUME NEW visible \in Listings, List(visible)
        PROVE  OneLate'
    BY <1>4, <1>5, <2>1, Zenon DEF List, CollectAt
  <2>2. CASE Capabilities
    <3>1. PICK rec : Running /\ Emit("collect", rec, "Admit") /\ rec.kind # "scan_observation"
      BY <2>2 DEF Capabilities, CollectAt
    <3> QED BY <1>1, <3>1, EmitQuiet, Zenon
  <2>3. CASE Admit
    BY <1>4, <1>5, <2>3, Zenon DEF Admit, CollectAt
  <2>4. CASE StartScan
    BY <1>4, <1>5, <2>4, Zenon DEF StartScan, CollectAt
  <2>5. CASE EmitStarted
    <3>1. PICK rec : Running /\ Emit("collect", rec, "Scanning") /\ rec.kind # "scan_observation"
      BY <2>5 DEF EmitStarted, CollectAt
    <3> QED BY <1>1, <3>1, EmitQuiet, Zenon
  <2>6. ASSUME NEW n \in 0..MaxResults, ScanReturns(n)
        PROVE  OneLate'
    BY <1>4, <1>5, <2>6, Zenon DEF ScanReturns, CollectAt
  <2>7. CASE ScanFails
    BY <1>4, <2>7, Zenon DEF ScanFails, CollectAt
  <2>8. CASE NextNetwork
    BY <1>4, <1>5, <2>8, Zenon DEF NextNetwork, CollectAt
  <2>9. CASE Publish
    <3>1. /\ Running /\ at["collect"] = "Publish" /\ os' = os /\ at'["collect"] = "Network"
          /\ late' = late \/ (~ Permitted /\ late' = late + 1)
      BY <1>1, <2>9, Zenon DEF Publish, CollectAt, Emit, WireType
    <3> QED BY <1>1, <3>1 DEF OneLate, Permitted
  <2> QED BY <1>6, <2>1, <2>2, <2>3, <2>4, <2>5, <2>6, <2>7, <2>8, <2>9, Zenon DEF Collect
<1>7. CASE DidChangeAuthorization
  BY <1>1, <1>7, FinishQuiet, Zenon DEF DidChangeAuthorization, FinishAuthorize
<1>8. ASSUME NEW h \in Handlers, Handle(h)
      PROVE  OneLate'
  <2>1. Running /\ h \in Threads /\ h \in {"deadline", "sigint", "sigterm"}
    BY <1>8, CollectorWireAssumption, Zenon DEF Threads, Handle
  <2>2. PICK status, code : Finish(h, status, code, NoFinal)
    BY <1>8, <2>1, Zenon DEF Handle
  <2> QED BY <1>1, <2>1, <2>2, FinishQuiet, Zenon
<1>9. ASSUME NEW th \in Threads, Exits(th)
      PROVE  OneLate'
  BY <1>1, <1>2, <1>9, Zenon DEF Exits
<1>10. CASE Tick
  <2>1. UNCHANGED <<late, at>> /\ Running /\ (Permitted' <=> Permitted)
    BY <1>1, <1>10, Zenon DEF Tick, WireType, Permitted, MayScan
  <2> QED BY <1>1, <2>1, Zenon DEF OneLate
<1>11. CASE Environment
  BY <1>1, <1>11, Zenon DEF Environment, OneLate
<1> QED BY <1>3, <1>6, <1>7, <1>8, <1>9, <1>10, <1>11, Zenon DEF WireNext
-----------------------------------------------------------------------------
(* The theorems.                                                           *)

(* Before the hello nothing is written, and the invariant holds.           *)
LEMMA InitWireInv == WireInit => WireInv
<1> SUFFICES ASSUME WireInit PROVE WireInv
  BY Zenon
<1>1. IsStream(stream) /\ Len(stream) = 0 /\ DOMAIN stream = {} /\ \A k : Of(stream, k) = {}
  BY DEF WireInit, IsStream, Of
<1>2. WireType
  <2>1. at \in [Threads -> Places]
    BY Zenon DEF WireInit, Places
  <2>2. local \in [listed : {local.listed}, permitted : BOOLEAN, todo : Seq(Interfaces),
                   scan : Nat, begin : Nat, end : Nat, results : Int]
    BY DEF WireInit, NewLocal
  <2>3. os \in [services : BOOLEAN, auth : States, power : [Interfaces -> BOOLEAN],
                clock : Nat, changes : Nat, flapped : BOOLEAN]
    <3>1. os \in [services : BOOLEAN, auth : States, power : [Interfaces -> BOOLEAN],
                  clock : {0}, changes : {0}, flapped : {FALSE}]
      BY Zenon DEF WireInit
    <3>2. {0} \subseteq Nat /\ {FALSE} \subseteq BOOLEAN
      OBVIOUS
    <3> QED BY <3>1, <3>2, Zenon
  <2> QED BY <1>1, <2>1, <2>2, <2>3, Zenon DEF WireInit, WireType
<1>3. Observations(stream) = 0
  BY <1>1, FS_EmptySet, Zenon DEF Observations, Of
<1>4. History
  <2>1. options.limit \in Nat
    BY <1>2, CollectorWireAssumption, Zenon DEF WireType
  <2>2. InOrder(stream, os.clock) /\ HelloFirst(stream, options) /\ EndsOnce(stream, ended, torn)
    BY <1>1, Zenon DEF InOrder, HelloFirst, EndsOnce
  <2>3. CapsOK(stream, options, Steady) /\ AuthOK(stream, options) /\ StartsOK(stream, options, Steady)
    BY <1>1, Zenon DEF CapsOK, AuthOK, StartsOK
  <2>4. ObsOK(stream, options) /\ WindowsClosed(stream) /\ EndOK(stream, options)
    BY <1>1, Zenon DEF ObsOK, WindowsClosed, EndOK
  <2>5. Observations(stream) <= options.limit
    BY <1>3, <2>1
  <2> QED BY <2>2, <2>3, <2>4, <2>5, Zenon DEF History, HistoryOf
<1>5. at["main"] = "Hello" /\ at["collect"] = "Idle" /\ at["delegate"] = "Idle"
  BY Zenon DEF WireInit, Threads
<1>6. ThreadsOK
  <2>1. MainOK("Hello", "Idle", "Idle", options, stream, ended, local.listed)
    BY Zenon DEF MainOK, WireInit
  <2>2. CollectOK("Idle", options, stream, ended, local, os.clock, os.power, Steady)
    BY <1>1, Zenon DEF CollectOK, Lists, Scans, InScan, Returned
  <2>3. ScanOK("Idle", stream, local)
    BY <1>1, Zenon DEF ScanOK, Numbered, Returned
  <2> QED BY <1>5, <2>1, <2>2, <2>3, Zenon DEF ThreadsOK, CollectsOK
<1>7. OneLate /\ ~ torn
  BY <1>5, Zenon DEF OneLate, WireInit
<1> QED BY <1>2, <1>4, <1>6, <1>7, Zenon DEF WireInv

(* Every step of every thread, of the handlers and of the system keeps the *)
(* invariant.                                                              *)
LEMMA WireInvStep == WireInv /\ [WireNext]_wireVars => WireInv'
<1> SUFFICES ASSUME WireInv, [WireNext]_wireVars PROVE WireInv'
  BY Zenon
<1>1. CASE UNCHANGED wireVars
  BY <1>1, Zenon
     DEF wireVars, WireInv, WireType, History, OneLate, ThreadsOK, CollectsOK, Running, Steady,
              Permitted
<1>2. CASE WireNext
  <2>1. WireType' /\ OneLate'
    BY <1>2, TypeStep, LateStep, Zenon
  <2>2. History' /\ (Running' => ~ torn' /\ ThreadsOK')
    <3>1. CASE Main
      BY <3>1, MainHelloStep, MainStartStep, MainAuthorizeStep, MainAssessedStep,
         MainRequestStep, Zenon
      DEF Main
    <3>2. CASE Collect
      BY <3>2, ListStep, CapabilitiesStep, AdmitStep, StartScanStep, EmitStartedStep,
         ScanReturnsStep,
         ScanFailsStep, NextNetworkStep, PublishStep, Zenon DEF Collect
    <3> QED BY <1>2, <3>1, <3>2, DidChangeStep, HandleStep, ExitsStep, SystemStep, Zenon
               DEF WireNext
  <2> QED BY <2>1, <2>2, Zenon DEF WireInv
<1> QED BY <1>1, <1>2, Zenon

(* The inductive invariant of the collector process.                       *)
THEOREM WireInvariant == WireSpec => []WireInv
BY InitWireInv, WireInvStep, PTL DEF WireSpec

(* main.swift and Wire.swift against macos.rs: whichever thread ends the   *)
(* stream and however permission changes, a stream that has its hello and  *)
(* its terminal record is decoded, as long as no interface changes power.  *)
THEOREM CompleteStreamsAlwaysDecode == WireSpec => []CompleteStreamsDecode
<1>1. WireInv => CompleteStreamsDecode
  <2> SUFFICES ASSUME WireInv, Of(stream, "complete") # {}, stream[1].kind = "hello", ~ os.flapped
               PROVE  decode(stream)
    BY Zenon DEF CompleteStreamsDecode
  <2>1. IsStream(stream) /\ History /\ Steady
    BY Zenon DEF WireInv, WireType, Steady
  <2>2. options.command \in {"probe", "scan", "authorize"}
    BY CollectorWireAssumption, Zenon DEF WireInv, WireType
  <2> QED BY <2>1, <2>2, FinishedDecodes, Zenon
<1> QED BY <1>1, WireInvariant, PTL

(* macos.rs against contract.py: the windows the Rust decoder checks on    *)
(* top are closed, and only an authorize process writes a final permission,*)
(* on every stream the collector leaves behind, so the two decoders accept *)
(* the same ones, whatever the power does.                                 *)
THEOREM DecodersAlwaysAgree == WireSpec => []DecodersAgree
<1>1. WireInv => DecodersAgree
  <2> SUFFICES ASSUME WireInv PROVE decode(stream) <=> decode_stream(stream)
    BY Zenon DEF DecodersAgree
  <2>1. IsStream(stream) /\ WindowsClosed(stream)
    BY Zenon DEF WireInv, WireType, History, HistoryOf
  <2>2. Framed(stream) => FinalHolds(stream)
    BY FinalsAreAuthorize, Zenon DEF WireInv
  <2> QED BY <2>1, <2>2, WindowsDecide, Zenon
<1> QED BY <1>1, WireInvariant, PTL

(* main.swift's check before each observation: after a revocation at most  *)
(* the observation under way is still written.                             *)
THEOREM RevocationAlwaysStops == WireSpec => []RevocationStops
<1>1. WireInv => RevocationStops
  BY DEF WireInv, OneLate, RevocationStops
<1> QED BY <1>1, WireInvariant, PTL
=============================================================================
