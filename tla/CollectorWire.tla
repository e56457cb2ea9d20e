--------------------------- MODULE CollectorWire ---------------------------
(***************************************************************************)
(* The native collector process (collectors/macos) and the two decoders of *)
(* its record stream (capture-adapter's macos.rs and contract.py).         *)
(*                                                                         *)
(* Four threads of the process share one WireWriter: the main thread, the  *)
(* collecting thread, the CoreLocation callback and ProcessControl's       *)
(* handlers (deadline, SIGINT, SIGTERM).  A record is written under the    *)
(* writer's lock, so writing is one step; finish is two, because exit is   *)
(* called after the lock is released and other threads run in between.     *)
(*                                                                         *)
(* The operating system (permission, interface power, the monotonic clock, *)
(* scan results, signals) is the environment.  A record keeps the fields   *)
(* the decoders compare with one another.                                  *)
(***************************************************************************)
EXTENDS Integers, Sequences, FiniteSets, Functions

CONSTANTS
    Interfaces,      \* the names CoreWLAN may list, ordered as numbers
    Listings,        \* the sets of interfaces it may list
    MaxInterfaces,   \* 32 in the code
    CommandLines,    \* the parsed command lines
    Handlers,        \* ProcessControl's event sources
    MaxResults,      \* networks one scan returns
    MaxClock,        \* bound on the monotonic clock
    EnvChanges       \* bound on changes of permission and power

ASSUME CollectorWireAssumption ==
    /\ Interfaces \subseteq Nat /\ IsFiniteSet(Interfaces)
    /\ Listings \subseteq SUBSET Interfaces
    /\ MaxInterfaces \in Nat
    /\ CommandLines \subseteq
        [command : {"probe", "scan", "authorize"}, limit : Nat \ {0}, redacted : BOOLEAN,
         interface : {<<>>} \cup {<<i>> : i \in Interfaces}]
    /\ Handlers \subseteq {"deadline", "sigint", "sigterm"}
    /\ MaxResults \in Nat /\ MaxClock \in Nat /\ EnvChanges \in Nat

VARIABLES
    os,         \* permission, interface power, clock, changes and power changes so far
    options,    \* the parsed command line
    ended,      \* WireWriter.ended
    stream,     \* the records written to standard output
    torn,       \* the last record was written in part
    at,         \* where each thread is
    leaving,    \* the code each thread passes to exit
    local,      \* the collecting thread's variables
    exit,       \* the exit status of the process, <<>> while it runs
    late        \* observations written since permission was last withdrawn

wireVars == <<os, options, ended, stream, torn, at, leaving, local, exit, late>>

Threads == {"main", "collect", "delegate"} \cup Handlers
States == {"authorized", "denied", "not_determined"}

Running == exit = <<>>
MayScan(services, auth) == services /\ auth = "authorized"
MayRequest(services, auth) == services /\ auth = "not_determined"
Permitted == MayScan(os.services, os.auth)
Observations(s) == Cardinality({i \in DOMAIN s : s[i].kind = "scan_observation"})
-----------------------------------------------------------------------------
NewLocal == [listed |-> <<>>, permitted |-> FALSE, todo |-> <<>>, scan |-> 0,
             begin |-> 0, end |-> 0, results |-> 0]

WireInit ==
    /\ os \in [services : BOOLEAN, auth : States, power : [Interfaces -> BOOLEAN],
               clock : {0}, changes : {0}, flapped : {FALSE}]
    /\ options \in CommandLines
    /\ ended = FALSE /\ stream = <<>> /\ torn = FALSE
    /\ at = [t \in Threads |-> IF t = "main" THEN "Hello" ELSE "Idle"]
    /\ leaving = [t \in Threads |-> 0]
    /\ local = NewLocal
    /\ exit = <<>> /\ late = 0

(* WireWriter.writeLocked: sequence number and receipt time are taken      *)
(* under the lock.                                                         *)
Stamped(rec) ==
    [f \in DOMAIN rec \cup {"sequence", "time"} |->
        CASE f = "sequence" -> Len(stream) [] f = "time" -> os.clock [] OTHER -> rec[f]]

Written(rec) == Append(stream, Stamped(rec))

(* WireWriter.emit followed by the thread's next place.  A consumer that   *)
(* does not read for 500 ms makes the process leave with 74 in the middle  *)
(* of a record.                                                            *)
Emit(th, rec, next) ==
    /\ IF ended THEN UNCHANGED <<stream, torn, exit>>
       ELSE \/ stream' = Written(rec) /\ UNCHANGED <<torn, exit>>
            \/ stream' = stream /\ torn' = TRUE /\ exit' = <<74>>
    /\ at' = [at EXCEPT ![th] = next]
    /\ late' = IF rec.kind = "scan_observation" /\ ~ ended /\ ~ Permitted THEN late + 1 ELSE late
    /\ UNCHANGED <<os, options, ended, leaving>>

(* WireWriter.finish up to the call of exit: the first caller writes the   *)
(* terminal record; every caller then leaves with its own code.            *)
Finish(th, status, code, extra) ==
    /\ IF ended THEN UNCHANGED <<ended, stream, torn, exit>>
       ELSE /\ ended' = TRUE
            /\ \/ /\ stream' = Written([kind |-> "complete", status |-> status, final |-> extra,
                                        count |-> Observations(stream),
                                        partial |-> status # "ok" /\ Observations(stream) > 0])
                  /\ UNCHANGED <<torn, exit>>
               \/ stream' = stream /\ torn' = TRUE /\ exit' = <<74>>
    /\ at' = [at EXCEPT ![th] = "Exit"] /\ leaving' = [leaving EXCEPT ![th] = code]
    /\ UNCHANGED <<os, options, local, late>>

NoFinal == <<>>
FinalOf(services, auth) == <<[services |-> services, auth |-> auth]>>

(* The terminal record of the authorize command.                           *)
FinishAuthorize(th, services, auth) ==
    IF MayScan(services, auth) THEN Finish(th, "ok", 0, FinalOf(services, auth))
    ELSE Finish(th, "permission_required", 77, FinalOf(services, auth))
-----------------------------------------------------------------------------
(* The main thread.                                                        *)

MainHello ==
    /\ Running /\ at["main"] = "Hello"
    /\ Emit("main", [kind |-> "hello", command |-> options.command, limit |-> options.limit,
                     redacted |-> options.redacted],
            IF options.command = "authorize" THEN "Authorize" ELSE "Start")
    /\ UNCHANGED local

MainStart ==
    /\ Running /\ at["main"] = "Start"
    /\ at' = [at EXCEPT !["main"] = "Loop", !["collect"] = "List"]
    /\ UNCHANGED <<os, options, ended, stream, torn, leaving, local, exit, late>>

MainAuthorize ==
    /\ Running /\ at["main"] = "Authorize"
    /\ local' = [local EXCEPT !.listed = <<[services |-> os.services, auth |-> os.auth]>>]
    /\ Emit("main", [kind |-> "authorization", auth |-> os.auth, services |-> os.services,
                     prompt |-> MayRequest(os.services, os.auth)],
            IF MayRequest(os.services, os.auth) THEN "Request" ELSE "Assessed")

MainAssessed ==
    /\ Running /\ at["main"] = "Assessed"
    /\ FinishAuthorize("main", local.listed[1].services, local.listed[1].auth)

(* The delegate is set and consent requested; callbacks arrive from now on. *)
MainRequest ==
    /\ Running /\ at["main"] = "Request"
    /\ at' = [at EXCEPT !["main"] = "Loop", !["delegate"] = "Set"]
    /\ UNCHANGED <<os, options, ended, stream, torn, leaving, local, exit, late>>

DidChangeAuthorization ==
    /\ Running /\ at["delegate"] = "Set" /\ os.auth # "not_determined"
    /\ FinishAuthorize("delegate", os.services, os.auth)
-----------------------------------------------------------------------------
(* The collecting thread.                                                  *)

CollectStays == UNCHANGED <<os, options, ended, stream, torn, leaving, exit, late>>
CollectAt(place) == Running /\ at["collect"] = place
Wanted(i) == options.interface \in {<<>>, <<i>>}

(* A set of names, sorted.                                                 *)
Sorted(S) == CHOOSE s \in [1..Cardinality(S) -> S] :
                \A i, j \in 1..Cardinality(S) : i < j => s[i] < s[j]

(* Permission and the interface list are read once; power_on of each       *)
(* descriptor is read here.                                                *)
List(visible) ==
    /\ CollectAt("List")
    /\ \/ /\ Cardinality(visible) > MaxInterfaces
          /\ Finish("collect", "error", 70, NoFinal)
       \/ /\ Cardinality(visible) <= MaxInterfaces
          /\ LET names == Sorted({i \in visible : Wanted(i)})
             IN  local' = [local EXCEPT
                    !.permitted = Permitted,
                    !.listed = <<[services |-> os.services, auth |-> os.auth,
                                  sources |-> [i \in Range(names) |-> os.power[i]]]>>,
                    !.todo = names]
          /\ at' = [at EXCEPT !["collect"] = "Capabilities"]
          /\ CollectStays

(* The scan offer reads interface power a second time.                     *)
Capabilities ==
    /\ CollectAt("Capabilities")
    /\ LET offer == local.permitted /\ \E i \in Range(local.todo) : os.power[i]
           read == local.listed[1]
       IN  Emit("collect", [kind |-> "capabilities", scan |-> offer, services |-> read.services,
                            auth |-> read.auth, sources |-> read.sources], "Admit")
    /\ UNCHANGED local

Admit ==
    /\ CollectAt("Admit")
    /\ IF options.command = "probe" THEN Finish("collect", "ok", 0, NoFinal)
       ELSE IF ~ local.permitted THEN Finish("collect", "permission_required", 77, NoFinal)
       ELSE IF local.todo = <<>> THEN Finish("collect", "unsupported", 69, NoFinal)
       ELSE at' = [at EXCEPT !["collect"] = "Interface"] /\ UNCHANGED local /\ CollectStays

(* The next interface, or the end of the loop.  An interface may have been *)
(* removed since it was listed.                                            *)
StartScan ==
    /\ CollectAt("Interface")
    /\ IF local.todo = <<>> THEN Finish("collect", "ok", 0, NoFinal)
       ELSE \/ Finish("collect", "unavailable", 69, NoFinal)
            \/ os.power[Head(local.todo)] /\ ~ Permitted
               /\ Finish("collect", "permission_required", 77, NoFinal)
            \/ /\ os.power[Head(local.todo)] /\ Permitted
               /\ local' = [local EXCEPT !.begin = os.clock]
               /\ at' = [at EXCEPT !["collect"] = "Started"]
               /\ CollectStays

EmitStarted ==
    /\ CollectAt("Started")
    /\ Emit("collect", [kind |-> "scan_started", scan |-> local.scan + 1,
                        source |-> Head(local.todo), begin |-> local.begin], "Scanning")
    /\ local' = [local EXCEPT !.scan = @ + 1]

ScanReturns(n) ==
    /\ CollectAt("Scanning")
    /\ IF ~ Permitted THEN Finish("collect", "permission_required", 77, NoFinal)
       ELSE /\ local' = [local EXCEPT !.end = os.clock, !.results = n]
            /\ at' = [at EXCEPT !["collect"] = "Network"]
            /\ CollectStays

ScanFails == CollectAt("Scanning") /\ Finish("collect", "error", 70, NoFinal)

(* Mutant of NextNetwork: one observation more than the limit.             *)
NextNetworkOver ==
    /\ CollectAt("Network")
    /\ IF local.results = 0
       THEN /\ local' = [local EXCEPT !.todo = Tail(@)]
            /\ at' = [at EXCEPT !["collect"] = "Interface"] /\ CollectStays
       ELSE IF ~ Permitted THEN Finish("collect", "permission_required", 77, NoFinal)
       ELSE IF Observations(stream) > options.limit
       THEN Finish("collect", "partial", 2, NoFinal)
       ELSE at' = [at EXCEPT !["collect"] = "Publish"] /\ UNCHANGED local /\ CollectStays

(* Mutant of NextNetwork: permission is checked once, after the scan.      *)
NextNetworkUnchecked ==
    /\ CollectAt("Network")
    /\ IF local.results = 0
       THEN /\ local' = [local EXCEPT !.todo = Tail(@)]
            /\ at' = [at EXCEPT !["collect"] = "Interface"] /\ CollectStays
       ELSE IF Observations(stream) >= options.limit
       THEN Finish("collect", "partial", 2, NoFinal)
       ELSE at' = [at EXCEPT !["collect"] = "Publish"] /\ UNCHANGED local /\ CollectStays

NextNetwork ==
    /\ CollectAt("Network")
    /\ IF local.results = 0
       THEN /\ local' = [local EXCEPT !.todo = Tail(@)]
            /\ at' = [at EXCEPT !["collect"] = "Interface"] /\ CollectStays
       ELSE IF ~ Permitted THEN Finish("collect", "permission_required", 77, NoFinal)
       ELSE IF Observations(stream) >= options.limit
       THEN Finish("collect", "partial", 2, NoFinal)
       ELSE at' = [at EXCEPT !["collect"] = "Publish"] /\ UNCHANGED local /\ CollectStays

(* Mutant of Publish: every network carries its own completion time.       *)
PublishOwnEnd ==
    /\ CollectAt("Publish")
    /\ Emit("collect", [kind |-> "scan_observation", scan |-> local.scan,
                        source |-> Head(local.todo), begin |-> local.begin, end |-> os.clock,
                        identified |-> ~ options.redacted], "Network")
    /\ local' = [local EXCEPT !.results = @ - 1]

Publish ==
    /\ CollectAt("Publish")
    /\ Emit("collect", [kind |-> "scan_observation", scan |-> local.scan,
                        source |-> Head(local.todo), begin |-> local.begin, end |-> local.end,
                        identified |-> ~ options.redacted], "Network")
    /\ local' = [local EXCEPT !.results = @ - 1]
-----------------------------------------------------------------------------
(* ProcessControl's handlers, exit, and the environment.                   *)

Handle(h) ==
    /\ Running /\ at[h] = "Idle"
    /\ CASE h = "deadline" -> Finish(h, "timeout", 124, NoFinal)
         [] h = "sigint" -> Finish(h, "cancelled", 130, NoFinal)
         [] h = "sigterm" -> Finish(h, "cancelled", 143, NoFinal)

(* Several threads may be in exit: the first to leave decides the status.  *)
Exits(th) ==
    /\ Running /\ at[th] = "Exit"
    /\ exit' = <<leaving[th]>>
    /\ at' = [t \in Threads |-> "Gone"] /\ leaving' = [t \in Threads |-> 0] /\ local' = NewLocal
    /\ UNCHANGED <<os, options, ended, stream, torn, late>>

Tick ==
    /\ Running /\ os.clock < MaxClock
    /\ os' = [os EXCEPT !.clock = @ + 1]
    /\ UNCHANGED <<options, ended, stream, torn, at, leaving, local, exit, late>>

Environment ==
    /\ Running /\ os.changes < EnvChanges
    /\ \/ \E s \in BOOLEAN, a \in States \ {"not_determined"} :
            os' = [os EXCEPT !.services = s, !.auth = a, !.changes = @ + 1]
       \/ \E i \in Interfaces :
            os' = [os EXCEPT !.power[i] = ~ @, !.changes = @ + 1, !.flapped = TRUE]
    /\ late' = IF Permitted THEN 0 ELSE late
    /\ UNCHANGED <<options, ended, stream, torn, at, leaving, local, exit>>

Collect ==
    \/ \E visible \in Listings : List(visible)
    \/ Capabilities \/ Admit \/ StartScan \/ EmitStarted
    \/ \E n \in 0..MaxResults : ScanReturns(n)
    \/ ScanFails \/ NextNetwork \/ Publish

Main == MainHello \/ MainStart \/ MainAuthorize \/ MainAssessed \/ MainRequest

WireNext ==
    \/ Main \/ Collect \/ DidChangeAuthorization
    \/ \E h \in Handlers : Handle(h)
    \/ \E th \in Threads : Exits(th)
    \/ Tick \/ Environment

WireSpec == WireInit /\ [][WireNext]_wireVars
-----------------------------------------------------------------------------
(* The decoders.  Both reject a stream whose records are cut, do not count *)
(* up from zero or go back in time; both want hello first, one terminal    *)
(* record, and it last.                                                    *)

Of(s, kind) == {i \in DOMAIN s : s[i].kind = kind}
Caps(s, i) == {s[c] : c \in {c \in Of(s, "capabilities") : c < i}}
Offered(s, i) == \E c \in Caps(s, i) : c.scan
PoweredOn(s, i, src) == \E c \in Caps(s, i) : src \in DOMAIN c.sources /\ c.sources[src]
Starts(s, i) == {s[k] : k \in {k \in Of(s, "scan_started") : k < i /\ s[k].scan = s[i].scan}}

Framed(s) ==
    /\ Of(s, "hello") = {1} /\ Of(s, "complete") = {Len(s)}
    /\ \A i \in DOMAIN s : s[i].sequence = i - 1
    /\ \A i \in 2..Len(s) : s[i - 1].time <= s[i].time

CapabilitiesHold(s) ==
    /\ Cardinality(Of(s, "capabilities")) <= 1
    /\ \A i \in Of(s, "capabilities") :
        /\ s[1].command # "authorize"
        /\ Cardinality(DOMAIN s[i].sources) <= MaxInterfaces
        /\ s[i].scan = (MayScan(s[i].services, s[i].auth)
                        /\ \E n \in DOMAIN s[i].sources : s[i].sources[n])

AuthorizationHolds(s) ==
    \A i \in Of(s, "authorization") :
        s[1].command = "authorize" /\ i = 2 /\ s[i].prompt = MayRequest(s[i].services, s[i].auth)

ScansHold(s) ==
    \A i \in Of(s, "scan_started") :
        /\ s[1].command = "scan" /\ Offered(s, i) /\ PoweredOn(s, i, s[i].source)
        /\ s[i].begin <= s[i].time /\ Starts(s, i) = {}

(* The observation belongs to an announced scan of its source, inside one  *)
(* API window, and honours the privacy mode and the limit of the hello.    *)
ObservationsHold(s) ==
    /\ Observations(s) <= s[1].limit
    /\ \A i \in Of(s, "scan_observation") :
        /\ s[1].command = "scan"
        /\ \E start \in Starts(s, i) : start.source = s[i].source /\ start.begin = s[i].begin
        /\ s[i].begin <= s[i].end /\ s[i].end <= s[i].time
        /\ s[1].redacted => ~ s[i].identified

(* The Rust decoder also orders the announcement of a scan before its end, *)
(* wants one end for all its results, and accepts a final permission only  *)
(* from the authorize command.                                             *)
WindowsClosed(s) ==
    \A i \in Of(s, "scan_observation") :
        /\ \A start \in Starts(s, i) : start.time <= s[i].end
        /\ \A k \in Of(s, "scan_observation") : s[k].scan = s[i].scan => s[k].end = s[i].end

FinalHolds(s) == s[Len(s)].final # NoFinal => s[1].command = "authorize"

Consent(s, last) ==
    /\ \E i \in Of(s, "authorization") : s[i].services /\ (s[i].auth = "authorized" \/ s[i].prompt)
    /\ last.final = FinalOf(TRUE, "authorized")

CompletionHolds(s) ==
    LET last == s[Len(s)]
    IN  /\ last.count = Observations(s)
        /\ last.partial = (last.status # "ok" /\ Observations(s) > 0)
        /\ last.status = "ok" =>
            CASE s[1].command = "probe" -> Of(s, "capabilities") # {}
              [] s[1].command = "scan" -> Of(s, "scan_started") # {} /\ Offered(s, Len(s))
              [] s[1].command = "authorize" -> Consent(s, last)

decode(s) ==
    /\ s # <<>> /\ ~ torn /\ Framed(s)
    /\ CapabilitiesHold(s) /\ AuthorizationHolds(s) /\ ScansHold(s)
    /\ ObservationsHold(s) /\ WindowsClosed(s) /\ CompletionHolds(s) /\ FinalHolds(s)

decode_stream(s) ==
    /\ Len(s) >= 2 /\ ~ torn /\ Framed(s)
    /\ CapabilitiesHold(s) /\ AuthorizationHolds(s) /\ ScansHold(s)
    /\ \A i \in Of(s, "scan_observation") : Offered(s, i)
    /\ ObservationsHold(s) /\ CompletionHolds(s)
-----------------------------------------------------------------------------
Kinds == {"hello", "capabilities", "authorization", "scan_started", "scan_observation", "complete"}

(* What the collector finishes, its consumer can read: while no interface  *)
(* changes power, every stream that has its hello and its terminal record  *)
(* is decoded, whichever thread ended it and however permission changed.   *)
CompleteStreamsDecode ==
    (Of(stream, "complete") # {} /\ stream[1].kind = "hello" /\ ~ os.flapped) => decode(stream)

(* The two decoders, written in two languages from one contract, agree on  *)
(* every stream the collector can leave behind, the refused ones included. *)
DecodersAgree == decode(stream) <=> decode_stream(stream)

(* docs/adapters/macos.md: "Revocation stops publication": the check       *)
(* before each observation lets at most the one under way through.         *)
RevocationStops == late <= 1

=============================================================================
