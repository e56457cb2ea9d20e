--------------------------- MODULE MCCallsReturn ---------------------------
(***************************************************************************)
(* What must happen in the end: calls on a bundle return, retried captures *)
(* converge, a collector session ends.  A behaviour is one of the three,   *)
(* chosen at the start: two processes on one bundle with an operation log; *)
(* two callers that retry captures of one bundle; or a supervised          *)
(* collector, with a limit one record below what it may write and pipes    *)
(* that hold a single record.                                              *)
(***************************************************************************)
EXTENDS BundleStore, CollectorProcess

CONSTANTS CaptureRequests, MaxFaults

VARIABLES
    part,
    capture,    \* what a capture bundle has committed
    captureStage, captureRequest, captureProgress, capturePreflight, captureReply,
    captureFaults

captureVars == <<capture, captureStage, captureRequest, captureProgress, capturePreflight,
                 captureReply, captureFaults>>

MCOp(id, body, parents, images) ==
    [id |-> id, body |-> body, parents |-> parents, sources |-> images]

MCAppend(op, expected, budgeted) ==
    [kind |-> "Append", op |-> op, expected |-> expected, budgeted |-> budgeted]

\* A map import, an undo of it built on revision 1, a second undo below that one,
\* which replay refuses, and a rewrite of the import's id.
MCOperationCalls ==
    {[kind |-> "Put", blob |-> "m", entry |-> "MapSource", utc |-> 1],
     MCAppend(MCOp(1, "a", {}, {"m"}), {}, FALSE),
     MCAppend(MCOp(1, "b", {}, {}), {0}, FALSE),
     MCAppend(MCOp(2, "undo", {1}, {}), {1}, FALSE),
     MCAppend(MCOp(4, "undo", {2}, {}), {}, FALSE),
     MCAppend(MCOp(3, "a", {}, {}), {1}, TRUE),
     [kind |-> "Recover"], [kind |-> "Verify"]}

MCReplays(ops) ==
    \A a, b \in ops : a.body = "undo" /\ b.body = "undo" => a.id \notin b.parents

MCMembers == [b \in {} |-> {}]

MCLimit == [s \in Streams |-> IF s = "out" THEN 2 ELSE 0]
MCWritten == [s \in Streams |-> IF s = "out" THEN 3 ELSE 0]

MCCaptures == [c \in {"good"} |-> [obs |-> {"o1", "o2"}, ok |-> TRUE, raw |-> <<1>>]]

\* Calls that agree with one another; the ingest carries the latest clock.
MCCaptureRequests ==
    {[kind |-> "Ingest", cap |-> "good", base |-> {}, snap |-> "s1", prov |-> "p", utc |-> 2],
     [kind |-> "Other", blob |-> <<"other", 0>>, prov |-> "p", utc |-> 1]}

C == INSTANCE CapturePublication WITH
        Captures <- MCCaptures, Requests <- CaptureRequests, MaxDecodedRows <- 2,
        db <- capture, stage <- captureStage, request <- captureRequest,
        progress <- captureProgress, preflight <- capturePreflight, reply <- captureReply,
        faults <- captureFaults

\* A part that is not chosen is at rest: every handle closed, no call made, the
\* session over.
CallsInit ==
    /\ part \in {"bundle", "capture", "collector"}
    /\ C!Init
    /\ IF part = "bundle" THEN Init
       ELSE /\ files = {} /\ db = NewDb /\ projection = {} /\ hot = FALSE
            /\ stage = [h \in Handles |-> "Closed"]
            /\ request = [h \in Handles |-> NoCall]
            /\ work = [h \in Handles |-> NewDb]
            /\ reply = [h \in Handles |-> Silent]
    /\ child = "NotStarted" /\ code = {} /\ orphan = NoOrphan
    /\ pipe = [s \in Streams |-> <<>>] /\ written = [s \in Streams |-> <<>>]
    /\ reader = [s \in Streams |-> NewReader]
    /\ overflow = [s \in Streams |-> FALSE]
    /\ stop = FALSE /\ cancel = FALSE /\ expired = FALSE
    /\ sup = IF part = "collector" THEN "Start" ELSE "Returned"
    /\ round = 1 /\ received = Unreceived /\ status = {} /\ cause = {} /\ drain = NoDrain
    /\ killed = FALSE /\ result = "None"

CallsNext ==
    \/ part = "bundle" /\ Next /\ UNCHANGED <<part, captureVars, collectorVars>>
    \/ part = "capture" /\ C!Next /\ UNCHANGED <<part, vars, collectorVars>>
    \/ part = "collector" /\ CollectorNext /\ UNCHANGED <<part, vars, captureVars>>

callsVars == <<part, vars, captureVars, collectorVars>>

CallsSpec ==
    /\ CallsInit /\ [][CallsNext]_callsVars
    /\ \A h \in Handles : WF_vars(Step(h))
    /\ \A h \in Handles : WF_captureVars(part = "capture" /\ C!Step(h))
    /\ \A r \in CaptureRequests :
        r.kind = "Ingest" =>
            SF_captureVars(part = "capture" /\ \E h \in Handles : C!Call(h, r))
    /\ WF_collectorVars(Expire)
    /\ WF_collectorVars(Supervise)
    /\ \A s \in Streams : WF_collectorVars(ReaderRuns(s))

(* Retrying converges: when failures stop and callers keep calling, every  *)
(* ingest whose clock is not behind, and whose chunk the decoder's memory  *)
(* allowance covers, ends fully linked and stays so.                       *)
RetriesConverge ==
    \A r \in CaptureRequests :
        r.kind = "Ingest" => <>[](part = "capture" => C!Published(r))
=============================================================================
