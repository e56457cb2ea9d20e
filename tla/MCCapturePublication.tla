------------------------ MODULE MCCapturePublication ------------------------
(***************************************************************************)
(* Instances of CapturePublication: two processes, four captures, two of   *)
(* which share a retained record and one of which (long) has more          *)
(* observations than the decoder's allowance admits.  The calls of one     *)
(* behaviour come from one workload.                                       *)
(***************************************************************************)
EXTENDS CapturePublication

CONSTANT Workloads

VARIABLE workload

MCCapture(obs, ok, raw) == [obs |-> obs, ok |-> ok, raw |-> raw]

MCCaptures ==
    [c \in {"good", "partial", "empty", "long"} |->
        CASE c = "good" -> MCCapture({"o1", "o2"}, TRUE, <<1>>)
          [] c = "partial" -> MCCapture({"o3"}, FALSE, <<1>>)
          [] c = "empty" -> MCCapture({}, FALSE, <<>>)
          [] c = "long" -> MCCapture({"o4", "o5", "o6"}, TRUE, <<>>)]

MCIngest(cap, base, snap, utc) ==
    [kind |-> "Ingest", cap |-> cap, base |-> base, snap |-> snap, prov |-> "p", utc |-> utc]

MCSpool(cap, prov, utc) == [kind |-> "Spool", cap |-> cap, prov |-> prov, utc |-> utc]

MCSession(session, cap) == [kind |-> "Session", session |-> session, cap |-> cap]

MCOther(utc) == [kind |-> "Other", blob |-> <<"other", 0>>, prov |-> "p", utc |-> utc]

\* One survey grows by two captures; another call disagrees on its snapshot.
MCSurveyCalls ==
    {MCIngest("good", {}, "s1", 1), MCIngest("good", {}, "s2", 2),
     MCIngest("partial", {"s1"}, "s3", 2), MCIngest("good", {"s3"}, "s3", 2),
     MCOther(2)}

\* Spooled evidence and the sessions registered for it.
MCSessionCalls ==
    {MCSpool("good", "p", 1), MCSpool("good", "q", 1), MCSpool("empty", "p", 1),
     MCSession("x", "good"), MCSession("y", "good"), MCSession("x", "empty")}

\* Evidence that can no longer be decoded, beside evidence that could.
MCLongCalls == {MCSpool("good", "p", 1), MCSpool("long", "p", 1), MCSession("x", "good")}

\* The same request, repeated around a later commit of somebody else.
MCClockCalls == {MCIngest("good", {}, "s1", 1), MCOther(2)}

MCWorkloads == {MCSurveyCalls, MCSessionCalls, MCLongCalls}
MCClockOnly == {MCClockCalls}
MCCalls == UNION MCWorkloads

MCInit == Init /\ workload \in Workloads

MCNext ==
    /\ Next
    /\ \A h \in Handles : request'[h] \in workload \cup {NoCall}
    /\ UNCHANGED workload

MCSpec == MCInit /\ [][MCNext]_<<vars, workload>>
=============================================================================
