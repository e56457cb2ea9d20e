--------------------------- MODULE MCApplication ---------------------------
(***************************************************************************)
(* The application and its desktop shell side by side: a behaviour is two  *)
(* sessions on one bundle, or the desktop's commands with two calls in     *)
(* flight, chosen at the start.                                            *)
(***************************************************************************)
EXTENDS ProjectSession, DesktopCommands, TLC

VARIABLE part

MCCalibration(revision) ==
    [via |-> "Request", kind |-> "Calibrate", op |-> 3, actor |-> 2, map |-> 1,
     value |-> "m", utc |-> 2, time |-> 2, depth |-> 1, parents |-> {1},
     prior |-> "absent", expected |-> revision]

\* Operation 1 imports map 1; it is asked for as an intent and, with another image
\* and an earlier clock, as a request, so its identity can be reused.  Operations 2
\* and 3 calibrate map 1: an intent, and requests whose context was right when only
\* operation 1 was persisted; one of them expects two operations by the time of its
\* append.
MCCalls ==
    {[via |-> "Intent", kind |-> "Import", op |-> 1, actor |-> 1, map |-> 1,
      value |-> "a", provenance |-> "p", utc |-> 2],
     [via |-> "Request", kind |-> "Import", op |-> 1, actor |-> 1, map |-> 1,
      value |-> "b", provenance |-> "p", utc |-> 1, time |-> 1, depth |-> 0,
      parents |-> {}, prior |-> "absent", expected |-> 0],
     [via |-> "Intent", kind |-> "Calibrate", op |-> 2, actor |-> 1, map |-> 1,
      value |-> "k", utc |-> 2],
     MCCalibration(1), MCCalibration(2)}

MCSymmetry == Permutations(Sessions) \cup Permutations(Callers)

\* A part that is not chosen stays as it starts.
ApplicationInit == part \in {"session", "desktop", "imports"} /\ SessionInit /\ Init

\* Bound on the calls of the part that makes any of them.
MaxAnyCalls == 4

\* Any MaxAnyCalls calls of the desktop, or MaxCalls calls that import maps into one
\* project: two images, a failed import and one that meets what it left behind.
DesktopCalls ==
    \/ part = "desktop" /\ started' <= MaxAnyCalls
    \/ /\ part = "imports"
       /\ Len(bundles') <= 1
       /\ \A c \in Callers :
            call'[c].cmd \in {"None", "Create", "SelectMap", "Import"} /\ call'[c].selector = 1

ApplicationNext ==
    \/ part = "session" /\ SessionsNext /\ UNCHANGED <<part, vars>>
    \/ part # "session" /\ Next /\ DesktopCalls /\ UNCHANGED <<part, sessionVars>>

ApplicationSpec == ApplicationInit /\ [][ApplicationNext]_<<part, vars, sessionVars>>
=============================================================================
