---------------------------- MODULE MCOperations ----------------------------
(***************************************************************************)
(* Operations in three settings side by side: a behaviour is one           *)
(* command-side log, devices that exchange operation sets, or replicas     *)
(* that materialize what they hold, chosen at the start.                   *)
(***************************************************************************)
EXTENDS MCOperationLog, OfflineMerge, MCMaterializer

VARIABLE part

\* A part that is not chosen stays as it starts.
OperationsInit ==
    /\ part \in {"log", "merge", "materializer"}
    /\ Init /\ MergeInit /\ MaterializerInit

OperationsNext ==
    \/ /\ part = "log" /\ Next
       /\ UNCHANGED <<part, mergeVars, materializerVars>>
    \/ /\ part = "merge" /\ MergeNext
       /\ UNCHANGED <<part, vars, materializerVars>>
    \/ /\ part = "materializer" /\ MaterializerNext
       /\ UNCHANGED <<part, vars, mergeVars>>

OperationsSpec ==
    OperationsInit /\ [][OperationsNext]_<<part, vars, mergeVars, materializerVars>>
=============================================================================
