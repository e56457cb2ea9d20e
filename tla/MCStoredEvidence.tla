-------------------------- MODULE MCStoredEvidence --------------------------
(***************************************************************************)
(* Evidence on its way into a bundle and out of it, side by side: a        *)
(* behaviour is one collector's record stream, two processes that publish  *)
(* snapshots and observation chunks, one of the readers of MCStoreReads,   *)
(* or a tile and its scene, chosen at the start.                           *)
(***************************************************************************)
EXTENDS MCStoreReads, MCScene, MCCollectorWire

VARIABLES projection, hot, stage, call, work, reply

-----------------------------------------------------------------------------
(* Two processes on one bundle: snapshots and chunks whose bytes and       *)
(* observations collide.                                                   *)

PutCall(blob, entry, utc) == [kind |-> "Put", blob |-> blob, entry |-> entry, utc |-> utc]
SnapshotCall(id, blob, utc, expected) ==
    [kind |-> "Snapshot", id |-> id, blob |-> blob, utc |-> utc, expected |-> expected]
ChunkCall(blob, utc) == [kind |-> "Chunk", blob |-> blob, utc |-> utc]

AnyReplays(ops) == TRUE

B == INSTANCE BundleStore WITH
       Handles <- {"h1", "h2"}, request <- call,
       Requests <- {PutCall("s", "Raw", 1), SnapshotCall(1, "s", 1, {}),
                    SnapshotCall(2, "s", 2, {1}), ChunkCall("c1", 1), ChunkCall("c2", 2)},
       Members <- [c1 |-> {"o1"}, c2 |-> {"o1", "o2"}],
       MaxOperations <- 1, MaxSnapshots <- 2, Replays <- AnyReplays

-----------------------------------------------------------------------------
bundleVars == <<projection, hot, stage, call, work, reply>>

NoBundle == projection = 0 /\ hot = 0 /\ stage = 0 /\ call = 0 /\ work = 0 /\ reply = 0
NoScene == request = 0 /\ tile = None /\ scene = None /\ document = None /\ reloaded = None
NoWire ==
    /\ os = 0 /\ options = 0 /\ ended = 0 /\ torn = 0 /\ at = 0 /\ leaving = 0
    /\ local = 0 /\ exit = 0 /\ stream = <<>> /\ late = 0
NoReads ==
    NoCodec /\ NoObservations /\ NoSnapshots /\ NoHistory /\ NoSessions /\ hurt = 0 /\ walk = 0

StoredInit ==
    \/ ReadsInit /\ NoBundle /\ NoScene /\ NoWire
    \/ which = "bundle" /\ B!Init /\ NoReads /\ NoScene /\ NoWire
    \/ which = "scene" /\ SceneInit /\ NoReads /\ NoBundle /\ NoWire /\ db = 0 /\ files = 0
    \/ which = "wire" /\ WireInit /\ NoReads /\ NoBundle /\ NoScene /\ db = 0 /\ files = 0

StoredNext ==
    \/ ReadsNext /\ UNCHANGED <<bundleVars, sceneVars, wireVars>>
    \/ /\ which = "bundle" /\ B!Next
       /\ UNCHANGED <<which, codecVars, readerVars, sceneVars, wireVars>>
    \/ /\ which = "scene" /\ SceneNext
       /\ UNCHANGED <<ReadsVars, bundleVars, wireVars>>
    \/ /\ which = "wire" /\ WireNext
       /\ UNCHANGED <<ReadsVars, bundleVars, sceneVars>>

StoredSpec == StoredInit /\ [][StoredNext]_<<ReadsVars, bundleVars, sceneVars, wireVars>>

-----------------------------------------------------------------------------
\* BundleStore: no observation is stored in two registered chunks
\* (publish_observation_chunk_with_resolver's membership test).
ObservationInOneChunk == which = "bundle" => B!ObservationInOneChunk
=============================================================================
