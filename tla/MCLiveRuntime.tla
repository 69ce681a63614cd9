--------------------------- MODULE MCLiveRuntime ---------------------------
(* Instances of LiveRuntime: one shard and its pod.                        *)
EXTENDS LiveRuntime

MCPodWorker == [p \in Pod |-> 0]
MCPodShard == [p \in Pod |-> 0]
MCShardOf == [s \in Symbol |-> 0]
=============================================================================
