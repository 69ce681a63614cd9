--------------------------- MODULE MCLiveWorkers ---------------------------
(* Instances of LiveOwnership: pods named after what runs them.              *)
EXTENDS LiveOwnership

\* "worker-0" and "worker-1" are the StatefulSet's pods; "once-0" is a
\* second process of shard 0 (live-worker --shard-id 0 --once).
MCPodShard == [p \in Pod |-> IF p = "worker-1" THEN 1 ELSE 0]

\* worker_id defaults to worker-{shard_id}.
MCDefaultWorker == [p \in Pod |-> MCPodShard[p]]

\* Each process with a worker_id of its own in its configuration file.
MCOwnWorker == [p \in Pod |-> p]

\* Odd symbols hash to shard 0, even ones to shard 1.
MCShardOf == [s \in Symbol |-> (s + 1) % 2]
MCOneShard == [s \in Symbol |-> 0]
=============================================================================
