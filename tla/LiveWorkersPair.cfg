\* Two processes of one shard, each with a worker id of its own.
SPECIFICATION Spec
CONSTANTS
    Pod = {"worker-0", "once-0"}
    Worker = {"worker-0", "once-0"}
    Shard = {0}
    Symbol = {1}
    Contract = {}
    PodWorker <- MCOwnWorker
    PodShard <- MCPodShard
    OneShot = {"once-0"}
    ShardOf <- MCOneShard
    NoLease = NoLease
    Nobody = Nobody
    TTL = 2
    MaxLag = 1
    MaxCrashes = 0
INVARIANT LeaseHasOwner
