\* One pod per shard; the second runs one iteration at a time (--once).
SPECIFICATION Spec
CONSTANTS
    Pod = {"worker-0", "worker-1"}
    Worker = {0, 1}
    Shard = {0, 1}
    Symbol = {1, 2}
    Contract = {}
    PodWorker <- MCDefaultWorker
    PodShard <- MCPodShard
    OneShot = {"worker-1"}
    ShardOf <- MCShardOf
    NoLease = NoLease
    Nobody = Nobody
    TTL = 1
    MaxLag = 0
    MaxCrashes = 1
INVARIANTS OneOwner OwnerIsOnRecord
PROPERTY OwnershipIsExclusive
