\* One pod, one symbol of its shard and a contract on it.
SPECIFICATION FairSpec
CONSTANTS
    Pod = {"worker-0"}
    Worker = {0}
    Shard = {0}
    Symbol = {1}
    Contract = {"c1"}
    PodWorker <- MCDefaultWorker
    PodShard <- MCPodShard
    OneShot = {}
    ShardOf <- MCOneShard
    NoLease = NoLease
    Nobody = Nobody
    TTL = 2
    MaxLag = 1
    MaxCrashes = 1
INVARIANTS TypeOK KillSwitchLeak
PROPERTIES RevokedIsDropped AssignedIsOwned UnassignedIsReleased
