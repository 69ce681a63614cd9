\* One contract of one symbol, two shards, one request, the controller and one pod.
SPECIFICATION RuntimeFairSpec
CONSTANTS
    Contract = {"c1"}
    Symbol = {1}
    Shard = {0, 1}
    ShardOf <- MCShardOf
    Handler = {"r1"}
    Controller = "controller"
    NoRow = NoRow
    NotGiven = NotGiven
    MaxTime = 1
    ClosedTimes = {}
    MaxRevision = 1
    MaxVersion = 0
    MaxFailures = 1
    Pod = {"worker-0"}
    Worker = {0}
    PodWorker <- MCPodWorker
    PodShard <- MCPodShard
    OneShot = {}
    NoLease = NoLease
    TTL = 1
    MaxLag = 1
    MaxCrashes = 1
PROPERTIES PodsSeeTheirEnvironment DeletedIsDropped CreatedIsRun
