\* Three shards that arrive in any order, two of them to a run.
CONSTANTS
    logs = logs  traces = traces  Types = {logs, traces}
    NoShard = NoShard
    RawShards = {1, 2, 3}  Contents <- MCContents
    MaxShardsPerRun = 2  MaxFailedRuns = 1
SPECIFICATION CompactorFairSpec
INVARIANTS MarkedShardsWritten RowsOnceWithoutFailure
 
CHECK_DEADLOCK FALSE
