\* Two handlers, three shards over all lives of the sink, and a failure.
CONSTANTS
    Types = {logs}  NoObject = NoObject
    Requests = {r1, r2}  Workers = {k1}
    MaxShards = 3  MaxWrites = 2  MaxFaults = 1  Budget = 4  MaxSweeps = 1
SPECIFICATION FairSpec
INVARIANTS ArchivedIsFinal RemovedOnlyIfArchived NothingForgotten RotationKeepsMappings
PROPERTIES  CloseReturns QueuedShardsArchived
CHECK_DEADLOCK FALSE
