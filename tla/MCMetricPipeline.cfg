CONSTANTS
    route = route  v = v
    Empty = Empty
    Keys = {route}
    Forwardable = {route}
    Values = {v}
    Layouts = {1, 2}
    Instruments <- MCInstruments
    Amounts = {1}
    StaleAfter = 0
    Exports = {{"otlp"}, {"rw"}}
    QueueCap = 1
    MaxRetries = 2
    EventCap = 1
    MaxPoints = 3
    MaxSnapshots = 2
    MaxFaults = 1
SPECIFICATION MCSpec
INVARIANTS EveryBatchAccounted FrozenIsCounted
PROPERTIES  WorkerComesBack
CHECK_DEADLOCK FALSE
