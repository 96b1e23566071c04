\* Start and Stop race with two emitters and with two calls of a caller.
CONSTANTS
    Emitters = {e1, e2}  Callers = {c1}
    Targets = {t1}  Specs = {v1}  NoSpec = NoSpec  Seed = Seed
    EventBuffer = 1  MaxEvents = 1  RestartCounts = {3}  MaxCalls = 2
SPECIFICATION BridgeFairSpec
INVARIANTS NoEmitOnClosed NoLostReload
PROPERTIES StopReturns ConfigConverges
CHECK_DEADLOCK FALSE
