CONSTANTS
    r1 = r1  r2 = r2  a1 = a1  a2 = a2  t1 = t1
    aggregator = aggregator  stranger = stranger
    Requests = {r1, r2}
    Agents = {a1, a2}
    Tokens = {t1}
    Paths = {"query", "spans", "samples"}
    Names = {aggregator, stranger}
    allowedNames = {aggregator}
    AllowedTTL = 1
    DeniedTTL = 0
    maxCacheEntries = 1
    ReviewTime = 1
    MaxTime = 3
    MaxChanges = 1
    BufferCap = 1
    MaxRolls = 1
    MaxSpans = 2
    MaxServed = 1
SPECIFICATION MCSpec
INVARIANTS   UnavailableAfterAll
PROPERTIES ForwardersEnd
CHECK_DEADLOCK FALSE
