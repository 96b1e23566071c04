\* Two pods that come and go, two streams, an outbound queue that overflows.
CONSTANTS
    n1 = n1  p1 = p1  p2 = p2  v1 = v1  v2 = v2  s1 = s1  s2 = s2
    Nodes = {n1}  Pods = {p1, p2}  NodeOf <- NodeOfPods
    Specs = {v1, v2}  NoSpec = NoSpec
    Sessions = {s1, s2}  SessNode <- NodeOfSessions  NoSession = NoSession
    NoPend = NoPend
    OutCap = 1  NetCap = 1  MaxChanges = 1
SPECIFICATION FairSpec
INVARIANTS NoSendOnClosed OpenIffRegistered PipelineAgrees
PROPERTY CoveredPodsConverge
CHECK_DEADLOCK FALSE
