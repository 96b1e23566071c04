\* One pod covered and uncovered again, two streams.
CONSTANTS
    n1 = n1  p1 = p1  p2 = p2  v1 = v1  v2 = v2  s1 = s1  s2 = s2
    Nodes = {n1}  Pods = {p1}  NodeOf <- NodeOfPods
    Specs = {v1}  NoSpec = NoSpec
    Sessions = {s1, s2}  SessNode <- NodeOfSessions  NoSession = NoSession
    NoPend = NoPend
    OutCap = 4  NetCap = 1  MaxChanges = 1
SPECIFICATION FairSpec
PROPERTY UncoveredPodsConverge
CHECK_DEADLOCK FALSE
