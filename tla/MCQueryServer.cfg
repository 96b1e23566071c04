\* Two sinks; three streams, so that an old one may linger while its sink is back.
CONSTANTS
    s1 = s1  s2 = s2  c1 = c1  c2 = c2  c3 = c3
    Sinks = {s1, s2}
    Streams = {c1, c2, c3}
    Slack = 1
    Limit = 1
    MaxClock = 2
    MaxRecords = 2
    MaxAsks = 1
    MaxFaults = 2
SPECIFICATION MCSpec
INVARIANTS  AckedAreRegistered
PROPERTIES SinksComeBack
