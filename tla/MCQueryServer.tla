--------------------------- MODULE MCQueryServer ----------------------------
(* QueryServer for TLC: either streams break while nothing more is written,  *)
(* or the sinks write, rotate and are asked and no stream breaks.            *)
EXTENDS QueryServer, TLC

CONSTANTS s1, s2, c1, c2, c3

BusyStreams ==
    /\ clock = MaxClock /\ ids = MaxRecords /\ asks = 0 /\ ask = NoAsk
    /\ disk = [s \in Sinks |-> <<[start |-> MaxClock,
                  recs |-> <<[id |-> s, ts |-> MaxClock, at |-> MaxClock]>>]>>]
    /\ registry = [s \in Sinks |-> 0]
    /\ client = [s \in Sinks |-> "none"] /\ acked = {}
    /\ server = [i \in Streams |-> NoStream]
    /\ faults = 0

(* One record has been written before the first request.                     *)
BusySinks ==
    /\ clock = 0 /\ ids = 1 /\ asks = 0 /\ ask = NoAsk /\ faults = MaxFaults
    /\ disk = (s1 :> <<[start |-> 0, recs |-> <<>>]>> @@
               s2 :> <<[start |-> 0, recs |-> <<[id |-> 0, ts |-> Slack, at |-> 0]>>]>>)
    /\ client = (s1 :> c1 @@ s2 :> c2) /\ acked = Sinks
    /\ registry = [s \in Sinks |-> 1]
    /\ server = [i \in Streams |->
          CASE i = c1 -> [up |-> TRUE, address |-> s1]
            [] i = c2 -> [up |-> TRUE, address |-> s2]
            [] OTHER -> NoStream]

MCSpec ==
    /\ BusyStreams \/ BusySinks
    /\ [][ServerNext]_serverVars
    /\ ServerFairness
=============================================================================
