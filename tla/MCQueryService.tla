--------------------------- MODULE MCQueryService ---------------------------
(* QueryService for TLC.  Permissions and the clock on one side, the agents  *)
(* on the other, do not meet in any handler, so that a behaviour has either  *)
(* a busy API server or agents that come and go: the other's bounds are used *)
(* up from the start, and one thread serves.                                 *)
EXTENDS QueryService

CONSTANTS r1, r2, a1, a2, t1, aggregator, stranger

BusyServer == rolls = MaxRolls /\ dns = {} /\ caFile /\ now = 0 /\ changes = 0
              /\ call = [r \in Requests |-> NoCall]

BusyAgents == rolls = 0 /\ now = MaxTime /\ changes = MaxChanges /\ allowed = Keys
              /\ call = [r \in Requests |->
                    IF r = r1 THEN NoCall ELSE [NoCall EXCEPT !.at = "unused"]]

MCInit ==
    /\ rolls \in {0, MaxRolls} /\ now \in {0, MaxTime} /\ changes \in {0, MaxChanges}
    /\ dns \in SUBSET Agents /\ caFile \in BOOLEAN /\ allowed \in {{}, Keys}
    /\ BusyServer \/ BusyAgents
    /\ addrs = {} /\ clients = {} /\ fan = [r \in Requests |-> NoQuery]
    /\ changed = [k \in Keys |-> 0] /\ cache = <<>>
    /\ MuxInit

MCSpec == MCInit /\ [][Next]_vars /\ Fairness
=============================================================================
