------------------------------- MODULE Fanout -------------------------------
(***************************************************************************)
(* Discovery and fan-out of queries (internal/fanout, internal/queryapi,   *)
(* internal/custommetrics): a query reads the agents known when it starts, *)
(* each with its own outcome, and its answer names those it misses.  What  *)
(* an agent stores is its own series; an answer is the set of agents whose *)
(* series are in it, whole or in part.                                     *)
(***************************************************************************)
EXTENDS ScrapeAuth

CONSTANTS Agents,
          MaxRolls     \* bound: changes of the agents behind the Service

ASSUME FanAssumption == IsFiniteSet(Agents)

VARIABLES dns,       \* the agents behind the headless Service
          rolls,
          addrs,     \* Discoverer.addrs
          caFile,    \* --agent-ca-file is mounted
          clients,   \* Queryable.clients
          fan        \* request -> the query it evaluates

fanVars == <<dns, rolls, addrs, caFile, clients, fan>>

NoQuery == [at |-> "none", addrs |-> {}, left |-> {}, blind |-> {}, missing |-> {},
            full |-> {}, part |-> {}, code |-> 0]

FanInit ==
    /\ dns \in SUBSET Agents /\ rolls = 0 /\ addrs = {} /\ clients = {}
    /\ caFile \in BOOLEAN
    /\ fan = [r \in Requests |-> NoQuery]

(* resolve: a lookup that fails, or finds nothing, keeps the previous set.  *)
resolve ==
    /\ dns # {} /\ addrs' = dns
    /\ UNCHANGED <<dns, rolls, caFile, clients, fan>>

(* Pods come and go; kubelet mounts the CA bundle.                          *)
Roll == /\ rolls < MaxRolls /\ rolls' = rolls + 1
        /\ dns' \in (SUBSET Agents) \ {dns}
        /\ UNCHANGED <<addrs, caFile, clients, fan>>

Mount == ~caFile /\ caFile' = TRUE /\ UNCHANGED <<dns, rolls, addrs, clients, fan>>

(* handleQuery, handleQueryRange, InstantVector and Querier: the query is   *)
(* bound to the agents of this moment; where no client can be built a       *)
(* stand-in takes the agent's place.                                        *)
Querier(r) ==
    /\ clients' = IF caFile THEN clients \union addrs ELSE clients
    /\ fan' = [fan EXCEPT ![r] =
          [NoQuery EXCEPT !.at = "select", !.addrs = addrs, !.left = addrs,
                          !.blind = addrs \ clients']]
    /\ UNCHANGED <<dns, rolls, addrs, caFile>>

(* Mutant of Select: a stream that fails midway is taken for its end.       *)
SelectSwallows(r, a) ==
    /\ fan[r].at = "select" /\ a \in fan[r].left
    /\ \/ /\ a \notin fan[r].blind
          /\ \E whole \in BOOLEAN : fan' = [fan EXCEPT ![r].left = @ \ {a},
                   ![r].full = IF whole THEN @ \union {a} ELSE @,
                   ![r].part = IF whole THEN @ ELSE @ \union {a}]
       \/ fan' = [fan EXCEPT ![r].left = @ \ {a}, ![r].missing = @ \union {a}]
    /\ UNCHANGED <<dns, rolls, addrs, caFile, clients>>

(* Select of an agent, and the drain of its series: all of them, none       *)
(* (the read failed, or there is no client), or some and then an error,     *)
(* which Err turns into a miss.                                             *)
Select(r, a) ==
    /\ fan[r].at = "select" /\ a \in fan[r].left
    /\ \/ a \notin fan[r].blind
          /\ fan' = [fan EXCEPT ![r].left = @ \ {a}, ![r].full = @ \union {a}]
       \/ fan' = [fan EXCEPT ![r].left = @ \ {a}, ![r].missing = @ \union {a}]
       \/ a \notin fan[r].blind
          /\ fan' = [fan EXCEPT ![r].left = @ \ {a}, ![r].missing = @ \union {a},
                                ![r].part = @ \union {a}]
    /\ UNCHANGED <<dns, rolls, addrs, caFile, clients>>

Answer(r, code) == fan' = [fan EXCEPT ![r].at = "answered", ![r].code = code]

(* execAndWrite: an engine error (its deadline) is 422.                     *)
execAndWrite(r) ==
    /\ fan[r].at = "select" /\ fan[r].left = {}
    /\ Answer(r, 200) \/ Answer(r, 422)
    /\ UNCHANGED <<dns, rolls, addrs, caFile, clients>>

(* serveMetric after the evaluation: an error is 500; no series, or a value *)
(* that is not finite, is 404, so that the HPA keeps what it has.           *)
serveMetric(r) ==
    /\ fan[r].at = "select" /\ fan[r].left = {}
    /\ \/ Answer(r, 500) \/ Answer(r, 404)
       \/ fan[r].full \union fan[r].part # {} /\ Answer(r, 200)
    /\ UNCHANGED <<dns, rolls, addrs, caFile, clients>>

(* A request that is wrong in itself: no query, no such resource or metric, *)
(* a wildcard name, a selector that cannot be expressed.                    *)
Reject(r, codes) ==
    /\ \E c \in codes : fan' = [fan EXCEPT ![r] = [NoQuery EXCEPT !.at = "answered", !.code = c]]
    /\ UNCHANGED <<dns, rolls, addrs, caFile, clients>>

Forgotten(r) == fan' = [fan EXCEPT ![r] = NoQuery]

-----------------------------------------------------------------------------
(* missing_nodes names exactly the agents, of those known when the query    *)
(* started, whose series are not all in the answer: an answer that is not   *)
(* flagged as degraded is complete (Querier, Select, Err, execAndWrite).    *)
MissingIsExact ==
    \A r \in Requests : fan[r].at = "answered" /\ fan[r].code = 200 =>
        fan[r].missing = fan[r].addrs \ fan[r].full
=============================================================================
