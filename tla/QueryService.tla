---------------------------- MODULE QueryService ----------------------------
(***************************************************************************)
(* The ollie-query process (cmd/ollie-query/main.go): the PromQL API, the  *)
(* custom-metrics API and the stream service behind their authentication,  *)
(* over one discovered set of agents.                                      *)
(***************************************************************************)
EXTENDS SpanMux

CONSTANT MaxServed     \* bound: requests past authentication at a time

vars == <<authVars, fanVars, mux>>

Init == AuthInit /\ FanInit /\ MuxInit

Arrive(r) ==
    /\ \/ \E path \in Paths, who \in Tokens \union {"loopback", "anonymous"} :
             Wrap(r, path, who)
       \/ \E cn \in Names : ClientCert(r, "object", cn)
    /\ UNCHANGED <<fanVars, mux>>

Authorize(r) == AuthStep(r) /\ UNCHANGED <<fanVars, mux>>

Serving(r) ==
    /\ call' = [call EXCEPT ![r].at = "serving"]
    /\ UNCHANGED <<now, allowed, changed, changes, cache>>

Release(r) ==
    /\ call' = [call EXCEPT ![r] = NoCall]
    /\ UNCHANGED <<now, allowed, changed, changes, cache>>

Refuse(r) ==
    /\ call[r].at = "decided" /\ call[r].status # 200
    /\ Release(r) /\ UNCHANGED <<fanVars, mux>>

(* The handler: its own checks first, then the fan-out or the subscription. *)
Admit(r) ==
    /\ call[r].at = "decided" /\ call[r].status = 200 /\ Serving(r)
    /\ Cardinality({x \in Requests : call[x].at = "serving"}) < MaxServed
    /\ \/ /\ call[r].path = "spans" /\ UNCHANGED fanVars
          /\ \E filterOK \in BOOLEAN : SubscribeSpans(r, filterOK)
       \/ /\ call[r].path # "spans" /\ UNCHANGED mux
          /\ \/ Querier(r)
             \/ Reject(r, IF call[r].path = "object" THEN {400, 404, 501} ELSE {400})

Evaluate(r) ==
    /\ \/ \E a \in Agents : Select(r, a)
       \/ call[r].path # "object" /\ execAndWrite(r)
       \/ call[r].path = "object" /\ serveMetric(r)
    /\ UNCHANGED <<authVars, mux>>

(* The answer is written; StreamMetrics writes one per step, until the      *)
(* evaluation fails or the subscriber leaves.                               *)
Reply(r) ==
    /\ fan[r].at = "answered"
    /\ \/ Forgotten(r) /\ Release(r) /\ UNCHANGED <<dns, rolls, addrs, caFile, clients>>
       \/ call[r].path = "samples" /\ fan[r].code = 200 /\ Querier(r) /\ UNCHANGED authVars
    /\ UNCHANGED mux

Stream(r) ==
    /\ Handler(r) \/ Leave(r) \/ \E a \in Agents : ForwardAgent(r, a)
    /\ UNCHANGED <<authVars, fanVars>>

Unsubscribed(r) ==
    /\ mux[r].at = "ended" /\ Gone(r)
    /\ mux' = [mux EXCEPT ![r] = NoSub] /\ Release(r)
    /\ UNCHANGED fanVars

Discover == resolve /\ UNCHANGED <<authVars, mux>>

Cluster == (Roll \/ Mount) /\ UNCHANGED <<authVars, mux>>

ApiServer == (\E k \in Keys : PermissionChanges(k)) /\ UNCHANGED <<fanVars, mux>>

Tick == AuthTick /\ UNCHANGED <<fanVars, mux>>

ThreadStep(r) ==
    \/ Arrive(r) \/ Authorize(r) \/ Refuse(r) \/ Admit(r)
    \/ Evaluate(r) \/ Reply(r) \/ Stream(r) \/ Unsubscribed(r)

Next ==
    \/ \E r \in Requests : ThreadStep(r)
    \/ Discover \/ Cluster \/ ApiServer \/ Tick

(* Forwarders are goroutines, and a cancelled context ends their Recv.      *)
Fairness ==
    \A r \in Requests, a \in Agents :
        WF_vars(ForwardAgent(r, a) /\ UNCHANGED <<authVars, fanVars>>)

Spec == Init /\ [][Next]_vars /\ Fairness
=============================================================================
