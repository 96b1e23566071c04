------------------------------ MODULE Coverage ------------------------------
(***************************************************************************)
(* The reconciler: what ComputeCoverage derives from the pods and the      *)
(* custom resources (CRs: TrafficMonitors and ClusterTrafficPolicies), and *)
(* how Engine.Recompute hands the specs to the Dispatcher and writes the   *)
(* rollups back onto the CRs' status.                                      *)
(*                                                                         *)
(* Recompute reads the manager's cache, which trails the API server, and   *)
(* patches a status with the difference between the cached object and the  *)
(* wanted one, without an optimistic lock.  The cached copy of an object   *)
(* is therefore state of its own here, refreshed by one watch event at a   *)
(* time, and a patch overwrites only the fields in which the cached status *)
(* and the wanted one differ.                                              *)
(*                                                                         *)
(* A pod is its label, or Unbound while it has no node or does not exist;  *)
(* a selector is the set of labels it matches (none if it does not parse). *)
(* A CR name is created at most once.                                      *)
(***************************************************************************)
EXTENDS Naturals, Sequences, FiniteSets

CONSTANTS
    Pods, Labels, Unbound,
    Monitors, Policies,         \* the TrafficMonitors, the ClusterTrafficPolicies
    Namespace,                  \* of a pod, of a TrafficMonitor
    Rank,                       \* position of a name in lexicographic order
    CRSpecs, NoCR,              \* the specs a CR may be given
    Boots,                      \* the clusters to start on: [pods, specs] records
    NoSpec,
    SampleSize,                 \* of matchedPodSample (5 in the code)
    MaxChanges, MaxFaults       \* bounds on API writes and on failed patches

CRs == Monitors \cup Policies

ASSUME PodsAssumption == IsFiniteSet(Pods)
ASSUME KindAssumption == Monitors \cap Policies = {}
ASSUME RankAssumption ==
    /\ Rank \in [CRs \cup Pods -> Nat]
    /\ \A c, d \in CRs : Rank[c] = Rank[d] => c = d
    /\ \A S \in SUBSET CRs : S # {} =>          \* there are finitely many
          \E c \in S : \A d \in S : Rank[c] <= Rank[d]

\* MonitoringSpecCore: the protocols enabled, and the ports of HTTP and gRPC.
\* (A protocol that is absent is one that is not enabled.)
Cores == [l4 : BOOLEAN, http : BOOLEAN, hports : Seq(Nat),
          grpc : BOOLEAN, gports : Seq(Nat)]
ASSUME CRSpecsAssumption == CRSpecs \subseteq [core : Cores, sel : SUBSET Labels]
ASSUME UnboundAssumption == Unbound \notin Labels
ASSUME BootsAssumption ==
    Boots \subseteq [pods : [Pods -> Labels \cup {Unbound}],
                     specs : [CRs -> CRSpecs \cup {NoCR}]]

-----------------------------------------------------------------------------
(* ComputeCoverage, over a view v of the cluster: v.pods and v.crs.        *)

L4TCP == 1
HTTP1 == 2
GRPC  == 8

\* buildSpecFromCovering.  The protocol bits are disjoint, so that | is +; the
\* ports are a sorted list without duplicates, that is, a set.
SpecOf(core) ==
    LET bits == (IF core.l4 THEN L4TCP ELSE 0) + (IF core.http THEN HTTP1 ELSE 0)
                + (IF core.grpc THEN GRPC ELSE 0)
        PortSet(on, ports) == IF on THEN {ports[i] : i \in DOMAIN ports} ELSE {}
    IN  IF bits = 0 THEN NoSpec
        ELSE [protocols |-> bits,
              ports |-> PortSet(core.http, core.hports)
                        \cup PortSet(core.grpc, core.gports)]

\* Two port lists are equal once sorted (normPorts does not drop duplicates).
SamePorts(a, b) ==
    \A x \in {a[i] : i \in DOMAIN a} \cup {b[i] : i \in DOMAIN b} :
        Cardinality({i \in DOMAIN a : a[i] = x})
            = Cardinality({i \in DOMAIN b : b[i] = x})

\* Mutant of specsAgree: the gRPC ports are not compared.
specsAgreeIgnoresGRPC(a, b) ==
    /\ a.l4 = b.l4
    /\ a.http = b.http /\ (a.http => SamePorts(a.hports, b.hports))

specsAgree(a, b) ==
    /\ a.l4 = b.l4
    /\ a.http = b.http /\ (a.http => SamePorts(a.hports, b.hports))
    /\ a.grpc = b.grpc /\ (a.grpc => SamePorts(a.gports, b.gports))

\* A TrafficMonitor selects in its own namespace, a policy in all of them.
Selects(v, c, p) ==
    /\ v.crs[c] # NoCR
    /\ v.pods[p] # Unbound
    /\ c \in Monitors => Namespace[c] = Namespace[p]
    /\ v.pods[p] \in v.crs[c].spec.sel

MatchedPods(v, c) == {p \in Pods : Selects(v, c, p)}

\* Precedence: a policy is a candidate only where no monitor selects the pod.
Candidates(v, p) ==
    LET tms == {c \in Monitors : Selects(v, c, p)}
    IN  IF tms # {} THEN tms ELSE {c \in Policies : Selects(v, c, p)}

\* Tie-break: the candidate whose name is first.
First(S) == CHOOSE c \in S : \A d \in S : Rank[c] <= Rank[d]
Winner(v, p) == First(Candidates(v, p))

CoveredPods(v, c) ==
    {p \in Pods : Candidates(v, p) # {} /\ Winner(v, p) = c}

Core(v, c) == v.crs[c].spec.core

\* The winner and every candidate that disagrees with it name each other.
Conflicts(v, c) ==
    UNION {LET cs == Candidates(v, p)
           IN  {d \in cs \ {c} : /\ c \in cs /\ First(cs) \in {c, d}
                                 /\ ~specsAgree(Core(v, c), Core(v, d))}
           : p \in MatchedPods(v, c)}

\* CoverageResult.Specs.
Specs(v) ==
    [p \in Pods |-> IF Candidates(v, p) = {} THEN NoSpec
                    ELSE SpecOf(Core(v, Winner(v, p)))]

-----------------------------------------------------------------------------
(* The status of a CR.  Its conditions are a function of the Ready reason  *)
(* before conflicts displace it and of the CRs in conflict.                *)

Reasons == {"none", "NoPodsMatched", "PendingAgents", "AllPodsCovered"}

EmptyStatus ==
    [generation |-> 0, matched |-> 0, active |-> 0, sample |-> {},
     conflicts |-> {}, conditions |-> [reason |-> "none", against |-> {}]]

StatusFields == DOMAIN EmptyStatus

Statuses ==
    [generation : Nat, matched : Nat, active : Nat, sample : SUBSET Pods,
     conflicts : SUBSET CRs,
     conditions : [reason : Reasons, against : SUBSET CRs]]

Objects == [spec : CRSpecs, gen : Nat, status : Statuses]
MaybeObjects == Objects \cup {NoCR}

ASSUME NoCRAssumption == NoCR \notin Objects

\* The first SampleSize names, in lexicographic order.
Sample(S) == {p \in S : Cardinality({q \in S : Rank[q] < Rank[p]}) < SampleSize}

\* Mutant of makeDesired: an early return when no pod matches.
makeDesiredEarlyReturn(o, v, c, act) ==
    IF MatchedPods(v, c) = {}
    THEN [EmptyStatus EXCEPT !.conditions.reason = "NoPodsMatched"]
    ELSE [EmptyStatus EXCEPT !.generation = o.gen,
                             !.matched = Cardinality(MatchedPods(v, c)),
                             !.conflicts = Conflicts(v, c)]

\* makeDesired, for the object o of CR c; act: the pods with an active report.
makeDesired(o, v, c, act) ==
    LET matched == MatchedPods(v, c)
        covered == CoveredPods(v, c)
        conflicts == Conflicts(v, c)
        active == Cardinality(covered \cap act)
        reason == IF matched = {} THEN "NoPodsMatched"
                  ELSE IF active < Cardinality(covered) THEN "PendingAgents"
                  ELSE "AllPodsCovered"
    IN  [generation |-> o.gen, matched |-> Cardinality(matched),
         active |-> active, sample |-> Sample(covered),
         conflicts |-> conflicts,
         conditions |-> [reason |-> reason, against |-> conflicts]]

\* Mutant of MergePatch: the two objects of the difference are swapped.
MergePatchSwapped(base, want, cur, restamp) ==
    [f \in StatusFields |-> IF base[f] # want[f] THEN base[f] ELSE cur[f]]

\* The JSON merge patch of client.MergeFrom(base), applied to the status cur.
\* The conditions are one list, and carry the time of the write: they are in
\* the patch even if their content is the same (restamp), unless the cached
\* ones were written in the same second.
MergePatch(base, want, cur, restamp) ==
    [f \in StatusFields |->
        IF base[f] # want[f] \/ (f = "conditions" /\ restamp)
        THEN want[f] ELSE cur[f]]

-----------------------------------------------------------------------------
VARIABLES
    pods, crs,                  \* API server: pods, and CR objects or NoCR
    gone, changes, faults,      \* deleted names; writes and failed patches so far
    cpods, ccrs,                \* the manager's cache of pods and crs
    dirty,                      \* a reconcile request is queued
    engine, snap, todo, failed, \* Recompute: step, lists read, CRs left, errors
    sent, applied,              \* what Dispatcher.Apply was last given, and the
                                \*   generation of each CR it was computed from
    active                      \* AgentStateStore

api == <<pods, crs, gone, changes>>
cache == <<cpods, ccrs>>
run == <<engine, snap, todo, failed>>
dispatch == <<sent, applied>>
vars == <<api, faults, cache, dirty, run, dispatch, active>>

Truth == [pods |-> pods, crs |-> crs]
PodStates == Labels \cup {Unbound}
NoLists == [pods |-> [p \in Pods |-> Unbound], crs |-> [c \in CRs |-> NoCR]]
Object(spec, gen, status) == [spec |-> spec, gen |-> gen, status |-> status]

\* A controller starts on a cluster with some pods and CRs it has not seen
\* before; its caches have synced, and the sync queued a reconcile.
Init ==
    /\ \E b \in Boots :
          /\ pods = b.pods
          /\ crs = [c \in CRs |-> IF b.specs[c] = NoCR THEN NoCR
                                  ELSE Object(b.specs[c], 1, EmptyStatus)]
    /\ gone = {} /\ changes = 0 /\ faults = 0
    /\ cpods = pods /\ ccrs = crs
    /\ dirty = TRUE
    /\ engine = "idle" /\ snap = NoLists
    /\ todo = {} /\ failed = FALSE
    /\ sent = [p \in Pods |-> NoSpec] /\ applied = [c \in CRs |-> 0]
    /\ active = {}

-----------------------------------------------------------------------------
(* The API server and the informers.                                       *)

\* A pod is bound, relabelled or deleted.
PodChange(p, l) ==
    /\ changes < MaxChanges /\ pods[p] # l
    /\ pods' = [pods EXCEPT ![p] = l]
    /\ changes' = changes + 1
    /\ UNCHANGED <<crs, gone, faults, cache, dirty, run, dispatch, active>>

\* A CR is created or its spec is replaced, which increments its generation.
CRWrite(c, s) ==
    /\ changes < MaxChanges /\ c \notin gone
    /\ crs[c] # NoCR => crs[c].spec # s
    /\ crs' = [crs EXCEPT ![c] =
                  IF @ = NoCR THEN Object(s, 1, EmptyStatus)
                  ELSE Object(s, @.gen + 1, @.status)]
    /\ changes' = changes + 1
    /\ UNCHANGED <<pods, gone, faults, cache, dirty, run, dispatch, active>>

CRDelete(c) ==
    /\ changes < MaxChanges /\ crs[c] # NoCR
    /\ crs' = [crs EXCEPT ![c] = NoCR]
    /\ gone' = gone \cup {c}
    /\ changes' = changes + 1
    /\ UNCHANGED <<pods, faults, cache, dirty, run, dispatch, active>>

\* The watch delivers an object's current state to the cache, and the event
\* handler of For() queues a reconcile.
CachePod(p) ==
    /\ cpods[p] # pods[p]
    /\ cpods' = [cpods EXCEPT ![p] = pods[p]]
    /\ dirty' = TRUE
    /\ UNCHANGED <<api, faults, ccrs, run, dispatch, active>>

CacheCR(c) ==
    /\ ccrs[c] # crs[c]
    /\ ccrs' = [ccrs EXCEPT ![c] = crs[c]]
    /\ dirty' = TRUE
    /\ UNCHANGED <<api, faults, cpods, run, dispatch, active>>

\* The informers' periodic resync queues every object again.
Resync ==
    /\ ~dirty
    /\ dirty' = TRUE
    /\ UNCHANGED <<api, faults, cache, run, dispatch, active>>

-----------------------------------------------------------------------------
(* Engine.Recompute, under e.mu.  Each List reads the cache at a moment of *)
(* its own.  (A List that fails returns before anything has changed, and   *)
(* the request is queued again.)                                           *)

ListPods ==
    /\ engine = "idle" /\ dirty
    /\ engine' = "pods" /\ dirty' = FALSE
    /\ snap' = [snap EXCEPT !.pods = cpods]
    /\ UNCHANGED <<api, faults, cache, todo, failed, dispatch, active>>

Read(S) == [c \in CRs |-> IF c \in S THEN ccrs[c] ELSE snap.crs[c]]

ListMonitors ==
    /\ engine = "pods"
    /\ engine' = "monitors"
    /\ snap' = [snap EXCEPT !.crs = Read(Monitors)]
    /\ UNCHANGED <<api, faults, cache, dirty, todo, failed, dispatch, active>>

\* The last List, ComputeCoverage and Dispatcher.Apply.
ListPoliciesAndApply ==
    /\ engine = "monitors"
    /\ engine' = "write"
    /\ snap' = [snap EXCEPT !.crs = Read(Policies)]
    /\ sent' = Specs(snap')
    /\ applied' = [c \in CRs |->
                      IF snap'.crs[c] = NoCR THEN applied[c] ELSE snap'.crs[c].gen]
    /\ todo' = {c \in CRs : snap'.crs[c] # NoCR}
    /\ UNCHANGED <<api, faults, cache, dirty, failed, active>>

\* WriteStatuses goes through the monitors first.
Turn(c) == c \in IF todo \cap Monitors # {} THEN todo \cap Monitors ELSE todo

\* Mutant of Desired: the generation is read again when the status is written.
DesiredFreshGeneration(c) ==
    makeDesired(IF crs[c] = NoCR THEN snap.crs[c] ELSE crs[c], snap, c, active)

Desired(c) == makeDesired(snap.crs[c], snap, c, active)

\* One round of WriteStatuses.  A status equal to the wanted one (statusEqual)
\* is left alone; a patch that fails, because the CR is gone or the request
\* does not get through, is remembered, and the other CRs have their turn.
WriteStatus(c) ==
    /\ engine = "write" /\ Turn(c)
    /\ todo' = todo \ {c}
    /\ \E listed \in {snap.crs[c].status}, want \in {Desired(c)} :
          \/ /\ listed = want
             /\ UNCHANGED <<crs, faults, failed>>
          \/ /\ listed # want /\ crs[c] # NoCR
             /\ \E restamp \in BOOLEAN :
                   crs' = [crs EXCEPT ![c].status =
                              MergePatch(listed, want, @, restamp)]
             /\ UNCHANGED <<faults, failed>>
          \/ /\ listed # want /\ (crs[c] = NoCR \/ faults < MaxFaults)
             /\ faults' = IF crs[c] = NoCR THEN faults ELSE faults + 1
             /\ failed' = TRUE
             /\ UNCHANGED crs
    /\ UNCHANGED <<pods, gone, changes, cache, dirty, engine, snap, dispatch,
                   active>>

\* Recompute returns; an error makes controller-runtime retry the request.
Return ==
    /\ engine = "write" /\ todo = {}
    /\ engine' = "idle" /\ snap' = NoLists /\ failed' = FALSE
    /\ dirty' = (dirty \/ failed)
    /\ UNCHANGED <<api, faults, cache, todo, dispatch, active>>

\* AgentStateStore.Record of a pod's AgentStatus, some time after the agent
\* got the delta.  It queues no reconcile.
AgentReport(p) ==
    /\ (p \in active) # (sent[p] # NoSpec)
    /\ active' = IF sent[p] # NoSpec THEN active \cup {p} ELSE active \ {p}
    /\ UNCHANGED <<api, faults, cache, dirty, run, dispatch>>

-----------------------------------------------------------------------------
EngineStep ==
    \/ ListPods \/ ListMonitors \/ ListPoliciesAndApply \/ Return
    \/ \E c \in CRs : WriteStatus(c)

Watch == (\E p \in Pods : CachePod(p)) \/ (\E c \in CRs : CacheCR(c))
Report == \E p \in Pods : AgentReport(p)

Next ==
    \/ EngineStep \/ Resync \/ Watch \/ Report
    \/ \E p \in Pods, l \in PodStates : PodChange(p, l)
    \/ \E c \in CRs : CRDelete(c) \/ \E s \in CRSpecs : CRWrite(c, s)

\* The reconcile goroutine runs, the watches deliver, the agents report and
\* the informers resync; nothing forces the cluster to change.
Fairness ==
    WF_vars(EngineStep) /\ WF_vars(Resync) /\ WF_vars(Watch) /\ WF_vars(Report)

Spec == Init /\ [][Next]_vars /\ Fairness

-----------------------------------------------------------------------------
(* Properties.                                                             *)

\* Every variable has its type.
TypeOK ==
    /\ pods \in [Pods -> PodStates] /\ cpods \in [Pods -> PodStates]
    /\ crs \in [CRs -> MaybeObjects] /\ ccrs \in [CRs -> MaybeObjects]
    /\ gone \subseteq CRs /\ changes \in Nat /\ faults \in Nat
    /\ dirty \in BOOLEAN /\ failed \in BOOLEAN
    /\ engine \in {"idle", "pods", "monitors", "write"}
    /\ snap \in [pods : [Pods -> PodStates], crs : [CRs -> MaybeObjects]]
    /\ todo \subseteq CRs
    /\ applied \in [CRs -> Nat] /\ active \subseteq Pods

\* No reconcile is queued or running, and the cache has seen every write.
Quiescent == ~dirty /\ engine = "idle" /\ cpods = pods /\ ccrs = crs

Wanted(c) == makeDesired(crs[c], Truth, c, active)

\* "ObservedGeneration is the .metadata.generation the reconciler has fully
\* applied": a status never shows a generation of the spec from which no specs
\* have been handed to the Dispatcher.
ObservedGenerationApplied ==
    \A c \in CRs : crs[c] # NoCR => crs[c].status.generation <= applied[c]

\* Overlap that the reconciler does not report is harmless: when the CR that
\* wins a pod shows no conflict, every CR of the same kind that selects the pod
\* would have produced the very spec the agents were given.
SilentOverlapIsHarmless ==
    Quiescent =>
        \A p \in Pods : Candidates(Truth, p) # {} =>
            LET w == Winner(Truth, p) IN
            crs[w].status.conflicts = {} =>
                \A d \in Candidates(Truth, p) : sent[p] = SpecOf(Core(Truth, d))

\* A patch computed from a stale object never takes observedGeneration back.
ObservedGenerationGrows ==
    [][\A c \in CRs : crs[c] # NoCR /\ crs'[c] # NoCR =>
          crs'[c].status.generation >= crs[c].status.generation]_vars

\* Once pods and CRs stop changing and patches stop failing, the Dispatcher
\* comes to hold the specs of the cluster as it is, and every status to show it
\* and the agents' reports, for good.
StatusConverges ==
    <>[](/\ sent = Specs(Truth)
         /\ \A c \in CRs : crs[c] # NoCR => crs[c].status = Wanted(c))
=============================================================================
