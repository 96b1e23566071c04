----------------------------- MODULE MCCoverage -----------------------------
(***************************************************************************)
(* A small cluster for TLC: two TrafficMonitors of one namespace and a     *)
(* ClusterTrafficPolicy that overlap, and a pod on each side of the        *)
(* namespace boundary.                                                     *)
(***************************************************************************)
EXTENDS Coverage, TLC

CONSTANTS p1, p2, tm1, tm2, ctp1, web, job, nsA, nsB

MCNamespace == p1 :> nsA @@ p2 :> nsB @@ tm1 :> nsA @@ tm2 :> nsA
Ranks == p1 :> 1 @@ p2 :> 2 @@ tm1 :> 3 @@ tm2 :> 4 @@ ctp1 :> 5
MCRank == [x \in CRs \cup Pods |-> Ranks[x]]

CoreOf(l4, http, hports, grpc, gports) ==
    [l4 |-> l4, http |-> http, hports |-> hports, grpc |-> grpc,
     gports |-> gports]

\* HTTP and gRPC; the same but for the gRPC port; nothing enabled.
A == [core |-> CoreOf(FALSE, TRUE, <<80>>, TRUE, <<81>>), sel |-> {web}]
B == [core |-> CoreOf(FALSE, TRUE, <<80>>, TRUE, <<82>>), sel |-> {web, job}]
N == [core |-> CoreOf(FALSE, FALSE, <<>>, FALSE, <<>>), sel |-> {web}]
MCCRSpecs == {A, B, N}

\* Monitors in conflict; a monitor that overrides a policy; a monitor with
\* nothing enabled before one that agrees with the policy.
MCBoots ==
    {[pods |-> p1 :> web @@ p2 :> Unbound,
      specs |-> tm1 :> A @@ tm2 :> B @@ ctp1 :> NoCR],
     [pods |-> p1 :> web @@ p2 :> Unbound,
      specs |-> tm1 :> NoCR @@ tm2 :> A @@ ctp1 :> B],
     [pods |-> p1 :> web @@ p2 :> Unbound,
      specs |-> tm1 :> N @@ tm2 :> B @@ ctp1 :> B]}
=============================================================================
