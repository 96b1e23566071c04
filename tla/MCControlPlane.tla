--------------------------- MODULE MCControlPlane ---------------------------
(* Small instances of ControlPlane: one node with one or two pods.  The     *)
(* number of streams bounds how often the agent loses its connection.       *)
EXTENDS ControlPlane, TLC

CONSTANTS n1, p1, p2, s1, s2, v1, v2

AllOnN1(S) == [x \in S |-> n1]
NodeOfPods == AllOnN1(Pods)
NodeOfSessions == AllOnN1(Sessions)
=============================================================================
