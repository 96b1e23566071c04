---------------------------- MODULE MCCertManager ----------------------------
(* Two controllers, and a pod of the webhook behind the second gate.        *)
EXTENDS CertManager, TLC

CONSTANTS c1, c2, k1, w1

MCSecrets    == <<"query", "controller">>
MCGates      == <<"query", "controller">>
MCSecretOf   == [p \in Pods |-> IF p = w1 THEN "controller" ELSE "query"]
=============================================================================
