\* Both Secrets and gates; no pod behind the first gate, one behind the other.
CONSTANTS
    c1 = c1  c2 = c2  k1 = k1  w1 = w1  NoOne = NoOne
    Controllers = {c1, c2}  Clients = {k1}  Dialers = {c1, c2, k1}
    Pods = {w1}
    Secrets <- MCSecrets  Gates <- MCGates  SecretOf <- MCSecretOf
    CALifetime = 20  ServingLifetime = 1  RenewBefore = 0
    MaxTime = 2  MaxFaults = 1
SPECIFICATION FairSpec
INVARIANTS NoOrphanCertificates ProbedPodsStayTrusted HandshakeIsFresh
PROPERTY GatesConverge
CHECK_DEADLOCK FALSE
