---------------------------- MODULE CertManager -----------------------------
(***************************************************************************)
(* The self-managed CA (internal/ca/manager.go, ca.go, webhookconfig.go,   *)
(* apiservice.go).  The elected controller runs a pass again and again: it *)
(* makes sure of the CA Secret, then of the serving Secrets one after the  *)
(* other, then opens two gates: when every ready endpoint behind the       *)
(* APIService, or behind the webhook, presents a certificate of the CA,    *)
(* the object is told to trust that CA and to insist on it.                *)
(*                                                                         *)
(* Every API call and every probe is a step of its own.  A controller may  *)
(* die between two steps, and one that lost the lease finishes the pass it *)
(* is in while its successor begins.  An operator may delete or damage the *)
(* CA Secret or re-apply the manifests.                                    *)
(***************************************************************************)
EXTENDS CertReloader, Sequences, FiniteSets, Functions

CONSTANTS Controllers,      \* the controller replicas, also dialers: probe
          Clients,          \* the other dialers: aggregator, API server
          Secrets,          \* the serving Secrets in the order of a pass
          Gates,            \* the gates in the order of a pass, by Secret
          SecretOf,         \* pod -> the serving Secret it mounts
          CALifetime, ServingLifetime, RenewBefore,
          MaxTime,          \* bound: the clock
          MaxFaults         \* bound: errors, deaths, restarts, operator acts

ASSUME CertAssumption ==
    /\ Dialers = Controllers \union Clients
    /\ NoOne \notin Pods \union Dialers
    /\ Secrets \in Seq(Range(Secrets)) \ {<<>>}
    /\ Gates \in Seq(Range(Secrets))
    /\ SecretOf \in [Pods -> Range(Secrets)]
    /\ {CALifetime, ServingLifetime, RenewBefore} \subseteq Nat
    /\ RenewBefore < ServingLifetime

VARIABLES now,
          caSecret,     \* the CA Secret: [state, id, until]
          mints,        \* CAs minted so far: the next one's id
          serving,      \* per serving Secret: a certificate, NoCert if absent
          serial,       \* serving certificates issued so far
          posture,      \* per gate: [there, bundle, strict]
          leader,       \* who holds the lease
          ctl,          \* per controller: the pass it is in
          faults,
          stored,       \* for the properties: the CAs the Secret has held
          vetted,       \* the pods probed for the commit that is in force
          passed        \* a pass of this hour has succeeded

api  == <<caSecret, mints, serving, serial, posture, stored, vetted>>
env  == <<now, leader, faults, passed>>
vars == <<pods, hs, api, ctl, env>>

NoCA   == [state |-> "absent", id |-> 0, until |-> 0]
Idle   == [at |-> "idle", ca |-> NoCA, i |-> 0, old |-> NoCert,
           addrs |-> {}, list |-> {}, clean |-> TRUE]

(* A CA; its id stands for its key.                                         *)
NewCA(id, t) == [state |-> "ok", id |-> id, until |-> t + CALifetime]

(* Parse: the Secret holds a CA certificate and the key that belongs to it. *)
Usable(secret) == secret.state = "ok"

IssueServingCert(ca, t, n) ==
    [ca |-> ca.id, until |-> t + ServingLifetime, serial |-> n]

(* leaf.Verify: signed by the CA, and neither has expired.                  *)
VerifyServedBy(leaf, ca, t) ==
    /\ leaf.ca = ca.id
    /\ t <= leaf.until /\ t <= ca.until

(* The names are those of the Secret, so they always match.                 *)
ServingCertMatches(leaf, ca, t) == leaf # NoCert /\ VerifyServedBy(leaf, ca, t)

(* Mutant of Healthy: the expiry is not looked at.                          *)
HealthyWhenSigned(leaf, ca, t) == ServingCertMatches(leaf, ca, t)

(* Not due for renewal either.                                              *)
Healthy(leaf, ca, t) ==
    /\ ServingCertMatches(leaf, ca, t)
    /\ leaf.until - t > RenewBefore

(* What the manifests ship: no caBundle, and insecureSkipTLSVerify or       *)
(* failurePolicy=Ignore.                                                    *)
Shipped == [there |-> TRUE, bundle |-> 0, strict |-> FALSE]

(* What Commit writes, both fields in one patch.                            *)
Enforcing(ca) == [there |-> TRUE, bundle |-> ca.id, strict |-> TRUE]

(* Get: both fields are as they should be.                                  *)
Converged(po, ca) == po.strict /\ po.bundle = ca.id

Init ==
    /\ pods = [p \in Pods |-> DownPod] /\ hs = [d \in Dialers |-> NoShake]
    /\ now = 0 /\ caSecret = NoCA /\ mints = 0
    /\ serving = [s \in Range(Secrets) |-> NoCert] /\ serial = 0
    /\ posture \in [Range(Gates) -> {Shipped, [Shipped EXCEPT !.there = FALSE]}]
    /\ leader = (CHOOSE c \in Controllers : TRUE) /\ ctl = [c \in Controllers |-> Idle]
    /\ faults = 0 /\ stored = {} /\ passed = FALSE
    /\ vetted = [g \in Range(Gates) |-> {}]

Goto(c, at) == ctl' = [ctl EXCEPT ![c].at = at]
Fault == faults < MaxFaults /\ faults' = faults + 1

-----------------------------------------------------------------------------
(* Start: the leader's first pass, and one for every tick of its ticker.    *)
Begin(c) ==
    /\ leader = c /\ ctl[c].at = "idle"
    /\ ctl' = [ctl EXCEPT ![c] = [Idle EXCEPT !.at = "ca"]]
    /\ UNCHANGED <<pods, hs, api, env>>

(* ensureCA reads the Secret: an unusable one is left alone and ends the    *)
(* pass, a missing one is minted.                                           *)
GetCA(c) ==
    /\ ctl[c].at = "ca"
    /\ ctl' = IF caSecret = NoCA THEN [ctl EXCEPT ![c].at = "mint"]
              ELSE IF ~Usable(caSecret) THEN [ctl EXCEPT ![c] = Idle]
              ELSE [ctl EXCEPT ![c].at = "serve", ![c].i = 1,
                               ![c].ca = caSecret]
    /\ UNCHANGED <<pods, hs, api, env>>

(* Mutant of MintCA: who lost the race goes on with the CA it minted.       *)
MintCAKeepsLoser(c) ==
    /\ ctl[c].at = "mint"
    /\ LET ca == NewCA(mints + 1, now) IN
          /\ ctl' = [ctl EXCEPT ![c].at = "serve", ![c].i = 1, ![c].ca = ca]
          /\ IF caSecret = NoCA
             THEN /\ caSecret' = ca /\ stored' = stored \union {ca.id}
                  /\ mints' = ca.id
             ELSE UNCHANGED <<caSecret, mints, stored>>
    /\ UNCHANGED <<pods, hs, serving, serial, posture, vetted, env>>

(* NewCA and Create; AlreadyExists reads the Secret again.                  *)
MintCA(c) ==
    /\ ctl[c].at = "mint"
    /\ IF caSecret = NoCA
       THEN LET ca == NewCA(mints + 1, now) IN
            /\ caSecret' = ca /\ mints' = ca.id
            /\ stored' = stored \union {ca.id}
            /\ ctl' = [ctl EXCEPT ![c].at = "serve", ![c].i = 1, ![c].ca = ca]
       ELSE Goto(c, "ca") /\ UNCHANGED <<caSecret, mints, stored>>
    /\ UNCHANGED <<pods, hs, serving, serial, posture, vetted, env>>

(* ensureServingCert reads the i-th Secret and lets a healthy one be.       *)
GetServing(c) ==
    /\ ctl[c].at = "serve"
    /\ LET i == ctl[c].i
           leaf == serving[Secrets[i]] IN
       ctl' = IF ~Healthy(leaf, ctl[c].ca, now)
              THEN [ctl EXCEPT ![c].at = "issue", ![c].old = leaf]
              ELSE IF i < Len(Secrets) THEN [ctl EXCEPT ![c].i = i + 1]
              ELSE [ctl EXCEPT ![c].at = "gate", ![c].i = 1]
    /\ UNCHANGED <<pods, hs, api, env>>

(* IssueServingCert and Update or Create: the Secret must still be the one  *)
(* that was read, else the conflict ends the pass.                          *)
Issue(c) ==
    /\ ctl[c].at = "issue"
    /\ LET i == ctl[c].i
           s == Secrets[i] IN
       IF serving[s] # ctl[c].old
       THEN ctl' = [ctl EXCEPT ![c] = Idle] /\ UNCHANGED <<serving, serial>>
       ELSE /\ serial' = serial + 1
            /\ serving' = [serving EXCEPT ![s] =
                  IssueServingCert(ctl[c].ca, now, serial + 1)]
            /\ ctl' = IF i < Len(Secrets)
                      THEN [ctl EXCEPT ![c].at = "serve", ![c].i = i + 1]
                      ELSE [ctl EXCEPT ![c].at = "gate", ![c].i = 1]
    /\ UNCHANGED <<pods, hs, caSecret, mints, posture, stored, vetted, env>>

-----------------------------------------------------------------------------
(* reconcileAPIService, reconcileWebhook.                                   *)
Gate(c) == Gates[ctl[c].i]

(* The gate is done with: the next one, whatever became of this one.        *)
NextGate(c, ok) ==
    IF ctl[c].i < Len(Gates)
    THEN /\ ctl' = [ctl EXCEPT ![c].at = "gate", ![c].i = @ + 1,
                               ![c].addrs = {}, ![c].list = {},
                               ![c].clean = @ /\ ok]
         /\ UNCHANGED passed
    ELSE /\ ctl' = [ctl EXCEPT ![c] = Idle]
         /\ passed' = (passed \/ (ctl[c].clean /\ ok))

(* Get: nothing to do for an object that is missing or as it should be.     *)
GetPosture(c) ==
    /\ ctl[c].at = "gate"
    /\ IF ~posture[Gate(c)].there \/ Converged(posture[Gate(c)], ctl[c].ca)
       THEN NextGate(c, TRUE)
       ELSE Goto(c, "list") /\ UNCHANGED passed
    /\ UNCHANGED <<pods, hs, api, now, leader, faults>>

(* Mutant of ListEndpoints: a gate without endpoints ends the whole pass.   *)
ListEndpointsEndsPass(c) ==
    /\ ctl[c].at = "list"
    /\ LET addrs == {p \in Pods : pods[p].ready /\ SecretOf[p] = Gate(c)} IN
       ctl' = IF addrs = {} THEN [ctl EXCEPT ![c] = Idle]
              ELSE [ctl EXCEPT ![c].at = "probe", ![c].addrs = addrs,
                               ![c].list = addrs]
    /\ UNCHANGED <<pods, hs, api, env>>

(* readyEndpoints; the bootstrap posture stays while there are none.        *)
ListEndpoints(c) ==
    /\ ctl[c].at = "list"
    /\ LET addrs == {p \in Pods : pods[p].ready /\ SecretOf[p] = Gate(c)} IN
       IF addrs = {} THEN NextGate(c, TRUE)
       ELSE /\ ctl' = [ctl EXCEPT ![c].at = "probe", ![c].addrs = addrs,
                                  ![c].list = addrs]
            /\ UNCHANGED passed
    /\ UNCHANGED <<pods, hs, api, now, leader, faults>>

(* probe dials the next address; a pod that is gone cannot be reached.      *)
Dial(c) ==
    /\ ctl[c].at = "probe" /\ ctl[c].addrs # {} /\ hs[c] = NoShake
    /\ \E p \in ctl[c].addrs :
       IF pods[p].up
       THEN Hello(c, p) /\ UNCHANGED <<ctl, passed>>
       ELSE NextGate(c, TRUE) /\ UNCHANGED <<pods, hs>>
    /\ UNCHANGED <<api, now, leader, faults>>

(* The leaf is verified; one that fails leaves the posture as it is.        *)
Probed(c) ==
    /\ ctl[c].at = "probe" /\ hs[c].at = "done"
    /\ hs' = [hs EXCEPT ![c] = NoShake]
    /\ IF VerifyServedBy(hs[c].leaf, ctl[c].ca, now)
       THEN ctl' = [ctl EXCEPT ![c].addrs = @ \ {hs[c].pod}] /\ UNCHANGED passed
       ELSE NextGate(c, TRUE)
    /\ UNCHANGED <<pods, api, now, leader, faults>>

(* Commit: bundle and enforcement in one patch, once no address is left.    *)
Commit(c) ==
    /\ ctl[c].at = "probe" /\ ctl[c].addrs = {}
    /\ posture' = [posture EXCEPT ![Gate(c)] = Enforcing(ctl[c].ca)]
    /\ vetted' = [vetted EXCEPT ![Gate(c)] = {p \in ctl[c].list : pods[p].up}]
    /\ NextGate(c, TRUE)
    /\ UNCHANGED <<pods, hs, caSecret, mints, serving, serial, stored,
                   now, leader, faults>>

(* An API call fails.  Before the gates the pass ends there; at a gate the  *)
(* other gate still has its turn.                                           *)
CallFails(c) ==
    /\ Fault
    /\ \/ /\ ctl[c].at \in {"ca", "mint", "serve", "issue"}
          /\ ctl' = [ctl EXCEPT ![c] = Idle] /\ UNCHANGED passed
       \/ /\ ctl[c].at \in {"gate", "list"} \/ (ctl[c].at = "probe" /\ ctl[c].addrs = {})
          /\ NextGate(c, FALSE)
    /\ UNCHANGED <<pods, hs, api, now, leader>>

ControllerStep(c) ==
    \/ GetCA(c) \/ MintCA(c) \/ GetServing(c) \/ Issue(c) \/ GetPosture(c)
    \/ ListEndpoints(c) \/ Dial(c) \/ Probed(c) \/ Commit(c)

-----------------------------------------------------------------------------
(* The controller dies and another one, or its successor, has the lease.  A *)
(* pod finishes a load whether or not its dialer still waits.               *)
Crash(c) ==
    /\ Fault /\ hs[c].at # "load"
    /\ ctl' = [ctl EXCEPT ![c] = Idle]
    /\ hs' = [hs EXCEPT ![c] = NoShake]
    /\ leader' \in Controllers
    /\ UNCHANGED <<pods, api, now, passed>>

(* The lease moves while its holder is in a pass, which it may yet finish.  *)
LeaseMoves(c) ==
    /\ Fault /\ leader # c /\ leader' = c
    /\ UNCHANGED <<pods, hs, api, ctl, now, passed>>

OperatorDeletesCA ==
    /\ Fault /\ caSecret # NoCA /\ caSecret' = NoCA
    /\ UNCHANGED <<pods, hs, ctl, mints, serving, serial, posture, stored,
                   vetted, now, leader, passed>>

OperatorDamagesCA ==
    /\ Fault /\ caSecret.state = "ok"
    /\ caSecret' = [caSecret EXCEPT !.state = "corrupt"]
    /\ UNCHANGED <<pods, hs, ctl, mints, serving, serial, posture, stored,
                   vetted, now, leader, passed>>

(* kubectl apply -k restores the posture the manifests ship.                *)
OperatorApplies(g) ==
    /\ Fault
    /\ posture' = [posture EXCEPT ![g] = Shipped]
    /\ vetted' = [vetted EXCEPT ![g] = {}]
    /\ UNCHANGED <<pods, hs, ctl, caSecret, mints, serving, serial, stored,
                   now, leader, passed>>

PodStarts(p) ==
    /\ ~pods[p].up
    /\ pods' = [pods EXCEPT ![p] = FreshPod(serving[SecretOf[p]])]
    /\ UNCHANGED <<hs, api, ctl, env>>

PodReady(p) ==
    /\ pods[p].up /\ ~pods[p].ready
    /\ pods' = [pods EXCEPT ![p].ready = TRUE]
    /\ UNCHANGED <<hs, api, ctl, env>>

(* The pod ends; it counts no longer as probed.                             *)
PodEnds(p) ==
    /\ Fault /\ pods[p].up
    /\ pods' = [pods EXCEPT ![p] = DownPod]
    /\ hs' = HangUp(p)
    /\ ctl' = [c \in Controllers |-> [ctl[c] EXCEPT !.list = @ \ {p}]]
    /\ vetted' = [g \in Range(Gates) |-> vetted[g] \ {p}]
    /\ UNCHANGED <<caSecret, mints, serving, serial, posture, stored,
                   now, leader, passed>>

(* Kubelet brings the Secret's present content to the pod.                  *)
Kubelet(p) ==
    /\ pods[p].up /\ pods[p].mount # serving[SecretOf[p]]
    /\ Remount(p, serving[SecretOf[p]])
    /\ UNCHANGED <<hs, api, ctl, env>>

(* An hour of the model is far more than a handshake, a pass, a resync or a *)
(* kubelet period take: a pass has gone through since the last one, every   *)
(* mount is up to date, and nothing is half done.                           *)
Tick ==
    /\ now < MaxTime /\ passed
    /\ \A c \in Controllers : ctl[c].at = "idle"
    /\ \A d \in Dialers : hs[d] = NoShake
    /\ \A p \in Pods : pods[p].up => pods[p].mount = serving[SecretOf[p]]
    /\ now' = now + 1 /\ passed' = FALSE
    /\ UNCHANGED <<pods, hs, api, ctl, leader, faults>>

ClientHello(k) ==
    /\ \E p \in Pods : Hello(k, p)
    /\ UNCHANGED <<api, ctl, env>>

ClientDone(k) ==
    /\ hs[k].at = "done"
    /\ hs' = [hs EXCEPT ![k] = NoShake]
    /\ UNCHANGED <<pods, api, ctl, env>>

Shake(d) == ShakeStep(d) /\ UNCHANGED <<api, ctl, env>>

Next ==
    \/ \E c \in Controllers : Begin(c) \/ ControllerStep(c) \/ CallFails(c)
                              \/ Crash(c) \/ LeaseMoves(c)
    \/ OperatorDeletesCA \/ OperatorDamagesCA
    \/ \E g \in Range(Gates) : OperatorApplies(g)
    \/ \E p \in Pods : PodStarts(p) \/ PodReady(p) \/ PodEnds(p) \/ Kubelet(p)
    \/ \E k \in Clients : ClientHello(k) \/ ClientDone(k)
    \/ \E d \in Dialers : Shake(d)
    \/ Tick

Spec == Init /\ [][Next]_vars

(* The ticker keeps the leader's passes coming, pods are scheduled and      *)
(* become ready, kubelet syncs, and a handshake that began goes on.         *)
Fairness ==
    /\ \A c \in Controllers : WF_vars(Begin(c)) /\ WF_vars(ControllerStep(c))
    /\ \A p \in Pods : /\ WF_vars(PodStarts(p)) /\ WF_vars(PodReady(p))
                       /\ WF_vars(Kubelet(p))
    /\ \A d \in Dialers : WF_vars(Shake(d))

FairSpec == Spec /\ Fairness

-----------------------------------------------------------------------------
(* ensureCA: a pass signs only with a CA that the Secret holds or has held, *)
(* even when two controllers mint at once, so a certificate never chains to *)
(* a key that was thrown away.                                              *)
NoOrphanCertificates ==
    \A s \in Range(Secrets) :
        serving[s] # NoCert => serving[s].ca \in stored

(* The gates: as long as the CA was not minted anew, a pod whose certificate *)
(* was probed for the commit in force keeps files that the committed bundle *)
(* verifies, through every renewal, crash and change of leader.             *)
ProbedPodsStayTrusted ==
    mints <= 1 =>
        \A g \in Range(Gates) : \A p \in vetted[g] :
            /\ pods[p].mount.ca = posture[g].bundle
            /\ now <= pods[p].mount.until

(* Reconcile, Start: whatever fails on the way and whoever leads, an object *)
(* with pods behind it ends up enforcing the CA of the Secret, and the pods *)
(* have files that this CA verifies, unless the CA Secret is damaged.  An   *)
(* object that is missing, or has no pods, holds up no other.               *)
GatesConverge ==
    <>[](\/ caSecret.state = "corrupt"
         \/ \A p \in Pods :
               /\ VerifyServedBy(pods[p].mount, caSecret, now)
               /\ SecretOf[p] \in Range(Gates) =>
                      \/ ~posture[SecretOf[p]].there
                      \/ Converged(posture[SecretOf[p]], caSecret))
=============================================================================
