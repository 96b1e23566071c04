---------------------------- MODULE CertReloader ----------------------------
(***************************************************************************)
(* How a listener of the system chooses the certificate of a TLS handshake *)
(* (internal/ca/reloader.go, selfsigned.go).  A Reloader keeps the last    *)
(* keypair it loaded and the newest modification time it had seen before   *)
(* it loaded it; every handshake looks at the two files again.  Handshakes *)
(* of one pod run concurrently, and kubelet replaces the files under them. *)
(*                                                                         *)
(* A certificate is [ca, until, serial]: who signed it, its NotAfter, and  *)
(* the number of its issue, which also stands for the modification time of *)
(* the files that hold it: kubelet writes later issues later.              *)
(***************************************************************************)
EXTENDS Integers

CONSTANTS Pods,         \* the pods with a listener
          Dialers,      \* who opens handshakes, one at a time each
          NoOne         \* no dialer, no pod

VARIABLES pods,         \* per pod: [up, ready, mount, cached, stamp, lock]
          hs            \* per dialer: the handshake that is under way

NoCert    == [ca |-> 0, until |-> 0, serial |-> 0]   \* absent files, nil cache
Bootstrap == [ca |-> -1, until |-> 0, serial |-> -1] \* SelfSignedCert
NoShake   == [at |-> "none", pod |-> NoOne, newest |-> 0, leaf |-> NoCert]

DownPod   == [up |-> FALSE, ready |-> FALSE, mount |-> NoCert,
              cached |-> NoCert, stamp |-> 0, lock |-> NoOne]

(* A pod starts: kubelet mounts the Secret if it exists, the process makes  *)
(* its bootstrap certificate and an empty Reloader (ServingTLSConfig).      *)
FreshPod(mount) == [DownPod EXCEPT !.up = TRUE, !.mount = mount]

(* Kubelet swaps both files for those of another issue.                     *)
Remount(p, leaf) == pods' = [pods EXCEPT ![p].mount = leaf]

Answer(d, leaf) == hs' = [hs EXCEPT ![d].at = "done", ![d].leaf = leaf]

(* GetCertificate begins with newestMod: a file that is missing is an error *)
(* and the bootstrap certificate is the answer to every error.  A swap      *)
(* between the two Stats shows in the second one.                           *)
Hello(d, p) ==
    /\ pods[p].up /\ hs[d] = NoShake
    /\ hs' = [hs EXCEPT ![d] =
                 IF pods[p].mount = NoCert
                 THEN [at |-> "done", pod |-> p, newest |-> 0,
                       leaf |-> Bootstrap]
                 ELSE [at |-> "check", pod |-> p, leaf |-> NoCert,
                       newest |-> pods[p].mount.serial]]
    /\ UNCHANGED pods

(* Mutant of Hit: the files' times are not compared.                         *)
HitWhenCached(d) == pods[hs[d].pod].cached # NoCert

Hit(d) ==
    LET pod == pods[hs[d].pod] IN
    /\ pod.cached # NoCert
    /\ hs[d].newest <= pod.stamp

(* Under the read lock: the cached keypair serves unless a file is newer.   *)
Check(d) ==
    /\ hs[d].at = "check" /\ pods[hs[d].pod].lock = NoOne
    /\ IF Hit(d) THEN Answer(d, pods[hs[d].pod].cached)
       ELSE hs' = [hs EXCEPT ![d].at = "wait"]
    /\ UNCHANGED pods

(* The write lock: the second look, then LoadX509KeyPair reads the          *)
(* certificate.                                                             *)
Lock(d) ==
    /\ hs[d].at = "wait" /\ pods[hs[d].pod].lock = NoOne
    /\ IF Hit(d) THEN Answer(d, pods[hs[d].pod].cached) /\ UNCHANGED pods
       ELSE /\ hs' = [hs EXCEPT ![d].at = "load",
                                ![d].leaf = pods[hs[d].pod].mount]
            /\ pods' = [pods EXCEPT ![hs[d].pod].lock = d]

(* It reads the key and refuses a pair that does not match: the files were  *)
(* swapped in between.  The stamp is the time seen before the load.         *)
Load(d) ==
    /\ hs[d].at = "load"
    /\ LET p == hs[d].pod IN
       IF pods[p].mount = hs[d].leaf
       THEN /\ Answer(d, hs[d].leaf)
            /\ pods' = [pods EXCEPT ![p].cached = hs[d].leaf, ![p].lock = NoOne,
                                    ![p].stamp = hs[d].newest]
       ELSE /\ Answer(d, Bootstrap)
            /\ pods' = [pods EXCEPT ![p].lock = NoOne]

(* The pod ends, and with it its handshakes.                                *)
HangUp(p) == [d \in Dialers |-> IF hs[d].pod = p THEN NoShake ELSE hs[d]]

ShakeStep(d) == Check(d) \/ Lock(d) \/ Load(d)

-----------------------------------------------------------------------------
(* GetCertificate never falls behind: a handshake is answered with an issue *)
(* at least as new as the files were when it began, or with the bootstrap   *)
(* certificate because there were none or because they changed meanwhile.   *)
HandshakeIsFresh ==
    \A d \in Dialers : hs[d].at = "done" =>
        \/ hs[d].leaf.serial >= hs[d].newest /\ hs[d].leaf # NoCert
        \/ /\ hs[d].leaf = Bootstrap
           /\ \/ hs[d].newest = 0
              \/ hs[d].newest < pods[hs[d].pod].mount.serial
=============================================================================
