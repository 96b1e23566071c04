-------------------------- MODULE CertManagerProofs --------------------------
(***************************************************************************)
(* Proofs about the certificates, for any number of controllers, pods and  *)
(* dialers, any Secrets and gates, and any number of faults: every issue   *)
(* chains to a CA that was stored, a handshake is never answered with an   *)
(* older issue than the files held when it began, and the pods for which a *)
(* gate was committed stay ones that its CA bundle vouches for.            *)
(***************************************************************************)
EXTENDS CertManager, TLAPS

Certs == [ca : Int, until : Int, serial : Int]
CAs   == [state : {"absent", "ok", "corrupt"}, id : Int, until : Int]

(* The steps of a pass in which it has settled on a CA.                     *)
Signing == {"serve", "issue", "gate", "list", "probe"}

PassRecords(B) ==
    [at : Signing \union {"idle", "ca", "mint"}, ca : CAs, i : Int, old : Certs,
     addrs : SUBSET Pods, list : SUBSET Pods, clean : B]

PassTypes == PassRecords(BOOLEAN)

(* The inductive invariant behind NoOrphanCertificates: what a pass signs   *)
(* with is, or was, in the Secret.                                          *)
PassInv ==
    /\ ctl \in [Controllers -> PassTypes]
    /\ serving \in [Range(Secrets) -> Certs]
    /\ caSecret \in CAs
    /\ now \in Nat /\ mints \in Nat /\ serial \in Nat
    /\ caSecret # NoCA => caSecret.id \in stored
    /\ \A c \in Controllers : ctl[c].at \in Signing => ctl[c].ca.id \in stored
    /\ \A c \in Controllers :
          ctl[c].at \in {"serve", "issue"} => ctl[c].i \in DOMAIN Secrets
    /\ NoOrphanCertificates

(* What PassInv says of the state but ctl.                                  *)
StoreInv ==
    /\ serving \in [Range(Secrets) -> Certs]
    /\ caSecret \in CAs
    /\ now \in Nat /\ mints \in Nat /\ serial \in Nat
    /\ caSecret # NoCA => caSecret.id \in stored
    /\ NoOrphanCertificates

-----------------------------------------------------------------------------
(* A pass that moves to a step of the right kind keeps the invariant.       *)
LEMMA PassMoves ==
    ASSUME PassInv, StoreInv', stored \subseteq stored',
           NEW c \in Controllers, NEW x \in PassTypes,
           ctl' = [ctl EXCEPT ![c] = x],
           x.at \in Signing => x.ca.id \in stored',
           x.at \in {"serve", "issue"} => x.i \in DOMAIN Secrets
    PROVE  PassInv'
<1>1. ctl' \in [Controllers -> PassTypes]
    BY ZenonT(30) DEF PassInv
<1>2. \A d \in Controllers : ctl'[d].at \in Signing => ctl'[d].ca.id \in stored'
    BY ZenonT(30) DEF PassInv
<1>3. \A d \in Controllers :
        ctl'[d].at \in {"serve", "issue"} => ctl'[d].i \in DOMAIN Secrets
    BY ZenonT(30) DEF PassInv
<1> QED BY <1>1, <1>2, <1>3, ZenonT(30) DEF PassInv, StoreInv

(* A pass that begins or ends.                                              *)
LEMMA IdleType == Idle \in PassTypes /\ Idle.at = "idle"
<1>1. NoCA \in CAs /\ NoCert \in Certs
    BY DEF NoCA, NoCert, CAs, Certs
<1>2. \A B : \A b \in B :
        [at |-> "idle", ca |-> NoCA, i |-> 0, old |-> NoCert,
         addrs |-> {}, list |-> {}, clean |-> b] \in PassRecords(B)
    BY <1>1 DEF PassRecords, Signing
<1>3. Idle.at = "idle"
    BY ZenonT(30) DEF Idle
<1> QED BY <1>2, <1>3, Zenon DEF Idle, PassTypes

(* The Secrets are left alone.                                              *)
LEMMA StoreUnchanged ==
    ASSUME PassInv, UNCHANGED <<serving, caSecret, mints, serial, stored>>, now' \in Nat
    PROVE  StoreInv'
  BY ZenonT(30) DEF PassInv, StoreInv, NoOrphanCertificates

(* The record of the next gate.                                             *)
LEMMA GateRecord ==
    \A B : \A b \in B : \A i \in Int : \A r \in PassRecords(B) :
        [r EXCEPT !.at = "gate", !.i = i, !.addrs = {},
                  !.list = {}, !.clean = b] \in PassRecords(B)
  BY ZenonT(30) DEF PassRecords, Signing

(* There is a first Secret.                                                 *)
LEMMA FirstSecret == 1 \in DOMAIN Secrets
  BY CertAssumption

(* The Secret after the i-th.                                               *)
LEMMA NextSecret ==
    ASSUME NEW i \in DOMAIN Secrets, i < Len(Secrets)
    PROVE  i + 1 \in DOMAIN Secrets
  BY CertAssumption

(* The next gate has its turn, or the pass ends.                            *)
LEMMA GateMoves ==
    ASSUME PassInv, StoreInv', stored' = stored,
           NEW c \in Controllers, ctl[c].at \in Signing, NEW ok \in BOOLEAN, NextGate(c, ok)
    PROVE  PassInv'
<1>1. ctl[c] \in PassTypes /\ ctl[c].ca.id \in stored
    BY ZenonT(30) DEF PassInv
<1>2. CASE ctl[c].i < Len(Gates)
  <2>1. PICK b \in BOOLEAN : b = (ctl[c].clean /\ ok)
      BY ZenonT(30)
  <2>2. PICK i \in Int : i = ctl[c].i + 1
      BY <1>1 DEF PassTypes, PassRecords
  <2>3. PICK r \in PassRecords(BOOLEAN) : r = ctl[c]
      BY <1>1, ZenonT(30) DEF PassTypes
  <2>4. PICK x : x = [r EXCEPT !.at = "gate", !.i = i, !.addrs = {},
                               !.list = {}, !.clean = b]
      OBVIOUS
  <2>5. x \in PassTypes
      BY <2>4, GateRecord, Zenon DEF PassTypes
  <2>6. x.ca = r.ca /\ x.at = "gate"
      BY <2>4, ZenonT(30) DEF PassRecords
  <2>7. ctl' = [ctl EXCEPT ![c] = x]
      BY <1>2, <2>1, <2>2, <2>3, <2>4, ZenonT(30) DEF NextGate
  <2> QED BY <1>1, <2>3, <2>5, <2>6, <2>7, PassMoves, ZenonT(30)
<1>3. CASE ~(ctl[c].i < Len(Gates))
    BY <1>3, IdleType, PassMoves, ZenonT(30) DEF NextGate, Signing
<1> QED BY <1>2, <1>3, ZenonT(30)

(* There are values of every type.                                          *)
LEMMA NoValues == NoCA \in CAs /\ NoCert \in Certs /\ {} \in SUBSET Pods /\ 1 \in Int
  BY DEF NoCA, NoCert, CAs, Certs

-----------------------------------------------------------------------------
(* The moves of a pass that leave clean alone.                              *)
LEMMA PassRecord ==
    ASSUME NEW B, NEW r \in PassRecords(B), NEW at \in Signing \union {"idle", "ca", "mint"},
           NEW i \in Int, NEW ca \in CAs, NEW old \in Certs, NEW ps \in SUBSET Pods
    PROVE  /\ [r EXCEPT !.at = at] \in PassRecords(B)
           /\ [r EXCEPT !.i = i] \in PassRecords(B)
           /\ [r EXCEPT !.at = at, !.i = i] \in PassRecords(B)
           /\ [r EXCEPT !.at = at, !.i = i, !.ca = ca] \in PassRecords(B)
           /\ [r EXCEPT !.at = at, !.old = old] \in PassRecords(B)
           /\ [r EXCEPT !.at = at, !.addrs = ps, !.list = ps] \in PassRecords(B)
           /\ [r EXCEPT !.addrs = ps] \in PassRecords(B)
           /\ [r EXCEPT !.list = ps] \in PassRecords(B)
<1> USE DEF PassRecords
<1>1. [r EXCEPT !.at = at] \in PassRecords(B)
    OBVIOUS
<1>2. [r EXCEPT !.i = i] \in PassRecords(B)
    OBVIOUS
<1>3. [r EXCEPT !.at = at, !.i = i] \in PassRecords(B)
    BY ZenonT(30)
<1>4. [r EXCEPT !.at = at, !.i = i, !.ca = ca] \in PassRecords(B)
    BY ZenonT(30)
<1>5. [r EXCEPT !.at = at, !.old = old] \in PassRecords(B)
    BY ZenonT(30)
<1>6. [r EXCEPT !.at = at, !.addrs = ps, !.list = ps] \in PassRecords(B)
    BY ZenonT(30)
<1>7. [r EXCEPT !.addrs = ps] \in PassRecords(B)
    OBVIOUS
<1>8. [r EXCEPT !.list = ps] \in PassRecords(B)
    OBVIOUS
<1> HIDE DEF PassRecords
<1> QED BY <1>1, <1>2, <1>3, <1>4, <1>5, <1>6, <1>7, <1>8, ZenonT(30)

(* The pass of c goes to another step, with the same CA.                    *)
LEMMA PassGoes ==
    ASSUME PassInv, StoreInv', stored' = stored, NEW c \in Controllers,
           NEW at \in Signing \union {"idle", "ca", "mint"},
           at \in Signing => ctl[c].at \in Signing, at \notin {"serve", "issue"},
           ctl' = [ctl EXCEPT ![c].at = at]
    PROVE  PassInv'
<1>1. PICK r \in PassRecords(BOOLEAN) : r = ctl[c]
    BY ZenonT(30) DEF PassInv, PassTypes
<1>2. PICK x : x = [r EXCEPT !.at = at]
    BY ZenonT(30)
<1>3. x \in PassTypes
    BY <1>2, PassRecord, NoValues, Zenon DEF PassTypes
<1>4. x.at = at /\ x.ca = r.ca
    BY <1>2, ZenonT(30) DEF PassRecords
<1>5. ctl' = [ctl EXCEPT ![c] = x]
    BY <1>1, <1>2, ZenonT(30)
<1>6. at \in Signing => r.ca.id \in stored'
    BY <1>1, ZenonT(30) DEF PassInv
<1> QED BY <1>3, <1>4, <1>5, <1>6, PassMoves, ZenonT(30)

(* GetCA: a CA that is in the Secret is one that was stored.                *)
LEMMA SettlesOnCA ==
    ASSUME PassInv, StoreInv', stored \subseteq stored', NEW c \in Controllers,
           NEW ca \in CAs, ca.id \in stored',
           ctl' = [ctl EXCEPT ![c].at = "serve", ![c].i = 1, ![c].ca = ca]
    PROVE  PassInv'
<1>1. PICK r \in PassRecords(BOOLEAN) : r = ctl[c]
    BY ZenonT(30) DEF PassInv, PassTypes
<1>2. PICK at \in Signing : at = "serve"
    BY ZenonT(30) DEF Signing
<1>3. PICK x : x = [r EXCEPT !.at = at, !.i = 1, !.ca = ca]
    OBVIOUS
<1>4. x \in PassTypes
    BY <1>3, PassRecord, NoValues, Zenon DEF PassTypes
<1>5. x.ca = ca /\ x.i = 1
    BY <1>3, ZenonT(30) DEF PassRecords
<1>6. ctl' = [ctl EXCEPT ![c] = x]
    BY <1>1, <1>2, <1>3, ZenonT(30)
<1> QED BY <1>4, <1>5, <1>6, FirstSecret, PassMoves, ZenonT(30)

(* The pass of c goes on to another Secret or to the gates.                 *)
LEMMA PassAdvances ==
    ASSUME PassInv, StoreInv', stored' = stored, NEW c \in Controllers,
           ctl[c].at \in Signing, NEW at \in Signing, NEW i \in Int,
           at \in {"serve", "issue"} => i \in DOMAIN Secrets,
           ctl' = [ctl EXCEPT ![c].at = at, ![c].i = i]
    PROVE  PassInv'
<1>1. PICK r \in PassRecords(BOOLEAN) : r = ctl[c]
    BY ZenonT(30) DEF PassInv, PassTypes
<1>2. PICK x : x = [r EXCEPT !.at = at, !.i = i]
    OBVIOUS
<1>3. x \in PassTypes
    BY <1>2, PassRecord, NoValues, Zenon DEF PassTypes
<1>4. x.ca = r.ca /\ x.at = at /\ x.i = i
    BY <1>2, ZenonT(30) DEF PassRecords
<1>5. ctl' = [ctl EXCEPT ![c] = x]
    BY <1>1, <1>2, ZenonT(30)
<1>6. r.ca.id \in stored'
    BY <1>1, ZenonT(30) DEF PassInv
<1> QED BY <1>3, <1>4, <1>5, <1>6, PassMoves, ZenonT(30)

(* ensureCA.                                                                *)
LEMMA CAStep ==
    ASSUME PassInv, NEW c \in Controllers, GetCA(c) \/ MintCA(c)
    PROVE  PassInv'
<1>1. CASE GetCA(c)
  <2>1. StoreInv' /\ stored' = stored
      BY <1>1, StoreUnchanged, ZenonT(30) DEF GetCA, api, env, PassInv
  <2>2. CASE caSecret = NoCA
    <3>1. PICK at \in Signing \union {"idle", "ca", "mint"} :
              at = "mint" /\ at \notin Signing
        BY DEF Signing
    <3>2. ctl' = [ctl EXCEPT ![c].at = at]
        BY <1>1, <2>2, <3>1, ZenonT(30) DEF GetCA
    <3> QED BY <2>1, <3>1, <3>2, PassGoes, ZenonT(30)
  <2>3. CASE caSecret # NoCA /\ ~Usable(caSecret)
      BY <1>1, <2>1, <2>3, IdleType, PassMoves, ZenonT(30) DEF GetCA, Signing
  <2>4. CASE caSecret # NoCA /\ Usable(caSecret)
      BY <1>1, <2>1, <2>4, SettlesOnCA, ZenonT(30) DEF GetCA, PassInv
  <2> QED BY <2>2, <2>3, <2>4, ZenonT(30)
<1>2. CASE MintCA(c) /\ caSecret = NoCA
  <2>1. PICK ca : ca = NewCA(mints + 1, now)
      OBVIOUS
  <2>2. now + CALifetime \in Int /\ mints + 1 \in Nat
      BY CertAssumption DEF PassInv
  <2>3. ca \in CAs /\ ca.id = mints + 1
      BY <2>1, <2>2, SMTT(30) DEF NewCA, CAs
  <2>4. /\ caSecret' = ca /\ mints' = ca.id /\ stored' = stored \union {ca.id}
        /\ ctl' = [ctl EXCEPT ![c].at = "serve", ![c].i = 1, ![c].ca = ca]
        /\ UNCHANGED <<serving, serial, now>>
      BY <1>2, <2>1, ZenonT(30) DEF MintCA, env
  <2>5. StoreInv'
      BY <2>2, <2>3, <2>4, ZenonT(30) DEF PassInv, StoreInv, NoOrphanCertificates
  <2> QED BY <2>3, <2>4, <2>5, SettlesOnCA, ZenonT(30)
<1>3. CASE MintCA(c) /\ caSecret # NoCA
  <2>1. StoreInv' /\ stored' = stored
      BY <1>3, StoreUnchanged, ZenonT(30) DEF MintCA, env, PassInv
  <2> QED BY <1>3, <2>1, PassGoes DEF MintCA, Goto, Signing
<1> QED BY <1>1, <1>2, <1>3, ZenonT(30)

(* ensureServingCert reads a Secret.                                        *)
LEMMA GetServingStep ==
    ASSUME PassInv, NEW c \in Controllers, GetServing(c)
    PROVE  PassInv'
<1>0. PICK i \in DOMAIN Secrets, leaf \in Certs :
        i = ctl[c].i /\ leaf = serving[Secrets[i]]
    BY ZenonT(30) DEF GetServing, PassInv, Range
<1>1. StoreInv' /\ stored' = stored
    BY StoreUnchanged, ZenonT(30) DEF GetServing, api, env, PassInv
<1>2. ctl[c].at = "serve" /\ i \in Int /\ "serve" \in Signing /\ "gate" \in Signing
    BY CertAssumption DEF GetServing, Signing
<1>3. ctl' = IF ~Healthy(leaf, ctl[c].ca, now)
             THEN [ctl EXCEPT ![c].at = "issue", ![c].old = leaf]
             ELSE IF i < Len(Secrets) THEN [ctl EXCEPT ![c].i = i + 1]
             ELSE [ctl EXCEPT ![c].at = "gate", ![c].i = 1]
    BY <1>0, ZenonT(30) DEF GetServing
<1>4. CASE Healthy(leaf, ctl[c].ca, now) /\ ~(i < Len(Secrets))
  <2>1. PICK at \in Signing, j \in Int : at = "gate" /\ j = 1
      BY <1>2
  <2>2. ctl' = [ctl EXCEPT ![c].at = at, ![c].i = j]
      BY <1>3, <1>4, <2>1, ZenonT(30)
  <2>3. j \in DOMAIN Secrets
      BY <2>1, FirstSecret, ZenonT(30)
  <2> QED BY <1>1, <1>2, <2>2, <2>3, PassAdvances, ZenonT(30)
<1>5. CASE Healthy(leaf, ctl[c].ca, now) /\ i < Len(Secrets)
  <2>1. PICK at \in Signing, j \in Int : at = "serve" /\ j = i + 1
      BY <1>2
  <2>2. ctl' = [ctl EXCEPT ![c].at = at, ![c].i = j]
      BY <1>2, <1>3, <1>5, <2>1, ZenonT(30) DEF PassInv, PassTypes, PassRecords
  <2>3. j \in DOMAIN Secrets
      BY <1>5, <2>1, NextSecret, ZenonT(30)
  <2> QED BY <1>1, <1>2, <2>2, <2>3, PassAdvances, ZenonT(30)
<1>6. CASE ~Healthy(leaf, ctl[c].ca, now)
  <2>1. PICK r \in PassRecords(BOOLEAN) : r = ctl[c]
      BY ZenonT(30) DEF PassInv, PassTypes
  <2>2. PICK at \in Signing : at = "issue"
      BY ZenonT(30) DEF Signing
  <2>3. PICK x : x = [r EXCEPT !.at = at, !.old = leaf]
      OBVIOUS
  <2>4. x \in PassTypes
      BY <2>3, PassRecord, NoValues, Zenon DEF PassTypes
  <2>5. x.ca = r.ca /\ x.i = i
      BY <1>0, <2>1, <2>3, ZenonT(30) DEF PassRecords
  <2>6. r.ca.id \in stored'
      BY <1>1, <1>2, <2>1, ZenonT(30) DEF PassInv
  <2>7. ctl' = [ctl EXCEPT ![c] = x]
      BY <1>3, <1>6, <2>1, <2>2, <2>3, ZenonT(30)
  <2> QED BY <1>1, <2>4, <2>5, <2>6, <2>7, PassMoves, ZenonT(30)
<1> QED BY <1>4, <1>5, <1>6, ZenonT(30)

(* ensureServingCert writes a Secret: the issue chains to the CA of the     *)
(* pass, which was stored.                                                  *)
LEMMA IssueStep ==
    ASSUME PassInv, NEW c \in Controllers, Issue(c)
    PROVE  PassInv'
<1>1. PICK i \in DOMAIN Secrets : i = ctl[c].i
    BY ZenonT(30) DEF Issue, PassInv
<1>2. ctl[c].at = "issue" /\ ctl[c].at \in Signing /\ i \in Int
    BY CertAssumption DEF Issue, Signing
<1>3. UNCHANGED <<caSecret, mints, stored, now>>
    BY ZenonT(30) DEF Issue, env
<1>4. CASE serving[Secrets[i]] # ctl[c].old
  <2>1. StoreInv' /\ ctl' = [ctl EXCEPT ![c] = Idle]
      BY <1>1, <1>3, <1>4, StoreUnchanged, ZenonT(30) DEF Issue, PassInv
  <2> QED BY <1>3, <2>1, IdleType, PassMoves, ZenonT(30) DEF Signing
<1>5. CASE serving[Secrets[i]] = ctl[c].old
  <2>1. PICK leaf : leaf = IssueServingCert(ctl[c].ca, now, serial + 1)
      BY ZenonT(30)
  <2>2. /\ ctl[c].ca.id \in Int /\ now + ServingLifetime \in Int /\ serial + 1 \in Nat
        /\ ctl[c].ca.id \in stored
      BY <1>2, CertAssumption DEF PassInv, PassTypes, PassRecords, CAs
  <2>3. leaf \in Certs /\ leaf.ca \in stored
      BY <2>1, <2>2 DEF IssueServingCert, Certs
  <2>4. serving' = [serving EXCEPT ![Secrets[i]] = leaf] /\ serial' = serial + 1
      BY <1>1, <1>5, <2>1, ZenonT(30) DEF Issue
  <2>5. StoreInv'
      BY <1>3, <2>2, <2>3, <2>4, ZenonT(30) DEF PassInv, StoreInv, NoOrphanCertificates
  <2>6. CASE i < Len(Secrets)
    <3>1. PICK at \in Signing, j \in Int : at = "serve" /\ j = i + 1
        BY <1>2 DEF Signing
    <3>2. ctl' = [ctl EXCEPT ![c].at = at, ![c].i = j]
        BY <1>1, <1>5, <2>6, <3>1, ZenonT(30) DEF Issue
    <3>3. j \in DOMAIN Secrets
        BY <2>6, <3>1, NextSecret, ZenonT(30)
    <3> QED BY <1>2, <1>3, <2>5, <3>2, <3>3, PassAdvances, ZenonT(30)
  <2>7. CASE ~(i < Len(Secrets))
    <3>1. PICK at \in Signing, j \in Int : at = "gate" /\ j = 1
        BY DEF Signing
    <3>2. ctl' = [ctl EXCEPT ![c].at = at, ![c].i = j]
        BY <1>1, <1>5, <2>7, <3>1, ZenonT(30) DEF Issue
    <3>3. j \in DOMAIN Secrets
        BY <3>1, FirstSecret, ZenonT(30)
    <3> QED BY <1>2, <1>3, <2>5, <3>2, <3>3, PassAdvances, ZenonT(30)
  <2> QED BY <2>6, <2>7, ZenonT(30)
<1> QED BY <1>4, <1>5, ZenonT(30)

(* reconcileAPIService, reconcileWebhook: the gates leave the Secrets alone *)
(* and the pass with its CA.                                                *)
LEMMA GateStep ==
    ASSUME PassInv, NEW c \in Controllers,
           GetPosture(c) \/ ListEndpoints(c) \/ Dial(c) \/ Probed(c) \/ Commit(c)
    PROVE  PassInv'
<1>1. StoreInv' /\ stored' = stored
  <2>1. UNCHANGED <<serving, caSecret, mints, serial, stored, now>>
      BY ZenonT(30) DEF GetPosture, ListEndpoints, Dial, Probed, Commit, api
  <2> QED BY <2>1, StoreUnchanged, ZenonT(30) DEF PassInv
<1>2. ctl[c].at \in Signing
    BY ZenonT(30) DEF GetPosture, ListEndpoints, Dial, Probed, Commit, Signing
<1>3. ASSUME NEW ok \in BOOLEAN, NextGate(c, ok)
      PROVE  PassInv'
    BY <1>1, <1>2, <1>3, GateMoves, ZenonT(30)
<1>4. PICK r \in PassRecords(BOOLEAN) : r = ctl[c]
    BY ZenonT(30) DEF PassInv, PassTypes
<1>5. r.ca.id \in stored'
    BY <1>1, <1>2, <1>4, ZenonT(30) DEF PassInv
<1>6. CASE GetPosture(c)
  <2>1. CASE NextGate(c, TRUE)
      BY <2>1, <1>3, ZenonT(30)
  <2>2. CASE Goto(c, "list")
    <3>1. PICK at \in Signing \union {"idle", "ca", "mint"} :
              at = "list" /\ at \notin {"serve", "issue"}
        BY DEF Signing
    <3>2. ctl' = [ctl EXCEPT ![c].at = at]
        BY <2>2, <3>1, ZenonT(30) DEF Goto
    <3> QED BY <1>1, <1>2, <3>1, <3>2, PassGoes, ZenonT(30)
  <2> QED BY <1>6, <2>1, <2>2, ZenonT(30) DEF GetPosture
<1>7. CASE ListEndpoints(c)
  <2>1. CASE NextGate(c, TRUE)
      BY <2>1, <1>3, ZenonT(30)
  <2>2. CASE ~NextGate(c, TRUE)
    <3>1. PICK at \in Signing, ps \in SUBSET Pods :
              /\ at = "probe"
              /\ ctl' = [ctl EXCEPT ![c].at = at, ![c].addrs = ps, ![c].list = ps]
        BY <1>7, <2>2, ZenonT(30) DEF ListEndpoints, Signing
    <3>2. PICK x : x = [r EXCEPT !.at = at, !.addrs = ps, !.list = ps]
        OBVIOUS
    <3>3. x \in PassTypes
        BY <3>2, PassRecord, NoValues, Zenon DEF PassTypes
    <3>4. x.ca = r.ca /\ x.at = "probe"
        BY <3>1, <3>2, ZenonT(30) DEF PassRecords
    <3>5. ctl' = [ctl EXCEPT ![c] = x]
        BY <1>4, <3>1, <3>2, ZenonT(30)
    <3> QED BY <1>1, <1>5, <3>3, <3>4, <3>5, PassMoves, ZenonT(30)
  <2> QED BY <2>1, <2>2, ZenonT(30)
<1>8. CASE Dial(c)
  <2>1. CASE ctl' = ctl
      BY <1>1, <2>1, ZenonT(30) DEF PassInv, StoreInv
  <2>2. CASE NextGate(c, TRUE)
      BY <2>2, <1>3, ZenonT(30)
  <2> QED BY <1>8, <2>1, <2>2, ZenonT(30) DEF Dial
<1>9. CASE Probed(c)
  <2>1. CASE NextGate(c, TRUE)
      BY <2>1, <1>3, ZenonT(30)
  <2>2. CASE ~NextGate(c, TRUE)
    <3>1. PICK ps \in SUBSET Pods : ctl' = [ctl EXCEPT ![c].addrs = ps]
      <4>1. ctl[c].addrs \ {hs[c].pod} \in SUBSET Pods
          BY <1>4, ZenonT(30) DEF PassRecords
      <4> QED BY <1>9, <2>2, <4>1, ZenonT(30) DEF Probed
    <3>2. PICK x : x = [r EXCEPT !.addrs = ps]
        BY ZenonT(30)
    <3>3. x \in PassTypes
        BY <3>2, PassRecord, NoValues, Zenon DEF PassTypes
    <3>4. x.ca = r.ca /\ x.at = "probe"
        BY <1>4, <1>9, <3>2, ZenonT(30) DEF PassRecords, Probed
    <3>5. ctl' = [ctl EXCEPT ![c] = x]
        BY <1>4, <3>1, <3>2, ZenonT(30)
    <3> QED BY <1>1, <1>5, <3>3, <3>4, <3>5, PassMoves, ZenonT(30)
  <2> QED BY <2>1, <2>2, ZenonT(30)
<1>10. CASE Commit(c)
    BY <1>3, <1>10, ZenonT(30) DEF Commit
<1> QED BY <1>6, <1>7, <1>8, <1>9, <1>10, ZenonT(30)

(* The steps in which no pass moves on, and those that begin or end one.    *)
LEMMA PassStep ==
    ASSUME PassInv, [Next]_vars
    PROVE  PassInv'
<1>1. ASSUME UNCHANGED <<serving, caSecret, mints, serial, stored, ctl>>, now' \in Nat
      PROVE  PassInv'
    BY <1>1, ZenonT(30) DEF PassInv, NoOrphanCertificates
<1>2. ASSUME UNCHANGED <<serving, caSecret, mints, serial, stored, now>>,
             NEW c \in Controllers, NEW x \in PassTypes,
             ctl' = [ctl EXCEPT ![c] = x], x.at \in {"idle", "ca"}
      PROVE  PassInv'
  <2>1. StoreInv'
      BY <1>2, StoreUnchanged, ZenonT(30) DEF PassInv
  <2> QED BY <1>2, <2>1, PassMoves, ZenonT(30) DEF Signing
<1>3. ASSUME NEW c \in Controllers, Begin(c) PROVE PassInv'
  <2>1. PICK x : x = [Idle EXCEPT !.at = "ca"]
      BY ZenonT(30)
  <2>2. PICK r \in PassRecords(BOOLEAN) : r = Idle
      BY IdleType, ZenonT(30) DEF PassTypes
  <2>3. PICK at \in Signing \union {"idle", "ca", "mint"} : at = "ca"
      OBVIOUS
  <2>4. x = [r EXCEPT !.at = at] /\ x.at = "ca"
      BY <2>1, <2>2, <2>3, ZenonT(30) DEF PassRecords
  <2>5. x \in PassTypes
      BY <2>4, PassRecord, NoValues, Zenon DEF PassTypes
  <2> QED BY <1>2, <1>3, <2>1, <2>4, <2>5, ZenonT(30) DEF Begin, api, env
<1>4. ASSUME NEW c \in Controllers, ControllerStep(c) PROVE PassInv'
    BY <1>4, CAStep, GetServingStep, IssueStep, GateStep, ZenonT(30) DEF ControllerStep
<1>5. ASSUME NEW c \in Controllers, CallFails(c) PROVE PassInv'
  <2>1. UNCHANGED <<serving, caSecret, mints, serial, stored, now>>
      BY <1>5, ZenonT(30) DEF CallFails, api
  <2>2. CASE ctl' = [ctl EXCEPT ![c] = Idle]
      BY <1>2, <2>1, <2>2, IdleType, ZenonT(30)
  <2>3. CASE ctl[c].at \in Signing /\ NextGate(c, FALSE)
      BY <2>1, <2>3, StoreUnchanged, GateMoves, ZenonT(30) DEF PassInv
  <2> QED BY <1>5, <2>2, <2>3, ZenonT(30) DEF CallFails, Signing
<1>6. ASSUME NEW c \in Controllers, Crash(c) PROVE PassInv'
    BY <1>2, <1>6, IdleType, ZenonT(30) DEF Crash, api
<1>7. ASSUME NEW c \in Controllers, LeaseMoves(c) PROVE PassInv'
    BY <1>1, <1>7, ZenonT(30) DEF LeaseMoves, api, PassInv
<1>8. CASE OperatorDeletesCA
    BY <1>8, NoValues, ZenonT(30) DEF OperatorDeletesCA, PassInv, NoOrphanCertificates
<1>9. CASE OperatorDamagesCA
  <2>1. caSecret' \in CAs /\ caSecret'.id = caSecret.id /\ caSecret # NoCA
      BY <1>9, SMTT(30) DEF OperatorDamagesCA, PassInv, CAs, NoCA
  <2> QED BY <1>9, <2>1, SMTT(30) DEF OperatorDamagesCA, PassInv, NoOrphanCertificates
<1>10. ASSUME NEW g \in Range(Gates), OperatorApplies(g) PROVE PassInv'
    BY <1>1, <1>10, ZenonT(30) DEF OperatorApplies, PassInv
<1>11. ASSUME NEW p \in Pods, PodStarts(p) \/ PodReady(p) \/ Kubelet(p) PROVE PassInv'
    BY <1>1, <1>11, ZenonT(30) DEF PodStarts, PodReady, Kubelet, api, env, PassInv
<1>12. ASSUME NEW p \in Pods, PodEnds(p) PROVE PassInv'
  <2>1. StoreInv' /\ stored' = stored
      BY <1>12, StoreUnchanged, ZenonT(30) DEF PodEnds, PassInv
  <2>2. \A c \in Controllers : ctl'[c] \in PassTypes /\ ctl'[c].at = ctl[c].at
                               /\ ctl'[c].ca = ctl[c].ca /\ ctl'[c].i = ctl[c].i
    <3> SUFFICES ASSUME NEW c \in Controllers
                 PROVE  ctl'[c] \in PassTypes /\ ctl'[c].at = ctl[c].at
                        /\ ctl'[c].ca = ctl[c].ca /\ ctl'[c].i = ctl[c].i
        BY ZenonT(30)
    <3>1. PICK r \in PassRecords(BOOLEAN) : r = ctl[c]
        BY ZenonT(30) DEF PassInv, PassTypes
    <3>2. PICK ps \in SUBSET Pods : ps = r.list \ {p}
        BY <3>1, ZenonT(30) DEF PassRecords
    <3>3. PICK x : x = [r EXCEPT !.list = ps]
        BY ZenonT(30)
    <3>4. ctl'[c] = x
        BY <1>12, <3>1, <3>2, <3>3, ZenonT(30) DEF PodEnds
    <3>5. PICK at \in Signing : at = "serve"
        BY ZenonT(30) DEF Signing
    <3>6. x \in PassTypes
        BY <3>3, PassRecord, NoValues, <3>5, Zenon DEF PassTypes
    <3>7. x.at = r.at /\ x.ca = r.ca /\ x.i = r.i
        BY <3>3, ZenonT(30) DEF PassRecords
    <3> QED BY <3>1, <3>4, <3>6, <3>7, ZenonT(30)
  <2>3. ctl' \in [Controllers -> PassTypes]
      BY <1>12, <2>2, ZenonT(30) DEF PodEnds
  <2> QED BY <2>1, <2>2, <2>3, ZenonT(30) DEF PassInv, StoreInv
<1>13. ASSUME NEW k \in Clients, ClientHello(k) \/ ClientDone(k) PROVE PassInv'
    BY <1>1, <1>13, ZenonT(30) DEF ClientHello, ClientDone, api, env, PassInv
<1>14. ASSUME NEW d \in Dialers, Shake(d) PROVE PassInv'
    BY <1>1, <1>14, ZenonT(30) DEF Shake, api, env, PassInv
<1>15. CASE Tick
  <2>1. now' \in Nat
      BY <1>15, SMTT(30) DEF Tick, PassInv
  <2> QED BY <1>1, <1>15, <2>1, ZenonT(30) DEF Tick, api
<1>16. CASE UNCHANGED vars
    BY <1>1, <1>16, ZenonT(30) DEF vars, api, env, PassInv
<1> QED BY <1>3, <1>4, <1>5, <1>6, <1>7, <1>8, <1>9, <1>10, <1>11, <1>12, <1>13,
           <1>14, <1>15, <1>16, ZenonT(30) DEF Next

(* Before the first pass there is nothing to sign.                          *)
LEMMA PassInit == Init => PassInv
<1> SUFFICES ASSUME Init PROVE PassInv
    OBVIOUS
<1>1. ctl \in [Controllers -> PassTypes] /\ \A c \in Controllers : ctl[c].at = "idle"
    BY IdleType, ZenonT(30) DEF Init
<1> QED BY <1>1, NoValues, ZenonT(30) DEF Init, PassInv, NoOrphanCertificates, Signing

(* ensureCA, ensureServingCert: for any number of controllers, Secrets and  *)
(* faults, every serving certificate chains to a CA that the Secret held.   *)
THEOREM NoOrphans == Spec => []NoOrphanCertificates
<1>1. PassInv => NoOrphanCertificates
    BY ZenonT(30) DEF PassInv
<1> QED BY <1>1, PassInit, PassStep, PTL DEF Spec

-----------------------------------------------------------------------------
PodRecords(B) ==
    [up : B, ready : B, mount : Certs, cached : Certs, stamp : Int,
     lock : Dialers \union {NoOne}]

ShakeTypes ==
    [at : {"none", "check", "wait", "load", "done"}, pod : Pods \union {NoOne},
     newest : Int, leaf : Certs]

(* leaf is an earlier issue than other, or the same one.                    *)
NoLater(leaf, other) ==
    /\ leaf.serial <= other.serial
    /\ leaf.serial = other.serial => leaf = other

(* The issues are numbered, and 0 is no issue.                              *)
Numbered(leaf) == leaf.serial \in 0..serial /\ (leaf.serial = 0 => leaf = NoCert)

(* The files of a pod follow the Secret, and the stamp of its Reloader is   *)
(* no later than the keypair it belongs to.                                 *)
PodOK(p) ==
    /\ Numbered(pods[p].mount)
    /\ NoLater(pods[p].mount, serving[SecretOf[p]])
    /\ pods[p].cached # NoCert => pods[p].stamp <= pods[p].cached.serial

(* A handshake is at a pod that runs; the files have not grown older since  *)
(* newestMod looked at them, nor since LoadX509KeyPair read the first one.  *)
ShakeOK(h) ==
    /\ h.at # "none" => h.pod \in Pods /\ pods[h.pod].up
    /\ h.at \in {"check", "wait", "load"} =>
          1 <= h.newest /\ h.newest <= pods[h.pod].mount.serial
    /\ h.at = "load" =>
          h.newest <= h.leaf.serial /\ NoLater(h.leaf, pods[h.pod].mount)
    /\ h.at = "done" =>
          \/ h.leaf.serial >= h.newest /\ h.leaf # NoCert
          \/ /\ h.leaf = Bootstrap
             /\ h.newest = 0 \/ h.newest < pods[h.pod].mount.serial

PodsInv ==
    /\ pods \in [Pods -> PodRecords(BOOLEAN)]
    /\ \A s \in Range(Secrets) : Numbered(serving[s])
    /\ \A p \in Pods : PodOK(p)

(* The inductive invariant behind HandshakeIsFresh.                         *)
FreshInv ==
    /\ PodsInv
    /\ hs \in [Dialers -> ShakeTypes]
    /\ \A d \in Dialers : ShakeOK(hs[d])

-----------------------------------------------------------------------------
(* A handshake moves on while no pod starts, ends or has its files swapped. *)
LEMMA ShakeMoves ==
    ASSUME FreshInv, PodsInv', NEW d \in Dialers, NEW x \in ShakeTypes,
           \A p \in Pods : pods'[p].up = pods[p].up /\ pods'[p].mount = pods[p].mount,
           hs' = [hs EXCEPT ![d] = x], ShakeOK(x)
    PROVE  FreshInv'
<1>1. hs' \in [Dialers -> ShakeTypes]
    BY ZenonT(30) DEF FreshInv
<1>2. ASSUME NEW e \in Dialers PROVE ShakeOK(hs[e])'
  <2>1. PICK h \in ShakeTypes : h = hs'[e] /\ ShakeOK(h)
      BY ZenonT(30) DEF FreshInv
  <2>2. (h.at # "none" => h.pod \in Pods) /\ (h.at = "none" => ShakeOK(h)')
      BY <2>1, ZenonT(30) DEF ShakeOK
  <2>3. ShakeOK(h)'
      BY <2>1, <2>2, ZenonT(30) DEF ShakeOK, NoLater
  <2> QED BY <2>1, <2>3, ZenonT(30)
<1> QED BY <1>1, <1>2, ZenonT(30) DEF FreshInv

(* No handshake, and no pod.                                                *)
LEMMA NoShakeOK == NoShake \in ShakeTypes /\ ShakeOK(NoShake)
  BY NoValues DEF NoShake, ShakeTypes, ShakeOK

(* Neither the pods nor the Secrets change.                                 *)
LEMMA PodsStay ==
    ASSUME PodsInv, UNCHANGED <<pods, serving, serial>>
    PROVE  PodsInv'
  BY ZenonT(30) DEF PodsInv, PodOK, Numbered, NoLater

(* The changes of a pod's record.                                           *)
LEMMA PodRecord ==
    ASSUME NEW B, NEW r \in PodRecords(B), NEW b \in B, NEW leaf \in Certs,
           NEW n \in Int, NEW l \in Dialers \union {NoOne}
    PROVE  /\ [r EXCEPT !.lock = l] \in PodRecords(B)
           /\ [r EXCEPT !.ready = b] \in PodRecords(B)
           /\ [r EXCEPT !.mount = leaf] \in PodRecords(B)
           /\ [r EXCEPT !.up = b, !.mount = leaf] \in PodRecords(B)
           /\ [r EXCEPT !.cached = leaf, !.lock = l, !.stamp = n] \in PodRecords(B)
<1> USE DEF PodRecords
<1>1. [r EXCEPT !.lock = l] \in PodRecords(B)
    OBVIOUS
<1>2. [r EXCEPT !.ready = b] \in PodRecords(B)
    OBVIOUS
<1>3. [r EXCEPT !.mount = leaf] \in PodRecords(B)
    OBVIOUS
<1>4. [r EXCEPT !.up = b, !.mount = leaf] \in PodRecords(B)
    BY ZenonT(30)
<1>5. [r EXCEPT !.cached = leaf, !.lock = l, !.stamp = n] \in PodRecords(B)
    BY ZenonT(30)
<1> HIDE DEF PodRecords
<1> QED BY <1>1, <1>2, <1>3, <1>4, <1>5, ZenonT(30)

(* One pod's record changes.                                                *)
LEMMA PodMoves ==
    ASSUME PodsInv, UNCHANGED <<serving, serial>>, NEW p \in Pods,
           NEW x \in PodRecords(BOOLEAN), pods' = [pods EXCEPT ![p] = x],
           Numbered(x.mount), NoLater(x.mount, serving[SecretOf[p]]),
           x.cached # NoCert => x.stamp <= x.cached.serial
    PROVE  PodsInv'
<1>1. pods' \in [Pods -> PodRecords(BOOLEAN)]
    BY ZenonT(30) DEF PodsInv
<1>2. \A q \in Pods : PodOK(q)'
    BY ZenonT(30) DEF PodsInv, PodOK, Numbered, NoLater
<1>3. \A s \in Range(Secrets) : Numbered(serving[s])'
    BY ZenonT(30) DEF PodsInv, Numbered
<1> QED BY <1>1, <1>2, <1>3, ZenonT(30) DEF PodsInv

(* GetCertificate begins.                                                   *)
LEMMA HelloStep ==
    ASSUME FreshInv, UNCHANGED <<serving, serial>>, NEW d \in Dialers, NEW p \in Pods,
           Hello(d, p)
    PROVE  FreshInv'
<1>1. PodsInv' /\ pods' = pods
    BY PodsStay, ZenonT(30) DEF FreshInv, Hello
<1>2. pods[p].mount \in Certs /\ Numbered(pods[p].mount) /\ pods[p].up
    BY ZenonT(30) DEF FreshInv, PodsInv, PodOK, PodRecords, Hello
<1>3. CASE pods[p].mount = NoCert
  <2>1. PICK x : x = [at |-> "done", pod |-> p, newest |-> 0, leaf |-> Bootstrap]
      BY ZenonT(30)
  <2>2. x \in ShakeTypes /\ ShakeOK(x)
      BY <1>2, <2>1 DEF ShakeTypes, ShakeOK, Bootstrap, Certs
  <2>3. hs' = [hs EXCEPT ![d] = x]
      BY <1>3, <2>1, ZenonT(30) DEF Hello
  <2> QED BY <1>1, <2>2, <2>3, ShakeMoves, ZenonT(30)
<1>4. CASE pods[p].mount # NoCert
  <2>1. PICK n \in Int : n = pods[p].mount.serial /\ 1 <= n
      BY <1>2, <1>4 DEF Certs, Numbered
  <2>2. PICK x : x = [at |-> "check", pod |-> p, leaf |-> NoCert, newest |-> n]
      BY ZenonT(30)
  <2>3. x \in ShakeTypes /\ ShakeOK(x)
      BY <1>2, <2>1, <2>2, NoValues DEF ShakeTypes, ShakeOK
  <2>4. hs' = [hs EXCEPT ![d] = x]
      BY <1>4, <2>1, <2>2, ZenonT(30) DEF Hello
  <2> QED BY <1>1, <2>3, <2>4, ShakeMoves, ZenonT(30)
<1> QED BY <1>3, <1>4, ZenonT(30)

(* A handshake that waited for a lock is answered from the cache, which is  *)
(* at least as new as the files were, or goes on.                           *)
LEMMA HitAnswers ==
    ASSUME FreshInv, UNCHANGED <<pods, serving, serial>>, NEW d \in Dialers,
           hs[d].at \in {"check", "wait"}, Hit(d), Answer(d, pods[hs[d].pod].cached)
    PROVE  FreshInv'
<1>1. PICK h \in ShakeTypes, p \in Pods :
        /\ h = hs[d] /\ p = h.pod /\ pods[p].up /\ ShakeOK(h)
    BY ZenonT(30) DEF FreshInv, ShakeOK
<1>2. PICK leaf \in Certs : leaf = pods[p].cached
    BY ZenonT(30) DEF FreshInv, PodsInv, PodRecords
<1>3. leaf # NoCert /\ pods[p].stamp <= leaf.serial /\ h.newest <= pods[p].stamp
    BY <1>1, <1>2, ZenonT(30) DEF Hit, FreshInv, PodsInv, PodOK
<1>4. pods[p].stamp \in Int /\ leaf.serial \in Int /\ h.newest \in Int
    BY ZenonT(30) DEF FreshInv, PodsInv, PodRecords, Certs, ShakeTypes
<1>5. leaf.serial >= h.newest
    BY <1>3, <1>4
<1>6. PICK x : x = [h EXCEPT !.at = "done", !.leaf = leaf]
    BY ZenonT(30)
<1>7. /\ x \in ShakeTypes /\ x.at = "done" /\ x.leaf = leaf
      /\ x.pod = p /\ x.newest = h.newest
    BY <1>1, <1>6, ZenonT(30) DEF ShakeTypes
<1>8. ShakeOK(x)
    BY <1>1, <1>3, <1>5, <1>7, ZenonT(30) DEF ShakeOK
<1>9. hs' = [hs EXCEPT ![d] = x]
    BY <1>1, <1>2, <1>6, ZenonT(30) DEF Answer
<1> QED BY <1>7, <1>8, <1>9, PodsStay, ShakeMoves, ZenonT(30) DEF FreshInv

(* GetCertificate under the read lock, and under the write lock.            *)
LEMMA LockStep ==
    ASSUME FreshInv, UNCHANGED <<serving, serial>>, NEW d \in Dialers, Check(d) \/ Lock(d)
    PROVE  FreshInv'
<1>1. PICK h \in ShakeTypes, p \in Pods :
        /\ h = hs[d] /\ p = h.pod /\ pods[p].up /\ ShakeOK(h)
        /\ h.at \in {"check", "wait"} /\ 1 <= h.newest /\ h.newest <= pods[p].mount.serial
    BY ZenonT(30) DEF FreshInv, ShakeOK, Check, Lock
<1>2. CASE Hit(d)
    BY <1>1, <1>2, HitAnswers, ZenonT(30) DEF Check, Lock
<1>3. CASE Check(d) /\ ~Hit(d)
  <2>1. PICK x : x = [h EXCEPT !.at = "wait"]
      BY ZenonT(30)
  <2>2. x \in ShakeTypes /\ x.at = "wait" /\ x.pod = p /\ x.newest = h.newest
      BY <1>1, <2>1, ZenonT(30) DEF ShakeTypes
  <2>3. ShakeOK(x)
      BY <1>1, <2>2, ZenonT(30) DEF ShakeOK
  <2>4. hs' = [hs EXCEPT ![d] = x] /\ pods' = pods
      BY <1>1, <1>3, <2>1, ZenonT(30) DEF Check
  <2> QED BY <2>2, <2>3, <2>4, PodsStay, ShakeMoves, ZenonT(30) DEF FreshInv
<1>4. CASE Lock(d) /\ ~Hit(d)
  <2>1. PICK r \in PodRecords(BOOLEAN), leaf \in Certs :
            r = pods[p] /\ leaf = r.mount /\ PodOK(p)
      BY ZenonT(30) DEF FreshInv, PodsInv, PodRecords
  <2>2. PICK x : x = [h EXCEPT !.at = "load", !.leaf = leaf]
      BY ZenonT(30)
  <2>3. /\ x \in ShakeTypes /\ x.at = "load" /\ x.leaf = leaf
        /\ x.pod = p /\ x.newest = h.newest
      BY <1>1, <2>2, ZenonT(30) DEF ShakeTypes
  <2>4. NoLater(leaf, leaf)
      BY SMTT(30) DEF NoLater, Certs
  <2>5. ShakeOK(x)
      BY <1>1, <2>1, <2>3, <2>4, ZenonT(30) DEF ShakeOK
  <2>6. PICK y : y = [r EXCEPT !.lock = d]
      BY ZenonT(30)
  <2>7. y \in PodRecords(BOOLEAN)
      BY <2>6, PodRecord, NoValues, Zenon
  <2>8. /\ y.up = r.up /\ y.mount = r.mount /\ y.cached = r.cached
        /\ y.stamp = r.stamp
      BY <2>6, ZenonT(30) DEF PodRecords
  <2>9. hs' = [hs EXCEPT ![d] = x] /\ pods' = [pods EXCEPT ![p] = y]
      BY <1>1, <1>4, <2>1, <2>2, <2>6, ZenonT(30) DEF Lock
  <2>10. PodsInv'
      BY <2>1, <2>7, <2>8, <2>9, PodMoves, ZenonT(30) DEF FreshInv, PodOK
  <2>11. \A q \in Pods : pods'[q].up = pods[q].up /\ pods'[q].mount = pods[q].mount
      BY <2>1, <2>8, <2>9, ZenonT(30) DEF FreshInv, PodsInv
  <2> QED BY <2>3, <2>5, <2>9, <2>10, <2>11, ShakeMoves, ZenonT(30)
<1> QED BY <1>2, <1>3, <1>4, ZenonT(30)

(* LoadX509KeyPair: the pair is of one issue, no older than newestMod saw,  *)
(* or it is torn, and then the files have become newer.                     *)
LEMMA LoadStep ==
    ASSUME FreshInv, UNCHANGED <<serving, serial>>, NEW d \in Dialers, Load(d)
    PROVE  FreshInv'
<1>1. PICK h \in ShakeTypes, p \in Pods :
        /\ h = hs[d] /\ p = h.pod /\ pods[p].up /\ ShakeOK(h) /\ h.at = "load"
        /\ 1 <= h.newest /\ h.newest <= h.leaf.serial
        /\ NoLater(h.leaf, pods[p].mount)
    BY ZenonT(30) DEF FreshInv, ShakeOK, Load
<1>2. PICK r \in PodRecords(BOOLEAN) :
        r = pods[p] /\ Numbered(r.mount) /\ NoLater(r.mount, serving[SecretOf[p]])
        /\ (r.cached # NoCert => r.stamp <= r.cached.serial)
    BY ZenonT(30) DEF FreshInv, PodsInv, PodOK
<1>3. h.leaf \in Certs /\ h.newest \in Int /\ r.mount \in Certs /\ Bootstrap \in Certs
    BY DEF ShakeTypes, PodRecords, Bootstrap, Certs
<1>4. ASSUME NEW leaf \in Certs, NEW y \in PodRecords(BOOLEAN),
             Answer(d, leaf), pods' = [pods EXCEPT ![p] = y],
             y.up = r.up, y.mount = r.mount,
             y.cached # NoCert => y.stamp <= y.cached.serial,
             \/ leaf.serial >= h.newest /\ leaf # NoCert
             \/ leaf = Bootstrap /\ h.newest < r.mount.serial
      PROVE  FreshInv'
  <2>1. PICK x : x = [h EXCEPT !.at = "done", !.leaf = leaf]
      BY ZenonT(30)
  <2>2. /\ x \in ShakeTypes /\ x.at = "done" /\ x.leaf = leaf
        /\ x.pod = p /\ x.newest = h.newest
      BY <1>1, <2>1, ZenonT(30) DEF ShakeTypes
  <2>3. ShakeOK(x)
      BY <1>1, <1>2, <1>4, <2>2, ZenonT(30) DEF ShakeOK
  <2>4. hs' = [hs EXCEPT ![d] = x]
      BY <1>1, <1>4, <2>1, ZenonT(30) DEF Answer
  <2>5. PodsInv'
      BY <1>2, <1>4, PodMoves, ZenonT(30) DEF FreshInv
  <2>6. \A q \in Pods : pods'[q].up = pods[q].up /\ pods'[q].mount = pods[q].mount
      BY <1>2, <1>4, ZenonT(30) DEF FreshInv, PodsInv
  <2> QED BY <2>2, <2>3, <2>4, <2>5, <2>6, ShakeMoves, ZenonT(30)
<1>5. CASE pods[p].mount = h.leaf
  <2>1. PICK y : y = [r EXCEPT !.cached = h.leaf, !.lock = NoOne, !.stamp = h.newest]
      BY ZenonT(30)
  <2>2. PICK l \in Dialers \union {NoOne} : l = NoOne
      OBVIOUS
  <2>3. y \in PodRecords(BOOLEAN)
      BY <1>3, <2>1, <2>2, PodRecord, Zenon
  <2>4. /\ y.up = r.up /\ y.mount = r.mount
        /\ y.cached = h.leaf /\ y.stamp = h.newest
      BY <2>1, ZenonT(30) DEF PodRecords
  <2>5. pods' = [pods EXCEPT ![p] = y] /\ Answer(d, h.leaf)
      BY <1>1, <1>2, <1>5, <2>1, ZenonT(30) DEF Load
  <2>6. h.leaf # NoCert
      BY <1>1, <1>3, SMTT(30) DEF NoCert, Certs
  <2>7. h.leaf.serial >= h.newest
      BY <1>1, <1>3, ZenonT(30) DEF Certs
  <2> QED BY <1>1, <1>3, <1>4, <2>3, <2>4, <2>5, <2>6, <2>7, ZenonT(30)
<1>6. CASE pods[p].mount # h.leaf
  <2>1. PICK y : y = [r EXCEPT !.lock = NoOne]
      BY ZenonT(30)
  <2>2. PICK l \in Dialers \union {NoOne} : l = NoOne
      OBVIOUS
  <2>3. y \in PodRecords(BOOLEAN)
      BY <1>3, <2>1, <2>2, PodRecord, Zenon
  <2>4. /\ y.up = r.up /\ y.mount = r.mount /\ y.cached = r.cached
        /\ y.stamp = r.stamp
      BY <2>1, ZenonT(30) DEF PodRecords
  <2>5. pods' = [pods EXCEPT ![p] = y] /\ Answer(d, Bootstrap)
      BY <1>1, <1>2, <1>6, <2>1, ZenonT(30) DEF Load
  <2>6. h.leaf.serial <= r.mount.serial /\ h.leaf.serial # r.mount.serial
      BY <1>1, <1>2, <1>6, Zenon DEF NoLater
  <2>7. h.leaf.serial \in Int /\ r.mount.serial \in Int /\ h.newest \in Int
      BY <1>3, ZenonT(30) DEF Certs
  <2>8. h.newest < r.mount.serial
      BY <1>1, <2>6, <2>7
  <2> QED BY <1>2, <1>3, <1>4, <2>3, <2>4, <2>5, <2>8, ZenonT(30)
<1> QED BY <1>1, <1>5, <1>6, ZenonT(30)

-----------------------------------------------------------------------------
(* A pod that is down, or has just started.                                 *)
LEMMA NewPod ==
    ASSUME NEW leaf \in Certs
    PROVE  /\ DownPod \in PodRecords(BOOLEAN) /\ FreshPod(leaf) \in PodRecords(BOOLEAN)
           /\ DownPod.mount = NoCert /\ FreshPod(leaf).mount = leaf
           /\ DownPod.cached = NoCert /\ FreshPod(leaf).cached = NoCert
<1>1. \A B : \A b \in B : \A c \in B : \A m \in Certs :
        [up |-> b, ready |-> c, mount |-> m, cached |-> NoCert, stamp |-> 0,
         lock |-> NoOne] \in PodRecords(B)
    BY NoValues DEF PodRecords
<1>2. DownPod \in PodRecords(BOOLEAN)
    BY <1>1, NoValues, Zenon DEF DownPod
<1>3. PICK r \in PodRecords(BOOLEAN), b \in BOOLEAN : r = DownPod /\ b = TRUE
    BY <1>2, Zenon
<1>4. PICK x : x = [r EXCEPT !.up = b, !.mount = leaf]
    OBVIOUS
<1>5. FreshPod(leaf) = x
    BY <1>3, <1>4, Zenon DEF FreshPod
<1>6. x \in PodRecords(BOOLEAN)
    BY <1>4, PodRecord, NoValues, Zenon
<1>7. x.mount = leaf /\ x.cached = r.cached
    BY <1>4, ZenonT(30) DEF PodRecords
<1>8. DownPod.mount = NoCert /\ DownPod.cached = NoCert
    BY ZenonT(30) DEF DownPod
<1> QED BY <1>2, <1>3, <1>5, <1>6, <1>7, <1>8, ZenonT(30)

(* A handshake ends, or its dialer goes away.                               *)
LEMMA ShakeEnds ==
    ASSUME FreshInv, UNCHANGED <<pods, serving, serial>>, NEW d \in Dialers,
           hs' = [hs EXCEPT ![d] = NoShake]
    PROVE  FreshInv'
  BY NoShakeOK, PodsStay, ShakeMoves, ZenonT(30) DEF FreshInv

(* A new issue is later than every pod's files.                             *)
LEMMA IssueKeepsFresh ==
    ASSUME PassInv, FreshInv, NEW c \in Controllers, Issue(c)
    PROVE  FreshInv'
<1>1. pods' = pods /\ hs' = hs
    BY ZenonT(30) DEF Issue
<1>2. CASE UNCHANGED <<serving, serial>>
  <2>1. PodsInv'
      BY <1>1, <1>2, PodsStay, ZenonT(30) DEF FreshInv
  <2> QED BY <1>1, <2>1, ZenonT(30) DEF FreshInv, ShakeOK, NoLater
<1>3. CASE ~UNCHANGED <<serving, serial>>
  <2>1. PICK leaf, s : /\ serving' = [serving EXCEPT ![s] = leaf]
                       /\ leaf.serial = serial + 1 /\ serial' = serial + 1
      BY <1>3, ZenonT(30) DEF Issue, IssueServingCert
  <2>2. \A t \in Range(Secrets) :
          serving[t].serial \in 0..serial /\ (serving'[t] = serving[t] \/ serving'[t] = leaf)
      BY <2>1, ZenonT(30) DEF FreshInv, PodsInv, Numbered, PassInv
  <2>3. \A t \in Range(Secrets) : Numbered(serving[t])'
      BY <2>1, <2>2 DEF FreshInv, PodsInv, Numbered, PassInv
  <2>4. ASSUME NEW p \in Pods PROVE PodOK(p)'
    <3>1. SecretOf[p] \in Range(Secrets)
        BY CertAssumption, ZenonT(30)
    <3>2. Numbered(pods[p].mount)'
        BY <1>1, <2>1 DEF FreshInv, PodsInv, PodOK, Numbered, PassInv
    <3>3. NoLater(pods[p].mount, serving[SecretOf[p]])'
        BY <1>1, <2>1, <2>2, <3>1, SMTT(30)
           DEF FreshInv, PodsInv, PodOK, Numbered, NoLater, PassInv
    <3> QED BY <1>1, <3>2, <3>3, ZenonT(30) DEF FreshInv, PodsInv, PodOK
  <2> QED BY <1>1, <2>3, <2>4, ZenonT(30) DEF FreshInv, PodsInv, ShakeOK, NoLater
<1> QED BY <1>2, <1>3, ZenonT(30)

(* A pod starts with the Secret's files, gets them anew, becomes ready or   *)
(* ends.                                                                    *)
LEMMA PodStep ==
    ASSUME PassInv, FreshInv, NEW p \in Pods,
           PodStarts(p) \/ PodReady(p) \/ PodEnds(p) \/ Kubelet(p)
    PROVE  FreshInv'
<1>1. UNCHANGED <<serving, serial>>
    BY ZenonT(30) DEF PodStarts, PodReady, PodEnds, Kubelet, api
<1>2. PICK leaf \in Certs : leaf = serving[SecretOf[p]] /\ Numbered(leaf)
    BY CertAssumption, ZenonT(30) DEF PassInv, FreshInv, PodsInv
<1>3. PICK r \in PodRecords(BOOLEAN) :
        /\ r = pods[p] /\ Numbered(r.mount) /\ NoLater(r.mount, leaf)
        /\ r.cached # NoCert => r.stamp <= r.cached.serial
    BY <1>2, ZenonT(30) DEF FreshInv, PodsInv, PodOK
<1>4. NoLater(leaf, leaf) /\ NoLater(NoCert, leaf) /\ Numbered(NoCert)
    BY <1>2, NoValues DEF NoLater, Numbered, Certs, NoCert, PassInv
<1>5. r.mount \in Certs
    BY ZenonT(30) DEF PodRecords
<1>6. CASE PodStarts(p)
  <2>1. PodsInv'
      BY <1>1, <1>2, <1>4, <1>6, NewPod, PodMoves, ZenonT(30) DEF FreshInv, PodStarts
  <2>2. ASSUME NEW d \in Dialers PROVE ShakeOK(hs[d])'
    <3>1. hs[d].at # "none" => hs[d].pod # p
        BY <1>6, ZenonT(30) DEF FreshInv, ShakeOK, PodStarts
    <3>2. hs[d].at # "none" => pods'[hs[d].pod] = pods[hs[d].pod]
        BY <1>6, <3>1, ZenonT(30) DEF FreshInv, PodsInv, ShakeOK, PodStarts
    <3> QED BY <1>6, <3>2, ZenonT(30) DEF FreshInv, ShakeOK, PodStarts, NoLater
  <2> QED BY <1>6, <2>1, <2>2, ZenonT(30) DEF FreshInv, PodStarts
<1>7. CASE PodEnds(p)
  <2>1. PodsInv'
      BY <1>1, <1>2, <1>4, <1>7, NewPod, PodMoves, ZenonT(30) DEF FreshInv, PodEnds
  <2>2. ASSUME NEW d \in Dialers PROVE hs'[d] \in ShakeTypes /\ ShakeOK(hs[d])'
    <3>1. CASE hs[d].pod = p
      <4>1. hs'[d] = NoShake
          BY <1>7, <3>1, ZenonT(30) DEF PodEnds, HangUp
      <4> QED BY <4>1, NoShakeOK, SMTT(30) DEF ShakeOK, NoShake
    <3>2. CASE hs[d].pod # p
      <4>1. hs'[d] = hs[d]
          BY <1>7, <3>2, ZenonT(30) DEF PodEnds, HangUp
      <4>2. hs[d].at # "none" => pods'[hs[d].pod] = pods[hs[d].pod]
          BY <1>7, <3>2, ZenonT(30) DEF FreshInv, PodsInv, ShakeOK, PodEnds
      <4> QED BY <4>1, <4>2, ZenonT(30) DEF FreshInv, ShakeOK, NoLater
    <3> QED BY <3>1, <3>2, ZenonT(30)
  <2>3. hs' \in [Dialers -> ShakeTypes]
      BY <1>7, <2>2, ZenonT(30) DEF PodEnds, HangUp
  <2> QED BY <2>1, <2>2, <2>3, ZenonT(30) DEF FreshInv
<1>8. CASE PodReady(p)
  <2>0. PICK b \in BOOLEAN : b = TRUE
      BY ZenonT(30)
  <2>1. PICK y : y = [r EXCEPT !.ready = b]
      BY ZenonT(30)
  <2>2. y \in PodRecords(BOOLEAN)
      BY <2>1, PodRecord, NoValues, Zenon
  <2>3. /\ y.up = r.up /\ y.mount = r.mount /\ y.cached = r.cached
        /\ y.stamp = r.stamp
      BY <2>1, ZenonT(30) DEF PodRecords
  <2>4. pods' = [pods EXCEPT ![p] = y] /\ hs' = hs
      BY <1>3, <1>8, <2>0, <2>1, ZenonT(30) DEF PodReady
  <2>5. PodsInv'
      BY <1>1, <1>2, <1>3, <2>2, <2>3, <2>4, PodMoves, ZenonT(30) DEF FreshInv
  <2>6. \A q \in Pods : pods'[q].up = pods[q].up /\ pods'[q].mount = pods[q].mount
      BY <1>3, <2>3, <2>4, ZenonT(30) DEF FreshInv, PodsInv
  <2>7. ASSUME NEW d \in Dialers PROVE ShakeOK(hs[d])'
    <3>1. PICK h \in ShakeTypes : h = hs[d] /\ ShakeOK(h)
        BY ZenonT(30) DEF FreshInv
    <3>2. h.at # "none" => /\ h.pod \in Pods /\ pods'[h.pod].up = pods[h.pod].up
                           /\ pods'[h.pod].mount = pods[h.pod].mount
        BY <2>6, <3>1, ZenonT(30) DEF ShakeOK
    <3>3. ShakeOK(h)'
        BY <3>1, <3>2, ZenonT(30) DEF ShakeOK, NoLater
    <3> QED BY <2>4, <3>1, <3>3, ZenonT(30)
  <2> QED BY <2>4, <2>5, <2>7, ZenonT(30) DEF FreshInv
<1>9. CASE Kubelet(p)
  <2>1. PICK y : y = [r EXCEPT !.mount = leaf]
      BY ZenonT(30)
  <2>2. y \in PodRecords(BOOLEAN)
      BY <2>1, PodRecord, NoValues, Zenon
  <2>3. /\ y.up = r.up /\ y.mount = leaf /\ y.cached = r.cached
        /\ y.stamp = r.stamp
      BY <2>1, ZenonT(30) DEF PodRecords
  <2>4. pods' = [pods EXCEPT ![p] = y] /\ hs' = hs
      BY <1>2, <1>3, <1>9, <2>1, ZenonT(30) DEF Kubelet, Remount
  <2>5. PodsInv'
      BY <1>1, <1>2, <1>3, <1>4, <2>2, <2>3, <2>4, PodMoves, ZenonT(30) DEF FreshInv
  <2>6. ASSUME NEW d \in Dialers PROVE ShakeOK(hs[d])'
    <3>1. PICK h \in ShakeTypes : h = hs[d] /\ ShakeOK(h)
        BY ZenonT(30) DEF FreshInv
    <3>2. CASE h.pod # p \/ h.at = "none"
      <4>1. h.at # "none" => pods'[h.pod] = pods[h.pod]
          BY <2>4, <3>1, <3>2, ZenonT(30) DEF FreshInv, PodsInv, ShakeOK
      <4>2. ShakeOK(h)'
          BY <3>1, <4>1, ZenonT(30) DEF ShakeOK, NoLater
      <4> QED BY <2>4, <3>1, <4>2, ZenonT(30)
    <3>3. CASE h.pod = p /\ h.at # "none"
      <4>1. pods'[p].up = pods[p].up /\ pods'[p].mount = leaf /\ pods[p] = r
          BY <1>3, <2>3, <2>4, ZenonT(30) DEF FreshInv, PodsInv
      <4>2. /\ h.newest \in Int /\ h.leaf.serial \in Int
            /\ r.mount.serial \in Int /\ leaf.serial \in Int
          BY <1>5, ZenonT(30) DEF ShakeTypes, Certs
      <4>3. h.at = "load" => NoLater(h.leaf, leaf)
          BY <1>3, <3>1, <3>3, <4>1, <4>2, SMTT(30) DEF ShakeOK, NoLater
      <4>4. ShakeOK(h)'
          BY <1>3, <3>1, <3>3, <4>1, <4>2, <4>3, SMTT(30) DEF ShakeOK, NoLater
      <4> QED BY <2>4, <3>1, <4>4, ZenonT(30)
    <3> QED BY <3>2, <3>3, ZenonT(30)
  <2> QED BY <2>4, <2>5, <2>6, ZenonT(30) DEF FreshInv
<1> QED BY <1>6, <1>7, <1>8, <1>9, ZenonT(30)

(* Every step keeps the invariant.                                          *)
LEMMA FreshStep ==
    ASSUME PassInv, FreshInv, [Next]_vars
    PROVE  FreshInv'
<1>1. ASSUME UNCHANGED <<pods, hs, serving, serial>> PROVE FreshInv'
  <2>1. PodsInv'
      BY <1>1, PodsStay, ZenonT(30) DEF FreshInv
  <2> QED BY <1>1, <2>1, ZenonT(30) DEF FreshInv, ShakeOK, NoLater
<1>2. Controllers \subseteq Dialers /\ Clients \subseteq Dialers
    BY CertAssumption, ZenonT(30)
<1>3. ASSUME NEW c \in Controllers,
             Begin(c) \/ CallFails(c) \/ LeaseMoves(c) \/ GetCA(c) \/ MintCA(c)
             \/ GetServing(c) \/ GetPosture(c) \/ ListEndpoints(c) \/ Commit(c)
      PROVE  FreshInv'
    BY <1>1, <1>3, ZenonT(30) DEF Begin, CallFails, LeaseMoves, GetCA, MintCA, GetServing,
                      GetPosture, ListEndpoints, Commit, api
<1>4. ASSUME NEW c \in Controllers, Dial(c) PROVE FreshInv'
  <2>1. UNCHANGED <<serving, serial>> /\ ctl[c].addrs \subseteq Pods
      BY <1>4, ZenonT(30) DEF Dial, api, PassInv, PassTypes, PassRecords
  <2>2. CASE UNCHANGED <<pods, hs>>
      BY <1>1, <2>1, <2>2, ZenonT(30)
  <2>3. ASSUME NEW p \in Pods, Hello(c, p) PROVE FreshInv'
      BY <1>2, <2>1, <2>3, HelloStep, ZenonT(30)
  <2> QED BY <1>4, <2>1, <2>2, <2>3, ZenonT(30) DEF Dial
<1>5. ASSUME NEW c \in Controllers, Probed(c) \/ Crash(c) PROVE FreshInv'
    BY <1>2, <1>5, ShakeEnds, ZenonT(30) DEF Probed, Crash, api
<1>6. ASSUME NEW k \in Clients, ClientHello(k) \/ ClientDone(k) PROVE FreshInv'
    BY <1>2, <1>6, HelloStep, ShakeEnds, ZenonT(30) DEF ClientHello, ClientDone, api
<1>7. ASSUME NEW d \in Dialers, Shake(d) PROVE FreshInv'
    BY <1>7, LockStep, LoadStep, ZenonT(30) DEF Shake, ShakeStep, api
<1>8. CASE OperatorDeletesCA \/ OperatorDamagesCA \/ Tick \/ UNCHANGED vars
    BY <1>1, <1>8, ZenonT(30) DEF OperatorDeletesCA, OperatorDamagesCA, Tick, vars, api
<1>9. ASSUME NEW g \in Range(Gates), OperatorApplies(g) PROVE FreshInv'
    BY <1>1, <1>9, ZenonT(30) DEF OperatorApplies
<1>10. ASSUME NEW c \in Controllers, ControllerStep(c) PROVE FreshInv'
    BY <1>3, <1>4, <1>5, <1>10, IssueKeepsFresh, ZenonT(30) DEF ControllerStep
<1> QED BY <1>3, <1>5, <1>6, <1>7, <1>8, <1>9, <1>10, PodStep, ZenonT(30) DEF Next

(* At first no pod runs.                                                    *)
LEMMA FreshInit == Init => FreshInv
<1> SUFFICES ASSUME Init PROVE FreshInv
    OBVIOUS
<1>1. Numbered(NoCert) /\ NoLater(NoCert, NoCert)
    BY DEF Init, Numbered, NoLater, NoCert
<1>2. pods \in [Pods -> PodRecords(BOOLEAN)]
    BY NewPod, NoValues, ZenonT(30) DEF Init
<1>3. \A p \in Pods : pods[p].mount = NoCert /\ pods[p].cached = NoCert
    BY NewPod, NoValues, ZenonT(30) DEF Init
<1>4. \A p \in Pods : serving[SecretOf[p]] = NoCert
    BY CertAssumption, ZenonT(30) DEF Init
<1>5. PodsInv
    BY <1>1, <1>2, <1>3, <1>4, ZenonT(30) DEF Init, PodsInv, PodOK
<1> QED BY <1>5, NoShakeOK, ZenonT(30) DEF Init, FreshInv

(* GetCertificate: for any number of pods and concurrent handshakes, however *)
(* kubelet, renewals, restarts and controllers interleave with them, no      *)
(* handshake is answered with an older issue than the files held when it     *)
(* began, and a torn pair is answered with the bootstrap certificate only    *)
(* while the files become newer.                                             *)
THEOREM HandshakesFresh == Spec => []HandshakeIsFresh
<1>1. FreshInv => HandshakeIsFresh
    BY ZenonT(30) DEF FreshInv, ShakeOK, HandshakeIsFresh
<1>2. Init => PassInv /\ FreshInv
    BY PassInit, FreshInit, ZenonT(30)
<1>3. PassInv /\ FreshInv /\ [Next]_vars => (PassInv /\ FreshInv)'
    BY PassStep, FreshStep, ZenonT(30)
<1> QED BY <1>1, <1>2, <1>3, PTL DEF Spec

-----------------------------------------------------------------------------
(* The gates.  TrustInv: a pod that was probed has files, and files are     *)
(* always of a stored CA and in date.  They stay in date because the hour   *)
(* does not end before a pass has left every serving certificate with more  *)
(* than the hour to live, and every mount has followed.                     *)

(* The steps of a pass that follow the serving Secrets.                     *)
Late == {"gate", "list", "probe"}

(* The Secret's certificate outlives the present hour.                      *)
Lasts(s) == serving[s].until > now

(* The pod has a certificate of the Secret.                                 *)
HasFiles(p) == pods[p].mount # NoCert

(* The Secrets that a pass is through with outlive the hour, and the pods   *)
(* that it has probed have files.                                           *)
PassOK(r) ==
    /\ r.at \in Signing => \A j \in DOMAIN Secrets :
          j < r.i \/ r.at \in Late => Lasts(Secrets[j])
    /\ r.at = "probe" => \A p \in r.list \ r.addrs : HasFiles(p)

(* A pod that answered with its own certificate has files.                  *)
Answered(h) == h.at = "done" /\ h.leaf # Bootstrap => HasFiles(h.pod)

(* What is committed for a gate: the bundle of a stored CA, pods with files.*)
GateOK(po, ps) == \A p \in ps : p \in Pods /\ HasFiles(p) /\ po.bundle \in stored

TrustInv ==
    /\ stored \subseteq 1..mints
    /\ \A s \in Range(Secrets) : serving[s] # NoCert => now <= serving[s].until
    /\ passed => \A s \in Range(Secrets) : Lasts(s)
    /\ \A c \in Controllers : PassOK(ctl[c])
    /\ \A p \in Pods : HasFiles(p) =>
          pods[p].up /\ pods[p].mount.ca \in stored /\ now <= pods[p].mount.until
    /\ \A d \in Dialers : Answered(hs[d])
    /\ DOMAIN vetted = Range(Gates) /\ DOMAIN posture = Range(Gates)
    /\ \A g \in Range(Gates) : GateOK(posture[g], vetted[g])

(* A record of a pass that changed, in a state that may have changed.       *)
PassOKThen(r) == PassOK(r)'
AnsweredThen(h) == Answered(h)'
GateOKThen(po, ps) == GateOK(po, ps)'

(* Within the hour, Secrets are only renewed and files only replaced by those *)
(* of the Secret: it is enough to look at what moved.                       *)
LEMMA HourTrust ==
    ASSUME PassInv, FreshInv, TrustInv, now' = now,
           \A s \in Range(Secrets) :
              serving'[s] = serving[s] \/ (Lasts(s)' /\ serving'[s] \in Certs),
           stored \subseteq stored', stored' \subseteq 1..mints',
           \A p \in Pods :
              \/ pods'[p].up = pods[p].up /\ pods'[p].mount = pods[p].mount
              \/ /\ pods'[p].up /\ pods'[p].mount = serving[SecretOf[p]]
                 /\ HasFiles(p) => HasFiles(p)',
           \A c \in Controllers : ctl'[c] = ctl[c] \/ \E r : r = ctl'[c] /\ PassOKThen(r),
           passed' => passed \/ \A s \in Range(Secrets) : Lasts(s),
           \A d \in Dialers : hs'[d] = hs[d] \/ \E h : h = hs'[d] /\ AnsweredThen(h),
           DOMAIN vetted' = Range(Gates), DOMAIN posture' = Range(Gates),
           \A g \in Range(Gates) :
              \/ vetted'[g] = vetted[g] /\ posture'[g] = posture[g]
              \/ \E po, ps : /\ po = posture'[g] /\ ps = vetted'[g]
                             /\ GateOKThen(po, ps)
    PROVE  TrustInv'
<1>0. /\ hs \in [Dialers -> ShakeTypes] /\ \A d \in Dialers : ShakeOK(hs[d])
      /\ ctl \in [Controllers -> PassTypes] /\ now \in Nat
      /\ \A s \in Range(Secrets) : serving[s].until \in Int
  BY ZenonT(30) DEF PassInv, FreshInv, Certs
<1>1. \A s \in Range(Secrets) : Lasts(s) => Lasts(s)'
  BY ZenonT(30) DEF Lasts
<1>2. \A p \in Pods : HasFiles(p) => HasFiles(p)'
  BY ZenonT(30) DEF HasFiles
<1>3. \A s \in Range(Secrets) : serving'[s] # NoCert => now' <= serving'[s].until
  <2> SUFFICES ASSUME NEW s \in Range(Secrets), serving'[s] # NoCert
               PROVE  now' <= serving'[s].until
    OBVIOUS
  <2>1. CASE serving'[s] = serving[s]
    BY <2>1, ZenonT(30) DEF TrustInv
  <2>2. CASE serving'[s].until > now' /\ serving'[s] \in Certs
    BY <1>0, <2>2 DEF Certs
  <2> QED BY <2>1, <2>2, ZenonT(30) DEF Lasts
<1>4. passed' => \A s \in Range(Secrets) : Lasts(s)'
  BY <1>1, ZenonT(30) DEF TrustInv
<1>5. ASSUME NEW c \in Controllers PROVE PassOK(ctl[c])'
  <2>1. CASE ctl'[c] = ctl[c]
    <3>1. PICK r \in PassTypes : r = ctl[c] /\ PassOK(r)
      BY <1>0, ZenonT(30) DEF TrustInv
    <3>2. r.list \subseteq Pods
      BY ZenonT(30) DEF PassTypes, PassRecords
    <3>3. \A j \in DOMAIN Secrets : Secrets[j] \in Range(Secrets)
      BY ZenonT(30) DEF Range
    <3>4. PassOK(r)'
      BY <1>1, <1>2, <3>1, <3>2, <3>3, ZenonT(30) DEF PassOK
    <3> QED BY <2>1, <3>1, <3>4, ZenonT(30)
  <2>2. CASE \E r : r = ctl'[c] /\ PassOKThen(r)
    BY <2>2, ZenonT(30) DEF PassOKThen
  <2> QED BY <2>1, <2>2, ZenonT(30)
<1>6. ASSUME NEW p \in Pods, HasFiles(p)'
      PROVE  pods'[p].up /\ pods'[p].mount.ca \in stored' /\ now' <= pods'[p].mount.until
  <2>1. CASE pods'[p].up = pods[p].up /\ pods'[p].mount = pods[p].mount
    BY <1>6, <2>1, ZenonT(30) DEF TrustInv, HasFiles
  <2>2. CASE pods'[p].up /\ pods'[p].mount = serving[SecretOf[p]]
    <3>1. SecretOf[p] \in Range(Secrets) /\ serving[SecretOf[p]] # NoCert
      BY <1>6, <2>2, CertAssumption, ZenonT(30) DEF HasFiles
    <3> QED BY <2>2, <3>1, ZenonT(30) DEF TrustInv, PassInv, NoOrphanCertificates
  <2> QED BY <2>1, <2>2, ZenonT(30)
<1>7. ASSUME NEW d \in Dialers PROVE Answered(hs[d])'
  <2>1. CASE hs'[d] = hs[d]
    <3>1. PICK h \in ShakeTypes : h = hs[d] /\ Answered(h) /\ ShakeOK(h)
      BY <1>0, ZenonT(30) DEF TrustInv
    <3>2. h.at # "none" => h.pod \in Pods
      BY <3>1, ZenonT(30) DEF ShakeOK
    <3>3. Answered(h)'
      BY <1>2, <3>1, <3>2, ZenonT(30) DEF Answered
    <3> QED BY <2>1, <3>1, <3>3, ZenonT(30)
  <2>2. CASE \E h : h = hs'[d] /\ AnsweredThen(h)
    BY <2>2, ZenonT(30) DEF AnsweredThen
  <2> QED BY <2>1, <2>2, ZenonT(30)
<1>8. ASSUME NEW g \in Range(Gates) PROVE GateOK(posture[g], vetted[g])'
  <2>1. CASE vetted'[g] = vetted[g] /\ posture'[g] = posture[g]
    BY <1>2, <2>1, ZenonT(30) DEF TrustInv, GateOK
  <2>2. CASE \E po, ps : po = posture'[g] /\ ps = vetted'[g] /\ GateOKThen(po, ps)
    BY <2>2, ZenonT(30) DEF GateOKThen
  <2> QED BY <2>1, <2>2, ZenonT(30)
<1> QED BY <1>3, <1>4, <1>5, <1>6, <1>7, <1>8, ZenonT(30) DEF TrustInv

(* A pass that has not settled on a CA is through with nothing.             *)
LEMMA EarlyPassOK ==
    ASSUME NEW r, r.at \in {"idle", "ca", "mint"} PROVE PassOK(r) /\ PassOKThen(r)
  BY ZenonT(30) DEF PassOK, PassOKThen, Signing

(* The next gate, or the end of a pass, which then has been through with all *)
(* the Secrets.                                                             *)
LEMMA GateTrust ==
    ASSUME PassInv, TrustInv, UNCHANGED <<serving, now>>,
           NEW c \in Controllers, ctl[c].at \in Late, NEW ok, NextGate(c, ok)
    PROVE  /\ \A d \in Controllers : ctl'[d] = ctl[d] \/ \E r : r = ctl'[d] /\ PassOKThen(r)
           /\ passed' => passed \/ \A s \in Range(Secrets) : Lasts(s)
<1>1. PICK r \in PassTypes : r = ctl[c] /\ PassOK(r) /\ r.at \in Late /\ r.at \in Signing
  BY ZenonT(30) DEF PassInv, TrustInv, Late, Signing
<1>2. \A j \in DOMAIN Secrets : Lasts(Secrets[j]) /\ Lasts(Secrets[j])'
  BY <1>1, ZenonT(30) DEF PassOK, Lasts
<1>3. \A s \in Range(Secrets) : Lasts(s)
  BY <1>2, ZenonT(30) DEF Range
<1>4. PICK x : ctl' = [ctl EXCEPT ![c] = x] /\ (x = Idle \/ x.at = "gate")
  <2>1. CASE ctl[c].i < Len(Gates)
    <3>1. ctl' = [ctl EXCEPT ![c] = [ctl[c] EXCEPT !.at = "gate", !.i = @ + 1,
                    !.addrs = {}, !.list = {}, !.clean = @ /\ ok]]
      BY <2>1, ZenonT(30) DEF NextGate
    <3>2. [ctl[c] EXCEPT !.at = "gate", !.i = @ + 1,
                    !.addrs = {}, !.list = {}, !.clean = @ /\ ok].at = "gate"
      BY <1>1, ZenonT(30) DEF PassTypes, PassRecords
    <3> QED BY <3>1, <3>2, ZenonT(30)
  <2>2. CASE ~(ctl[c].i < Len(Gates))
    BY <2>2, ZenonT(30) DEF NextGate
  <2> QED BY <2>1, <2>2, ZenonT(30)
<1>5. PassOKThen(x)
  <2>1. CASE x = Idle
    BY <2>1, IdleType, EarlyPassOK
  <2>2. CASE x.at = "gate"
    BY <1>2, <2>2, ZenonT(30) DEF PassOKThen, PassOK
  <2> QED BY <1>4, <2>1, <2>2, ZenonT(30)
<1>6. \A d \in Controllers : ctl'[d] = ctl[d] \/ ctl'[d] = x
  BY <1>4, ZenonT(30) DEF PassInv
<1> QED BY <1>3, <1>5, <1>6, ZenonT(30)

-----------------------------------------------------------------------------
(* A controller's pass moves on and nothing else changes.                   *)
LEMMA PassTrust ==
    ASSUME PassInv, FreshInv, TrustInv, UNCHANGED <<pods, hs, api, now>>,
           \A d \in Controllers : ctl'[d] = ctl[d] \/ \E r : r = ctl'[d] /\ PassOKThen(r),
           passed' => passed \/ \A s \in Range(Secrets) : Lasts(s)
    PROVE  TrustInv'
<1>1. /\ stored' = stored /\ mints' = mints /\ serving' = serving /\ now' = now
      /\ posture' = posture /\ vetted' = vetted /\ pods' = pods /\ hs' = hs
  BY ZenonT(30) DEF api
<1>2. /\ stored' \subseteq 1..mints' /\ DOMAIN vetted' = Range(Gates)
      /\ DOMAIN posture' = Range(Gates)
  BY <1>1, ZenonT(30) DEF TrustInv
<1> QED BY <1>1, <1>2, HourTrust, ZenonT(30)

(* One record of a pass changes.                                            *)
LEMMA OnePass ==
    ASSUME PassInv, NEW c \in Controllers, NEW x, ctl' = [ctl EXCEPT ![c] = x],
           PassOKThen(x)
    PROVE  \A d \in Controllers : ctl'[d] = ctl[d] \/ \E r : r = ctl'[d] /\ PassOKThen(r)
  BY ZenonT(30) DEF PassInv

(* The Secrets in their order.                                              *)
LEMMA SecretOrder ==
    /\ DOMAIN Secrets = 1..Len(Secrets) /\ Len(Secrets) \in Nat
    /\ \A j \in DOMAIN Secrets : Secrets[j] \in Range(Secrets)
  BY CertAssumption DEF Range

(* Start, ensureCA without a mint.                                          *)
LEMMA GetCATrust ==
    ASSUME PassInv, FreshInv, TrustInv, NEW c \in Controllers, Begin(c) \/ GetCA(c)
    PROVE  TrustInv'
<1>1. UNCHANGED <<pods, hs, api, now>> /\ passed' = passed
  BY ZenonT(30) DEF Begin, GetCA, env
<1>2. PICK r \in PassTypes : r = ctl[c]
  BY ZenonT(30) DEF PassInv
<1>3. PICK x : /\ ctl' = [ctl EXCEPT ![c] = x]
               /\ x.at \in {"idle", "ca", "mint"} \/ (x.at = "serve" /\ x.i = 1)
  <2>1. CASE Begin(c)
    <3>1. [Idle EXCEPT !.at = "ca"].at = "ca"
      BY ZenonT(30) DEF Idle
    <3> QED BY <2>1, <3>1, ZenonT(30) DEF Begin
  <2>2. CASE GetCA(c) /\ caSecret = NoCA
    <3>1. [r EXCEPT !.at = "mint"].at = "mint"
      BY ZenonT(30) DEF PassTypes, PassRecords
    <3>2. ctl' = [ctl EXCEPT ![c] = [r EXCEPT !.at = "mint"]]
      BY <1>2, <2>2, ZenonT(30) DEF GetCA
    <3> QED BY <3>1, <3>2, ZenonT(30)
  <2>3. CASE GetCA(c) /\ caSecret # NoCA /\ ~Usable(caSecret)
    BY <2>3, IdleType, ZenonT(30) DEF GetCA
  <2>4. CASE GetCA(c) /\ caSecret # NoCA /\ Usable(caSecret)
    <3>1. PICK x : x = [r EXCEPT !.at = "serve", !.i = 1, !.ca = caSecret]
      OBVIOUS
    <3>2. x.at = "serve" /\ x.i = 1
      BY <3>1, ZenonT(30) DEF PassTypes, PassRecords
    <3>3. ctl' = [ctl EXCEPT ![c] = x]
      BY <1>2, <2>4, <3>1, ZenonT(30) DEF GetCA
    <3> QED BY <3>2, <3>3, ZenonT(30)
  <2> QED BY <2>1, <2>2, <2>3, <2>4, ZenonT(30)
<1>4. PassOKThen(x)
  <2>1. CASE x.at = "serve" /\ x.i = 1
    BY <2>1, SecretOrder DEF PassOKThen, PassOK, Late
  <2> QED BY <1>3, <2>1, EarlyPassOK
<1> QED BY <1>1, <1>3, <1>4, OnePass, PassTrust, ZenonT(30)

(* A Secret is done with: the next one, or the gates.                       *)
LEMMA NextSecretOK ==
    ASSUME NEW r \in PassTypes, NEW x, NEW n \in Nat, r.i = n, n \in DOMAIN Secrets,
           PassOK(r), r.at \in {"serve", "issue"}, now' = now,
           \A j \in DOMAIN Secrets : Lasts(Secrets[j]) => Lasts(Secrets[j])',
           Lasts(Secrets[n])',
           \/ x.at = "serve" /\ x.i = n + 1
           \/ x.at = "gate" /\ n = Len(Secrets)
    PROVE  PassOKThen(x)
<1>1. \A j \in DOMAIN Secrets : j <= n => Lasts(Secrets[j])'
  <2> SUFFICES ASSUME NEW j \in DOMAIN Secrets, j <= n PROVE Lasts(Secrets[j])'
    OBVIOUS
  <2>1. j \in 1..Len(Secrets) /\ Len(Secrets) \in Nat
    BY SecretOrder, Zenon
  <2>3. j < n \/ j = n
    BY <2>1
  <2>2. CASE j < n
    BY <2>2, ZenonT(30) DEF PassOK, Signing
  <2> QED BY <2>2, <2>3, ZenonT(30)
<1>2. CASE x.at = "serve" /\ x.i = n + 1
  <2>1. \A j \in DOMAIN Secrets : j < x.i => j <= n
    BY <1>2, SecretOrder
  <2> QED BY <1>1, <1>2, <2>1, ZenonT(30) DEF PassOKThen, PassOK, Late
<1>3. CASE x.at = "gate" /\ n = Len(Secrets)
  <2>1. \A j \in DOMAIN Secrets : j <= n
    BY <1>3, SecretOrder
  <2> QED BY <1>1, <1>3, <2>1, ZenonT(30) DEF PassOKThen, PassOK
<1> QED BY <1>2, <1>3, ZenonT(30)

(* ensureServingCert lets a healthy certificate be.                         *)
LEMMA GetServingTrust ==
    ASSUME PassInv, FreshInv, TrustInv, NEW c \in Controllers, GetServing(c)
    PROVE  TrustInv'
<1>1. UNCHANGED <<pods, hs, api, now>> /\ passed' = passed
  BY ZenonT(30) DEF GetServing, env
<1>2. PICK r \in PassTypes, n \in Int :
        r = ctl[c] /\ PassOK(r) /\ r.at = "serve" /\ n = r.i /\ n \in DOMAIN Secrets
  BY ZenonT(30) DEF PassInv, TrustInv, GetServing, PassTypes, PassRecords
<1>3. n \in Nat /\ n <= Len(Secrets) /\ Len(Secrets) \in Nat
  BY <1>2, SecretOrder
<1>4. serving' = serving
  BY <1>1, ZenonT(30) DEF api
<1>5. \A s : Lasts(s)' <=> Lasts(s)
  BY <1>1, <1>4, ZenonT(30) DEF Lasts
<1>6. CASE ~Healthy(serving[Secrets[n]], r.ca, now)
  <2>1. PICK x : x = [r EXCEPT !.at = "issue", !.old = serving[Secrets[n]]]
    OBVIOUS
  <2>2. x.at = "issue" /\ x.i = n
    BY <1>2, <2>1, ZenonT(30) DEF PassTypes, PassRecords
  <2>3. ctl' = [ctl EXCEPT ![c] = x]
    BY <1>2, <1>6, <2>1, ZenonT(30) DEF GetServing
  <2>4. PassOKThen(x)
    BY <1>2, <1>5, <2>2, ZenonT(30) DEF PassOKThen, PassOK, Late, Signing
  <2> QED BY <1>1, <2>3, <2>4, OnePass, PassTrust, ZenonT(30)
<1>7. CASE Healthy(serving[Secrets[n]], r.ca, now)
  <2>1. serving[Secrets[n]].until \in Int /\ now \in Nat
    BY <1>2, SecretOrder, ZenonT(30) DEF PassInv, Certs
  <2>2. Lasts(Secrets[n])
    BY <1>7, <2>1, CertAssumption DEF Healthy, Lasts
  <2>3. PICK x : /\ ctl' = [ctl EXCEPT ![c] = x]
                 /\ \/ x.at = "serve" /\ x.i = n + 1
                    \/ x.at = "gate" /\ n = Len(Secrets)
    <3>1. CASE n < Len(Secrets)
      <4>1. PICK x : x = [r EXCEPT !.i = n + 1]
        BY ZenonT(30)
      <4>2. x.at = "serve" /\ x.i = n + 1
        BY <1>2, <4>1, ZenonT(30) DEF PassTypes, PassRecords
      <4>3. ctl' = [ctl EXCEPT ![c] = x]
        BY <1>2, <1>7, <3>1, <4>1, ZenonT(30) DEF GetServing
      <4> QED BY <4>2, <4>3, ZenonT(30)
    <3>2. CASE ~(n < Len(Secrets))
      <4>1. PICK x : x = [r EXCEPT !.at = "gate", !.i = 1]
        OBVIOUS
      <4>2. x.at = "gate" /\ n = Len(Secrets)
        BY <1>3, <3>2, <4>1 DEF PassTypes, PassRecords
      <4>3. ctl' = [ctl EXCEPT ![c] = x]
        BY <1>2, <1>7, <3>2, <4>1, ZenonT(30) DEF GetServing
      <4> QED BY <4>2, <4>3, ZenonT(30)
    <3> QED BY <3>1, <3>2, ZenonT(30)
  <2>4. PassOKThen(x)
    BY <1>1, <1>2, <1>3, <1>5, <2>2, <2>3, NextSecretOK, ZenonT(30)
  <2> QED BY <1>1, <2>3, <2>4, OnePass, PassTrust, ZenonT(30)
<1> QED BY <1>6, <1>7, ZenonT(30)

(* IssueServingCert: the new certificate outlives the hour.                 *)
LEMMA IssueTrust ==
    ASSUME PassInv, FreshInv, TrustInv, NEW c \in Controllers, Issue(c)
    PROVE  TrustInv'
<1>1. /\ UNCHANGED <<pods, hs, now, mints, stored, posture, vetted>> /\ passed' = passed
  BY ZenonT(30) DEF Issue, env
<1>2. PICK r \in PassTypes, n \in Int :
        r = ctl[c] /\ PassOK(r) /\ r.at = "issue" /\ n = r.i /\ n \in DOMAIN Secrets
  BY ZenonT(30) DEF PassInv, TrustInv, Issue, PassTypes, PassRecords
<1>3. n \in Nat /\ n <= Len(Secrets) /\ Len(Secrets) \in Nat /\ Secrets[n] \in Range(Secrets)
  BY <1>2, SecretOrder, SMTT(30)
<1>4. /\ stored \subseteq stored' /\ stored' \subseteq 1..mints'
      /\ DOMAIN vetted' = Range(Gates) /\ DOMAIN posture' = Range(Gates)
  BY <1>1, ZenonT(30) DEF TrustInv
<1>5. CASE serving[Secrets[n]] # r.old
  <2>1. ctl' = [ctl EXCEPT ![c] = Idle] /\ UNCHANGED <<caSecret, serving, serial>>
    BY <1>2, <1>5, ZenonT(30) DEF Issue
  <2>2. PassOKThen(Idle)
    BY IdleType, EarlyPassOK
  <2>3. UNCHANGED <<pods, hs, api, now>>
    BY <1>1, <2>1, ZenonT(30) DEF api
  <2> QED BY <1>1, <2>1, <2>2, <2>3, OnePass, PassTrust, ZenonT(30)
<1>6. CASE serving[Secrets[n]] = r.old
  <2>1. PICK leaf : leaf = IssueServingCert(r.ca, now, serial + 1)
    OBVIOUS
  <2>2. serving' = [serving EXCEPT ![Secrets[n]] = leaf]
    BY <1>2, <1>6, <2>1, ZenonT(30) DEF Issue
  <2>0. /\ r.ca.id \in Int /\ now \in Nat /\ serial + 1 \in Nat
        /\ now + ServingLifetime \in Int /\ now + ServingLifetime > now
    <3>1. r.ca.id \in Int /\ now \in Nat /\ serial + 1 \in Nat
      BY DEF PassInv, PassTypes, PassRecords, CAs
    <3>2. ServingLifetime \in Nat /\ RenewBefore \in Nat /\ RenewBefore < ServingLifetime
      BY CertAssumption, ZenonT(30)
    <3> QED BY <3>1, <3>2
  <2>3. leaf \in Certs /\ leaf.until > now
    BY <2>0, <2>1 DEF IssueServingCert, Certs
  <2>4. serving'[Secrets[n]] = leaf /\ Lasts(Secrets[n])'
    BY <1>1, <1>3, <2>2, <2>3, ZenonT(30) DEF PassInv, Lasts
  <2>5. \A s \in Range(Secrets) :
          serving'[s] = serving[s] \/ (Lasts(s)' /\ serving'[s] \in Certs)
    BY <2>2, <2>3, <2>4, ZenonT(30) DEF PassInv
  <2>6. \A j \in DOMAIN Secrets : Lasts(Secrets[j]) => Lasts(Secrets[j])'
    BY <1>1, <2>5, SecretOrder, ZenonT(30) DEF Lasts
  <2>7. PICK x : /\ ctl' = [ctl EXCEPT ![c] = x]
                 /\ \/ x.at = "serve" /\ x.i = n + 1
                    \/ x.at = "gate" /\ n = Len(Secrets)
    <3>1. CASE n < Len(Secrets)
      <4>1. PICK x : x = [r EXCEPT !.at = "serve", !.i = n + 1]
        OBVIOUS
      <4>2. x.at = "serve" /\ x.i = n + 1
        BY <4>1, ZenonT(30) DEF PassTypes, PassRecords
      <4>3. ctl' = [ctl EXCEPT ![c] = x]
        BY <1>2, <1>6, <3>1, <4>1, ZenonT(30) DEF Issue
      <4> QED BY <4>2, <4>3, ZenonT(30)
    <3>2. CASE ~(n < Len(Secrets))
      <4>1. PICK x : x = [r EXCEPT !.at = "gate", !.i = 1]
        OBVIOUS
      <4>2. x.at = "gate" /\ n = Len(Secrets)
        BY <1>3, <3>2, <4>1 DEF PassTypes, PassRecords
      <4>3. ctl' = [ctl EXCEPT ![c] = x]
        BY <1>2, <1>6, <3>2, <4>1, ZenonT(30) DEF Issue
      <4> QED BY <4>2, <4>3, ZenonT(30)
    <3> QED BY <3>1, <3>2, ZenonT(30)
  <2>8. PassOKThen(x)
    BY <1>1, <1>2, <1>3, <2>4, <2>6, <2>7, NextSecretOK, ZenonT(30)
  <2>9. \A d \in Controllers : ctl'[d] = ctl[d] \/ \E q : q = ctl'[d] /\ PassOKThen(q)
    BY <2>7, <2>8, OnePass, ZenonT(30)
  <2> QED BY <1>1, <1>4, <2>5, <2>9, HourTrust, ZenonT(30)
<1> QED BY <1>5, <1>6, ZenonT(30)

(* NewCA and Create.                                                        *)
LEMMA MintTrust ==
    ASSUME PassInv, FreshInv, TrustInv, NEW c \in Controllers, MintCA(c)
    PROVE  TrustInv'
<1>1. /\ UNCHANGED <<pods, hs, now, serving, posture, vetted>> /\ passed' = passed
  BY ZenonT(30) DEF MintCA, env
<1>2. PICK r \in PassTypes : r = ctl[c]
  BY ZenonT(30) DEF PassInv
<1>3. DOMAIN vetted' = Range(Gates) /\ DOMAIN posture' = Range(Gates)
  BY <1>1, ZenonT(30) DEF TrustInv
<1>4. stored \subseteq stored' /\ stored' \subseteq 1..mints'
  <2>1. CASE caSecret = NoCA
    <3>1. mints' = mints + 1 /\ stored' = stored \union {mints + 1}
      BY <2>1, ZenonT(30) DEF MintCA, NewCA
    <3> QED BY <3>1 DEF TrustInv, PassInv
  <2>2. CASE caSecret # NoCA
    BY <2>2, ZenonT(30) DEF MintCA, TrustInv
  <2> QED BY <2>1, <2>2, ZenonT(30)
<1>5. PICK x : /\ ctl' = [ctl EXCEPT ![c] = x]
               /\ x.at = "ca" \/ (x.at = "serve" /\ x.i = 1)
  <2>1. CASE caSecret = NoCA
    <3>1. PICK x : x = [r EXCEPT !.at = "serve", !.i = 1, !.ca = NewCA(mints + 1, now)]
      OBVIOUS
    <3>2. x.at = "serve" /\ x.i = 1
      BY <3>1, ZenonT(30) DEF PassTypes, PassRecords
    <3>3. ctl' = [ctl EXCEPT ![c] = x]
      BY <1>2, <2>1, <3>1, ZenonT(30) DEF MintCA
    <3> QED BY <3>2, <3>3, ZenonT(30)
  <2>2. CASE caSecret # NoCA
    <3>1. [r EXCEPT !.at = "ca"].at = "ca"
      BY ZenonT(30) DEF PassTypes, PassRecords
    <3>2. ctl' = [ctl EXCEPT ![c] = [r EXCEPT !.at = "ca"]]
      BY <1>2, <2>2, ZenonT(30) DEF MintCA, Goto
    <3> QED BY <3>1, <3>2, ZenonT(30)
  <2> QED BY <2>1, <2>2, ZenonT(30)
<1>6. PassOKThen(x)
  <2>1. CASE x.at = "serve" /\ x.i = 1
    BY <2>1, SecretOrder DEF PassOKThen, PassOK, Late
  <2> QED BY <1>5, <2>1, EarlyPassOK
<1>7. \A d \in Controllers : ctl'[d] = ctl[d] \/ \E q : q = ctl'[d] /\ PassOKThen(q)
  BY <1>5, <1>6, OnePass, ZenonT(30)
<1> QED BY <1>1, <1>3, <1>4, <1>7, HourTrust, ZenonT(30)

(* The gate's object and its endpoints are read.                            *)
LEMMA ListTrust ==
    ASSUME PassInv, FreshInv, TrustInv, NEW c \in Controllers,
           GetPosture(c) \/ ListEndpoints(c)
    PROVE  TrustInv'
<1>1. UNCHANGED <<pods, hs, api, now>> /\ serving' = serving
  BY ZenonT(30) DEF GetPosture, ListEndpoints, api
<1>2. PICK r \in PassTypes : r = ctl[c] /\ PassOK(r) /\ r.at \in {"gate", "list"}
  BY ZenonT(30) DEF PassInv, TrustInv, GetPosture, ListEndpoints
<1>3. CASE NextGate(c, TRUE)
  <2>1. ctl[c].at \in Late
    BY <1>2, ZenonT(30) DEF Late
  <2> QED BY <1>1, <1>3, <2>1, GateTrust, PassTrust, ZenonT(30)
<1>4. CASE ~NextGate(c, TRUE)
  <2>1. PICK x : /\ ctl' = [ctl EXCEPT ![c] = x]
                 /\ x.at = "list" \/ (x.at = "probe" /\ x.list = x.addrs)
    <3>1. CASE GetPosture(c)
      <4>1. [r EXCEPT !.at = "list"].at = "list"
        BY ZenonT(30) DEF PassTypes, PassRecords
      <4>2. ctl' = [ctl EXCEPT ![c] = [r EXCEPT !.at = "list"]]
        BY <1>2, <1>4, <3>1, ZenonT(30) DEF GetPosture, Goto
      <4> QED BY <4>1, <4>2, ZenonT(30)
    <3>2. CASE ListEndpoints(c)
      <4>1. PICK addrs : addrs = {p \in Pods : pods[p].ready /\ SecretOf[p] = Gate(c)}
        BY ZenonT(30)
      <4>2. PICK x : x = [r EXCEPT !.at = "probe", !.addrs = addrs, !.list = addrs]
        OBVIOUS
      <4>3. x.at = "probe" /\ x.list = x.addrs
        BY <4>2, ZenonT(30) DEF PassTypes, PassRecords
      <4>4. ctl' = [ctl EXCEPT ![c] = x]
        BY <1>2, <1>4, <3>2, <4>1, <4>2, ZenonT(30) DEF ListEndpoints
      <4> QED BY <4>3, <4>4, ZenonT(30)
    <3> QED BY <3>1, <3>2, ZenonT(30)
  <2>2. \A j \in DOMAIN Secrets : Lasts(Secrets[j])'
    BY <1>1, <1>2, ZenonT(30) DEF PassOK, Lasts, Late, Signing
  <2>3. PassOKThen(x)
    BY <2>1, <2>2, ZenonT(30) DEF PassOKThen, PassOK
  <2>4. passed' = passed
    BY <1>4, ZenonT(30) DEF GetPosture, ListEndpoints
  <2> QED BY <1>1, <2>1, <2>3, <2>4, OnePass, PassTrust, ZenonT(30)
<1> QED BY <1>3, <1>4, ZenonT(30)

(* A pass leaves everything to the next gate.                               *)
LEMMA NextGateTrust ==
    ASSUME PassInv, FreshInv, TrustInv, NEW c \in Controllers, NEW ok,
           ctl[c].at \in Late, NextGate(c, ok), UNCHANGED <<pods, api, now>>,
           \A d \in Dialers : hs'[d] = hs[d] \/ hs'[d] = NoShake
    PROVE  TrustInv'
<1>1. /\ stored' = stored /\ mints' = mints /\ serving' = serving /\ now' = now
      /\ posture' = posture /\ vetted' = vetted /\ pods' = pods
  BY ZenonT(30) DEF api
<1>2. /\ stored' \subseteq 1..mints' /\ DOMAIN vetted' = Range(Gates)
      /\ DOMAIN posture' = Range(Gates)
  BY <1>1, ZenonT(30) DEF TrustInv
<1>3. AnsweredThen(NoShake)
  BY ZenonT(30) DEF AnsweredThen, Answered, NoShake
<1>4. \A d \in Dialers : hs'[d] = hs[d] \/ \E h : h = hs'[d] /\ AnsweredThen(h)
  BY <1>3, ZenonT(30)
<1> QED BY <1>1, <1>2, <1>4, GateTrust, HourTrust, ZenonT(30)

-----------------------------------------------------------------------------
(* Handshakes and pods change; the files only to those of the Secret.       *)
LEMMA PodsTrust ==
    ASSUME PassInv, FreshInv, TrustInv, UNCHANGED <<api, ctl, now, passed>>,
           \A p \in Pods :
              \/ pods'[p].up = pods[p].up /\ pods'[p].mount = pods[p].mount
              \/ /\ pods'[p].up /\ pods'[p].mount = serving[SecretOf[p]]
                 /\ HasFiles(p) => HasFiles(p)',
           \A d \in Dialers : hs'[d] = hs[d] \/ \E h : h = hs'[d] /\ AnsweredThen(h)
    PROVE  TrustInv'
<1>1. /\ stored' = stored /\ mints' = mints /\ serving' = serving
      /\ posture' = posture /\ vetted' = vetted
  BY ZenonT(30) DEF api
<1>2. /\ stored' \subseteq 1..mints' /\ DOMAIN vetted' = Range(Gates)
      /\ DOMAIN posture' = Range(Gates)
  BY <1>1, ZenonT(30) DEF TrustInv
<1> QED BY <1>1, <1>2, HourTrust, ZenonT(30)

(* A handshake begins.                                                      *)
LEMMA HelloTrust ==
    ASSUME PassInv, FreshInv, TrustInv, UNCHANGED <<api, ctl, now, passed>>,
           NEW d \in Dialers, NEW p \in Pods, Hello(d, p)
    PROVE  TrustInv'
<1>1. PICK h : /\ hs' = [hs EXCEPT ![d] = h]
               /\ h.at = "check" \/ h.leaf = Bootstrap
  <2>1. CASE pods[p].mount = NoCert
    <3>1. PICK h : h = [at |-> "done", pod |-> p, newest |-> 0, leaf |-> Bootstrap]
      BY ZenonT(30)
    <3>2. h.leaf = Bootstrap
      BY <3>1, ZenonT(30)
    <3>3. hs' = [hs EXCEPT ![d] = h]
      BY <2>1, <3>1, ZenonT(30) DEF Hello
    <3> QED BY <3>2, <3>3, ZenonT(30)
  <2>2. CASE pods[p].mount # NoCert
    <3>1. PICK h : h = [at |-> "check", pod |-> p, leaf |-> NoCert,
                        newest |-> pods[p].mount.serial]
      BY ZenonT(30)
    <3>2. h.at = "check"
      BY <3>1, ZenonT(30)
    <3>3. hs' = [hs EXCEPT ![d] = h]
      BY <2>2, <3>1, ZenonT(30) DEF Hello
    <3> QED BY <3>2, <3>3, ZenonT(30)
  <2> QED BY <2>1, <2>2, ZenonT(30)
<1>2. AnsweredThen(h)
  BY <1>1, ZenonT(30) DEF AnsweredThen, Answered
<1>3. \A e \in Dialers : hs'[e] = hs[e] \/ hs'[e] = h
  BY <1>1, ZenonT(30) DEF FreshInv
<1> QED BY <1>2, <1>3, PodsTrust, ZenonT(30) DEF Hello

(* A handshake goes on: its pod has files since it began.                   *)
LEMMA ShakeTrust ==
    ASSUME PassInv, FreshInv, TrustInv, UNCHANGED <<api, ctl, now, passed>>,
           NEW d \in Dialers, ShakeStep(d)
    PROVE  TrustInv'
<1>1. PICK h \in ShakeTypes, p \in Pods :
        /\ h = hs[d] /\ p = h.pod /\ 1 <= h.newest /\ h.newest <= pods[p].mount.serial
  BY ZenonT(30) DEF FreshInv, ShakeOK, ShakeStep, Check, Lock, Load
<1>2. PICK r \in PodRecords(BOOLEAN) : r = pods[p]
  BY ZenonT(30) DEF FreshInv, PodsInv
<1>3. r.mount.serial \in Int /\ h.newest \in Int
  BY ZenonT(30) DEF PodRecords, ShakeTypes, Certs
<1>4. r.mount # NoCert
  BY <1>1, <1>2, <1>3 DEF NoCert
<1>5. PICK x : hs' = [hs EXCEPT ![d] = x] /\ x.pod = p
  <2>1. ASSUME NEW leaf PROVE [h EXCEPT !.at = "done", !.leaf = leaf].pod = p
    BY <1>1, ZenonT(30) DEF ShakeTypes
  <2>2. ASSUME NEW leaf PROVE [h EXCEPT !.at = "load", !.leaf = leaf].pod = p
    BY <1>1, ZenonT(30) DEF ShakeTypes
  <2>3. [h EXCEPT !.at = "wait"].pod = p
    BY <1>1, ZenonT(30) DEF ShakeTypes
  <2>4. ASSUME NEW leaf, Answer(d, leaf)
        PROVE  hs' = [hs EXCEPT ![d] = [h EXCEPT !.at = "done", !.leaf = leaf]]
    BY <1>1, <2>4, ZenonT(30) DEF Answer
  <2>5. CASE Check(d)
    <3>1. CASE Hit(d)
      BY <2>1, <2>4, <2>5, <3>1, ZenonT(30) DEF Check
    <3>2. CASE ~Hit(d)
      BY <1>1, <2>3, <2>5, <3>2, ZenonT(30) DEF Check
    <3> QED BY <3>1, <3>2, ZenonT(30)
  <2>6. CASE Lock(d)
    <3>1. CASE Hit(d)
      BY <2>1, <2>4, <2>6, <3>1, ZenonT(30) DEF Lock
    <3>2. CASE ~Hit(d)
      <4>1. hs' = [hs EXCEPT ![d] = [h EXCEPT !.at = "load", !.leaf = pods[p].mount]]
        BY <1>1, <2>6, <3>2, ZenonT(30) DEF Lock
      <4> QED BY <2>2, <4>1, ZenonT(30)
    <3> QED BY <3>1, <3>2, ZenonT(30)
  <2>7. CASE Load(d)
    <3>1. CASE pods[p].mount = h.leaf
      BY <1>1, <2>1, <2>4, <2>7, <3>1, ZenonT(30) DEF Load
    <3>2. CASE pods[p].mount # h.leaf
      BY <1>1, <2>1, <2>4, <2>7, <3>2, ZenonT(30) DEF Load
    <3> QED BY <3>1, <3>2, ZenonT(30)
  <2> QED BY <2>5, <2>6, <2>7, ZenonT(30) DEF ShakeStep
<1>6. PICK y : /\ pods' = pods \/ pods' = [pods EXCEPT ![p] = y]
               /\ y.up = r.up /\ y.mount = r.mount
  <2>1. CASE Check(d)
    BY <2>1, ZenonT(30) DEF Check
  <2>2. CASE Lock(d)
    <3>1. PICK y : y = [r EXCEPT !.lock = d]
      BY ZenonT(30)
    <3>2. y.up = r.up /\ y.mount = r.mount
      BY <3>1, ZenonT(30) DEF PodRecords
    <3>3. pods' = pods \/ pods' = [pods EXCEPT ![p] = y]
      BY <1>1, <1>2, <2>2, <3>1, ZenonT(30) DEF Lock
    <3> QED BY <3>2, <3>3, ZenonT(30)
  <2>3. CASE Load(d)
    <3>1. CASE r.mount = h.leaf
      <4>1. PICK y : y = [r EXCEPT !.cached = h.leaf, !.lock = NoOne, !.stamp = h.newest]
        OBVIOUS
      <4>2. y.up = r.up /\ y.mount = r.mount
        BY <4>1, ZenonT(30) DEF PodRecords
      <4>3. pods' = [pods EXCEPT ![p] = y]
        BY <1>1, <1>2, <2>3, <3>1, <4>1, ZenonT(30) DEF Load
      <4> QED BY <4>2, <4>3, ZenonT(30)
    <3>2. CASE r.mount # h.leaf
      <4>1. PICK y : y = [r EXCEPT !.lock = NoOne]
        BY ZenonT(30)
      <4>2. y.up = r.up /\ y.mount = r.mount
        BY <4>1, ZenonT(30) DEF PodRecords
      <4>3. pods' = [pods EXCEPT ![p] = y]
        BY <1>1, <1>2, <2>3, <3>2, <4>1, ZenonT(30) DEF Load
      <4> QED BY <4>2, <4>3, ZenonT(30)
    <3> QED BY <3>1, <3>2, ZenonT(30)
  <2> QED BY <2>1, <2>2, <2>3, ZenonT(30) DEF ShakeStep
<1>7. \A q \in Pods : pods'[q].up = pods[q].up /\ pods'[q].mount = pods[q].mount
  BY <1>2, <1>6, ZenonT(30) DEF FreshInv, PodsInv
<1>8. AnsweredThen(x)
  BY <1>2, <1>4, <1>5, <1>7, ZenonT(30) DEF AnsweredThen, Answered, HasFiles
<1>9. \A e \in Dialers : hs'[e] = hs[e] \/ hs'[e] = x
  BY <1>5, ZenonT(30) DEF FreshInv
<1> QED BY <1>7, <1>8, <1>9, PodsTrust, ZenonT(30)

(* A probe that the CA verifies met a pod with files.                       *)
LEMMA ProbedTrust ==
    ASSUME PassInv, FreshInv, TrustInv, NEW c \in Controllers, Dial(c) \/ Probed(c)
    PROVE  TrustInv'
<1>1. PICK r \in PassTypes : r = ctl[c] /\ PassOK(r) /\ r.at = "probe" /\ r.ca.id \in stored
  BY ZenonT(30) DEF PassInv, TrustInv, Dial, Probed, Signing
<1>2. ctl[c].at \in Late /\ c \in Dialers
  BY <1>1, CertAssumption, ZenonT(30) DEF Late
<1>3. CASE Dial(c)
  <2>1. PICK p \in ctl[c].addrs :
          IF pods[p].up
          THEN Hello(c, p) /\ UNCHANGED <<ctl, passed>>
          ELSE NextGate(c, TRUE) /\ UNCHANGED <<pods, hs>>
    BY <1>3, ZenonT(30) DEF Dial
  <2>2. p \in Pods
    BY <1>1, <2>1, ZenonT(30) DEF PassTypes, PassRecords
  <2>3. UNCHANGED <<api, now>>
    BY <1>3, ZenonT(30) DEF Dial
  <2> QED BY <1>2, <2>1, <2>2, <2>3, HelloTrust, NextGateTrust, ZenonT(30)
<1>4. CASE Probed(c)
  <2>1. UNCHANGED <<pods, api, now>> /\ serving' = serving
    BY <1>4, ZenonT(30) DEF Probed, api
  <2>2. \A d \in Dialers : hs'[d] = hs[d] \/ hs'[d] = NoShake
    BY <1>4, ZenonT(30) DEF Probed, FreshInv
  <2>3. CASE ~VerifyServedBy(hs[c].leaf, ctl[c].ca, now)
    BY <1>2, <1>4, <2>1, <2>2, <2>3, NextGateTrust, ZenonT(30) DEF Probed
  <2>4. CASE VerifyServedBy(hs[c].leaf, ctl[c].ca, now)
    <3>1. PICK q : q = hs[c].pod
      OBVIOUS
    <3>2. hs[c].leaf # Bootstrap
      <4>1. r.ca.id \in 1..mints
        BY <1>1, ZenonT(30) DEF TrustInv
      <4>0. mints \in Nat
        BY ZenonT(30) DEF PassInv
      <4>2. r.ca.id \in Int /\ 1 <= r.ca.id
        BY <4>0, <4>1
      <4>3. hs[c].leaf.ca = r.ca.id
        BY <1>1, <2>4, ZenonT(30) DEF VerifyServedBy
      <4>4. Bootstrap.ca = -1
        BY ZenonT(30) DEF Bootstrap
      <4>5. hs[c].leaf.ca # -1
        BY <4>2, <4>3
      <4> QED BY <4>4, <4>5, Zenon
    <3>3. HasFiles(q) /\ HasFiles(q)'
      BY <1>2, <1>4, <2>1, <3>1, <3>2, ZenonT(30) DEF Probed, TrustInv, Answered, HasFiles
    <3>4. PICK x : x = [r EXCEPT !.addrs = @ \ {q}]
      BY ZenonT(30)
    <3>5. x.at = "probe" /\ x.addrs = r.addrs \ {q} /\ x.list = r.list
      BY <1>1, <3>4, ZenonT(30) DEF PassTypes, PassRecords
    <3>6. ctl' = [ctl EXCEPT ![c] = x] /\ passed' = passed
      BY <1>1, <1>4, <2>4, <3>1, <3>4, ZenonT(30) DEF Probed
    <3>7. \A j \in DOMAIN Secrets : Lasts(Secrets[j])'
      BY <1>1, <2>1, ZenonT(30) DEF PassOK, Lasts, Late, Signing
    <3>8. \A p \in x.list \ x.addrs : HasFiles(p)'
      BY <1>1, <2>1, <3>3, <3>5, ZenonT(30) DEF PassOK, HasFiles
    <3>9. PassOKThen(x)
      BY <3>7, <3>8, ZenonT(30) DEF PassOKThen, PassOK
    <3>10. \A d \in Controllers : ctl'[d] = ctl[d] \/ \E z : z = ctl'[d] /\ PassOKThen(z)
      BY <3>6, <3>9, OnePass, ZenonT(30)
    <3>11. AnsweredThen(NoShake)
      BY ZenonT(30) DEF AnsweredThen, Answered, NoShake
    <3>12. \A d \in Dialers : hs'[d] = hs[d] \/ \E h : h = hs'[d] /\ AnsweredThen(h)
      BY <2>2, <3>11, ZenonT(30)
    <3>13. /\ stored' = stored /\ mints' = mints /\ now' = now
           /\ posture' = posture /\ vetted' = vetted /\ pods' = pods
      BY <2>1, ZenonT(30) DEF api
    <3>14. /\ stored' \subseteq 1..mints' /\ DOMAIN vetted' = Range(Gates)
           /\ DOMAIN posture' = Range(Gates)
      BY <3>13, ZenonT(30) DEF TrustInv
    <3> QED BY <2>1, <3>6, <3>10, <3>12, <3>13, <3>14, HourTrust, ZenonT(30)
  <2> QED BY <2>3, <2>4, ZenonT(30)
<1> QED BY <1>3, <1>4, ZenonT(30)

(* Commit: every address that is left of the list was probed.               *)
LEMMA CommitTrust ==
    ASSUME PassInv, FreshInv, TrustInv, NEW c \in Controllers, Commit(c)
    PROVE  TrustInv'
<1>0. PICK g : g = Gate(c)
  BY ZenonT(30)
<1>1. PICK r \in PassTypes :
        /\ r = ctl[c] /\ PassOK(r) /\ r.at = "probe" /\ r.addrs = {}
        /\ r.ca.id \in stored
  BY ZenonT(30) DEF PassInv, TrustInv, Commit, Signing
<1>2. UNCHANGED <<pods, hs, mints, serving, stored, now>> /\ ctl[c].at \in Late
  BY <1>1, ZenonT(30) DEF Commit, Late
<1>3. PICK po, ps : /\ po = Enforcing(r.ca) /\ ps = {p \in r.list : pods[p].up}
                    /\ posture' = [posture EXCEPT ![g] = po]
                    /\ vetted' = [vetted EXCEPT ![g] = ps]
  BY <1>0, <1>1, ZenonT(30) DEF Commit
<1>4. po.bundle = r.ca.id
  BY <1>3, ZenonT(30) DEF Enforcing
<1>5. \A p \in ps : p \in Pods /\ HasFiles(p)
  BY <1>1, <1>3, ZenonT(30) DEF PassOK, PassTypes, PassRecords
<1>6. GateOKThen(po, ps)
  BY <1>1, <1>2, <1>4, <1>5, ZenonT(30) DEF GateOKThen, GateOK, HasFiles
<1>7. \A f \in Range(Gates) :
         \/ vetted'[f] = vetted[f] /\ posture'[f] = posture[f]
         \/ posture'[f] = po /\ vetted'[f] = ps
  BY <1>3, ZenonT(30) DEF TrustInv
<1>8. DOMAIN vetted' = Range(Gates) /\ DOMAIN posture' = Range(Gates)
  BY <1>3, ZenonT(30) DEF TrustInv
<1>9. stored' \subseteq 1..mints'
  BY <1>2, ZenonT(30) DEF TrustInv
<1>10. NextGate(c, TRUE)
  BY ZenonT(30) DEF Commit
<1> QED BY <1>2, <1>6, <1>7, <1>8, <1>9, <1>10, GateTrust, HourTrust, ZenonT(30)

(* An API call fails, or the controller dies, or the lease moves.           *)
LEMMA FailTrust ==
    ASSUME PassInv, FreshInv, TrustInv, NEW c \in Controllers,
           CallFails(c) \/ Crash(c) \/ LeaseMoves(c)
    PROVE  TrustInv'
<1>1. PassOKThen(Idle)
  BY IdleType, EarlyPassOK
<1>2. c \in Dialers
  BY CertAssumption, ZenonT(30)
<1>3. CASE CallFails(c)
  <2>1. UNCHANGED <<pods, hs, api, now>>
    BY <1>3, ZenonT(30) DEF CallFails
  <2>2. CASE ctl' = [ctl EXCEPT ![c] = Idle] /\ UNCHANGED passed
    BY <1>1, <2>1, <2>2, OnePass, PassTrust, ZenonT(30)
  <2>3. CASE ctl[c].at \in Late /\ NextGate(c, FALSE)
    BY <2>1, <2>3, NextGateTrust, ZenonT(30)
  <2> QED BY <1>3, <2>2, <2>3, ZenonT(30) DEF CallFails, Late
<1>4. CASE Crash(c)
  <2>1. \A d \in Controllers : ctl'[d] = ctl[d] \/ \E r : r = ctl'[d] /\ PassOKThen(r)
    BY <1>1, <1>4, OnePass, ZenonT(30) DEF Crash
  <2>2. AnsweredThen(NoShake)
    BY ZenonT(30) DEF AnsweredThen, Answered, NoShake
  <2>3. \A d \in Dialers : hs'[d] = hs[d] \/ \E h : h = hs'[d] /\ AnsweredThen(h)
    BY <1>2, <1>4, <2>2, ZenonT(30) DEF Crash, FreshInv
  <2>4. /\ stored' = stored /\ mints' = mints /\ serving' = serving /\ now' = now
        /\ posture' = posture /\ vetted' = vetted /\ pods' = pods /\ passed' = passed
    BY <1>4, ZenonT(30) DEF Crash, api
  <2>5. /\ stored' \subseteq 1..mints' /\ DOMAIN vetted' = Range(Gates)
        /\ DOMAIN posture' = Range(Gates)
    BY <2>4, ZenonT(30) DEF TrustInv
  <2> QED BY <2>1, <2>3, <2>4, <2>5, HourTrust, ZenonT(30)
<1>5. CASE LeaseMoves(c)
  <2>1. UNCHANGED <<pods, hs, api, now, ctl>> /\ passed' = passed
    BY <1>5, ZenonT(30) DEF LeaseMoves
  <2> QED BY <2>1, PassTrust, ZenonT(30)
<1> QED BY <1>3, <1>4, <1>5, ZenonT(30)

(* The operator's acts.                                                     *)
LEMMA OperatorTrust ==
    ASSUME PassInv, FreshInv, TrustInv,
           \/ OperatorDeletesCA \/ OperatorDamagesCA
           \/ \E g \in Range(Gates) : OperatorApplies(g)
    PROVE  TrustInv'
<1>1. UNCHANGED <<pods, hs, ctl, mints, serving, stored, now, passed>>
  BY ZenonT(30) DEF OperatorDeletesCA, OperatorDamagesCA, OperatorApplies
<1>2. stored' \subseteq 1..mints'
  BY <1>1, ZenonT(30) DEF TrustInv
<1>3. GateOKThen(Shipped, {})
  BY ZenonT(30) DEF GateOKThen, GateOK
<1> DEFINE Moved == \A f \in Range(Gates) :
                       \/ vetted'[f] = vetted[f] /\ posture'[f] = posture[f]
                       \/ posture'[f] = Shipped /\ vetted'[f] = {}
           Doms  == DOMAIN vetted' = Range(Gates) /\ DOMAIN posture' = Range(Gates)
<1>4. CASE posture' = posture /\ vetted' = vetted
  BY <1>1, <1>2, <1>4, HourTrust, ZenonT(30) DEF TrustInv
<1>5. CASE \E g \in Range(Gates) : OperatorApplies(g)
  <2>1. PICK g \in Range(Gates) : /\ posture' = [posture EXCEPT ![g] = Shipped]
                                  /\ vetted' = [vetted EXCEPT ![g] = {}]
    BY <1>5, ZenonT(30) DEF OperatorApplies
  <2>2. Moved /\ Doms
    BY <2>1, ZenonT(30) DEF TrustInv
  <2> QED BY <1>1, <1>2, <1>3, <2>2, HourTrust, ZenonT(30)
<1> QED BY <1>4, <1>5, ZenonT(30) DEF OperatorDeletesCA, OperatorDamagesCA

(* A pod starts with the Secret's files or gets them, or becomes ready.     *)
LEMMA MountTrust ==
    ASSUME PassInv, FreshInv, TrustInv, NEW p \in Pods,
           PodStarts(p) \/ PodReady(p) \/ Kubelet(p)
    PROVE  TrustInv'
<1>1. UNCHANGED <<api, ctl, now, passed, hs>>
  BY ZenonT(30) DEF PodStarts, PodReady, Kubelet, env
<1>2. PICK leaf \in Certs : leaf = serving[SecretOf[p]]
  BY CertAssumption, ZenonT(30) DEF PassInv
<1>3. PICK r \in PodRecords(BOOLEAN) :
        /\ r = pods[p] /\ Numbered(r.mount) /\ NoLater(r.mount, leaf)
  BY <1>2, ZenonT(30) DEF FreshInv, PodsInv, PodOK
<1>4. ASSUME NEW y, pods' = [pods EXCEPT ![p] = y],
             \/ y.up = r.up /\ y.mount = r.mount
             \/ y.up /\ y.mount = leaf /\ (r.mount # NoCert => leaf # NoCert)
      PROVE  TrustInv'
  <2>1. pods'[p] = y /\ \A q \in Pods : q # p => pods'[q] = pods[q]
    BY <1>4, ZenonT(30) DEF FreshInv, PodsInv
  <2>2. \A q \in Pods :
           \/ pods'[q].up = pods[q].up /\ pods'[q].mount = pods[q].mount
           \/ /\ pods'[q].up /\ pods'[q].mount = serving[SecretOf[q]]
              /\ HasFiles(q) => HasFiles(q)'
    BY <1>2, <1>3, <1>4, <2>1, ZenonT(30) DEF HasFiles
  <2> QED BY <1>1, <2>2, PodsTrust, ZenonT(30)
<1>5. CASE PodStarts(p)
  <2>1. FreshPod(leaf).up /\ FreshPod(leaf).mount = leaf
    BY ZenonT(30) DEF FreshPod, DownPod
  <2>2. r.mount = NoCert
    BY <1>3, <1>5, ZenonT(30) DEF TrustInv, HasFiles, PodStarts
  <2> QED BY <1>2, <1>4, <1>5, <2>1, <2>2, ZenonT(30) DEF PodStarts
<1>6. CASE PodReady(p)
  <2>1. PICK y : y = [r EXCEPT !.ready = TRUE]
    BY ZenonT(30)
  <2>2. y.up = r.up /\ y.mount = r.mount
    BY <2>1, ZenonT(30) DEF PodRecords
  <2>3. pods' = [pods EXCEPT ![p] = y]
    BY <1>3, <1>6, <2>1, ZenonT(30) DEF PodReady
  <2> QED BY <1>4, <2>2, <2>3, ZenonT(30)
<1>7. CASE Kubelet(p)
  <2>1. PICK y : y = [r EXCEPT !.mount = leaf]
    BY ZenonT(30)
  <2>2. y.up = r.up /\ y.mount = leaf
    BY <2>1, ZenonT(30) DEF PodRecords
  <2>3. pods' = [pods EXCEPT ![p] = y] /\ r.up
    BY <1>2, <1>3, <1>7, <2>1, ZenonT(30) DEF Kubelet, Remount
  <2>4. r.mount # NoCert => leaf # NoCert
    <3>1. r.mount.serial \in Int /\ leaf.serial \in Int
      BY ZenonT(30) DEF PodRecords, Certs
    <3> QED BY <1>3, <3>1 DEF Numbered, NoLater, NoCert
  <2> QED BY <1>4, <2>2, <2>3, <2>4, ZenonT(30)
<1> QED BY <1>5, <1>6, <1>7, ZenonT(30)

(* A pod ends: its handshakes end, and it counts no longer as probed.       *)
LEMMA EndTrust ==
    ASSUME PassInv, FreshInv, TrustInv, NEW p \in Pods, PodEnds(p)
    PROVE  TrustInv'
<1>1. UNCHANGED <<mints, serving, posture, stored, now, passed>>
  BY ZenonT(30) DEF PodEnds
<1>2. pods'[p].mount = NoCert /\ \A q \in Pods : q # p => pods'[q] = pods[q]
  BY ZenonT(30) DEF PodEnds, DownPod, FreshInv, PodsInv
<1>3. \A s : Lasts(s)' <=> Lasts(s)
  BY <1>1, ZenonT(30) DEF Lasts
<1>4. ~HasFiles(p)' /\ \A q \in Pods : q # p => (HasFiles(q)' <=> HasFiles(q))
  BY <1>2, ZenonT(30) DEF HasFiles
<1>5. ASSUME NEW c \in Controllers PROVE PassOK(ctl[c])'
  <2>1. PICK r \in PassTypes : r = ctl[c] /\ PassOK(r)
    BY ZenonT(30) DEF PassInv, TrustInv
  <2>2. PICK x : x = [r EXCEPT !.list = @ \ {p}]
    BY ZenonT(30)
  <2>3. x.at = r.at /\ x.i = r.i /\ x.addrs = r.addrs /\ x.list = r.list \ {p}
    BY <2>2, ZenonT(30) DEF PassTypes, PassRecords
  <2>4. r.list \subseteq Pods
    BY ZenonT(30) DEF PassTypes, PassRecords
  <2>5. PassOK(x)'
    BY <1>3, <1>4, <2>1, <2>3, <2>4, ZenonT(30) DEF PassOK
  <2>6. ctl'[c] = x
    BY <2>1, <2>2, ZenonT(30) DEF PodEnds
  <2> QED BY <2>5, <2>6, ZenonT(30)
<1>6. ASSUME NEW d \in Dialers PROVE Answered(hs[d])'
  <2>1. CASE hs[d].pod = p
    <3>1. hs'[d] = NoShake
      BY <2>1, ZenonT(30) DEF PodEnds, HangUp
    <3> QED BY <3>1 DEF Answered, NoShake
  <2>2. CASE hs[d].pod # p
    <3>1. hs'[d] = hs[d]
      BY <2>2, ZenonT(30) DEF PodEnds, HangUp
    <3>2. hs[d].at # "none" => hs[d].pod \in Pods
      BY ZenonT(30) DEF FreshInv, ShakeOK
    <3> QED BY <1>4, <2>2, <3>1, <3>2, ZenonT(30) DEF TrustInv, Answered
  <2> QED BY <2>1, <2>2, ZenonT(30)
<1>7. \A g \in Range(Gates) : vetted'[g] = vetted[g] \ {p}
  BY ZenonT(30) DEF PodEnds
<1>8. \A g \in Range(Gates) : GateOK(posture[g], vetted[g])'
  BY <1>1, <1>4, <1>7, ZenonT(30) DEF TrustInv, GateOK
<1>9. DOMAIN vetted' = Range(Gates) /\ DOMAIN posture' = Range(Gates)
  BY <1>1, ZenonT(30) DEF PodEnds, TrustInv
<1>10. \A q \in Pods : HasFiles(q)' =>
          pods'[q].up /\ pods'[q].mount.ca \in stored' /\ now' <= pods'[q].mount.until
  BY <1>1, <1>2, <1>4, ZenonT(30) DEF TrustInv
<1>11. /\ stored' \subseteq 1..mints'
       /\ \A s \in Range(Secrets) : serving'[s] # NoCert => now' <= serving'[s].until
       /\ passed' => \A s \in Range(Secrets) : Lasts(s)'
  BY <1>1, <1>3, ZenonT(30) DEF TrustInv
<1> QED BY <1>5, <1>6, <1>8, <1>9, <1>10, <1>11, ZenonT(30) DEF TrustInv

(* The hour ends: every certificate had more than it to live.               *)
LEMMA TickTrust ==
    ASSUME PassInv, FreshInv, TrustInv, Tick
    PROVE  TrustInv'
<1>1. /\ now' = now + 1 /\ passed' = FALSE
      /\ UNCHANGED <<pods, hs, ctl, mints, serving, posture, stored, vetted>>
  BY ZenonT(30) DEF Tick, api
<1>2. \A s \in Range(Secrets) : now' <= serving[s].until
  <2>1. passed /\ \A s \in Range(Secrets) : Lasts(s)
    BY ZenonT(30) DEF Tick, TrustInv
  <2>2. ASSUME NEW s \in Range(Secrets) PROVE now + 1 <= serving[s].until
    <3>1. PICK u : u = serving[s].until
      OBVIOUS
    <3>2. now \in Nat /\ u \in Int
      BY <3>1, ZenonT(30) DEF PassInv, Certs
    <3>3. u > now
      BY <2>1, <3>1, ZenonT(30) DEF Lasts
    <3> QED BY <3>1, <3>2, <3>3
  <2> QED BY <1>1, <2>2, ZenonT(30)
<1>3. \A c \in Controllers : PassOK(ctl[c])'
  BY <1>1, ZenonT(30) DEF Tick, PassOK, Signing
<1>4. ASSUME NEW p \in Pods, HasFiles(p)'
      PROVE  pods'[p].up /\ pods'[p].mount.ca \in stored' /\ now' <= pods'[p].mount.until
  <2>1. pods[p].up /\ pods[p].mount.ca \in stored
    BY <1>1, <1>4, ZenonT(30) DEF TrustInv, HasFiles
  <2>2. pods[p].mount = serving[SecretOf[p]] /\ SecretOf[p] \in Range(Secrets)
    BY <2>1, CertAssumption, ZenonT(30) DEF Tick
  <2> QED BY <1>1, <1>2, <2>1, <2>2, ZenonT(30)
<1>5. \A d \in Dialers : Answered(hs[d])'
  <2>1. ASSUME NEW d \in Dialers PROVE hs[d] = NoShake
    BY ZenonT(30) DEF Tick
  <2> QED BY <1>1, <2>1 DEF Answered, NoShake
<1>6. \A g \in Range(Gates) : GateOK(posture[g], vetted[g])'
  BY <1>1, ZenonT(30) DEF TrustInv, GateOK, HasFiles
<1>7. /\ stored' \subseteq 1..mints' /\ DOMAIN vetted' = Range(Gates)
      /\ DOMAIN posture' = Range(Gates)
      /\ \A s \in Range(Secrets) : serving'[s] # NoCert => now' <= serving'[s].until
  BY <1>1, <1>2, ZenonT(30) DEF TrustInv
<1> QED BY <1>1, <1>3, <1>4, <1>5, <1>6, <1>7, ZenonT(30) DEF TrustInv

(* Every step keeps the invariant.                                          *)
LEMMA TrustStep ==
    ASSUME PassInv, FreshInv, TrustInv, [Next]_vars
    PROVE  TrustInv'
<1>1. ASSUME NEW c \in Controllers, Begin(c) \/ ControllerStep(c) PROVE TrustInv'
  BY <1>1, GetCATrust, MintTrust, GetServingTrust, IssueTrust, ListTrust, ProbedTrust,
     CommitTrust, ZenonT(30) DEF ControllerStep
<1>2. ASSUME NEW c \in Controllers, CallFails(c) \/ Crash(c) \/ LeaseMoves(c)
      PROVE  TrustInv'
  BY <1>2, FailTrust, ZenonT(30)
<1>3. ASSUME NEW k \in Clients, ClientHello(k) \/ ClientDone(k) PROVE TrustInv'
  <2>1. k \in Dialers
    BY CertAssumption, ZenonT(30)
  <2>2. UNCHANGED <<api, ctl, now, passed>>
    BY <1>3, ZenonT(30) DEF ClientHello, ClientDone, env
  <2>3. CASE ClientHello(k)
    BY <2>1, <2>2, <2>3, HelloTrust, ZenonT(30) DEF ClientHello
  <2>4. CASE ClientDone(k)
    <3>1. AnsweredThen(NoShake)
      BY ZenonT(30) DEF AnsweredThen, Answered, NoShake
    <3>2. pods' = pods /\ \A d \in Dialers : hs'[d] = hs[d] \/ hs'[d] = NoShake
      BY <2>4, ZenonT(30) DEF ClientDone, FreshInv
    <3> QED BY <2>2, <3>1, <3>2, PodsTrust, ZenonT(30)
  <2> QED BY <1>3, <2>3, <2>4, ZenonT(30)
<1>4. ASSUME NEW d \in Dialers, Shake(d) PROVE TrustInv'
  <2>1. ShakeStep(d) /\ UNCHANGED <<api, ctl, now, passed>>
    BY <1>4, ZenonT(30) DEF Shake, env
  <2> QED BY <2>1, ShakeTrust, ZenonT(30)
<1>5. CASE UNCHANGED vars
  <2>1. UNCHANGED <<pods, hs, api, now, ctl>> /\ passed' = passed
    BY <1>5, ZenonT(30) DEF vars, env
  <2> QED BY <2>1, PassTrust, ZenonT(30)
<1> QED BY <1>1, <1>2, <1>3, <1>4, <1>5, OperatorTrust, MountTrust, EndTrust, TickTrust, ZenonT(30) DEF Next

(* The invariant holds at the start.                                        *)
LEMMA TrustInit == Init => TrustInv
<1> SUFFICES ASSUME Init PROVE TrustInv
  OBVIOUS
<1>1. \A c \in Controllers : PassOK(ctl[c])
  BY IdleType, EarlyPassOK DEF Init
<1>2. \A d \in Dialers : Answered(hs[d])
  BY ZenonT(30) DEF Init, Answered, NoShake
<1>3. \A p \in Pods : ~HasFiles(p)
  BY ZenonT(30) DEF Init, HasFiles, DownPod
<1>4. DOMAIN vetted = Range(Gates) /\ DOMAIN posture = Range(Gates)
  BY ZenonT(30) DEF Init
<1>5. \A g \in Range(Gates) : GateOK(posture[g], vetted[g])
  BY ZenonT(30) DEF Init, GateOK
<1>6. /\ stored \subseteq 1..mints /\ ~passed
      /\ \A s \in Range(Secrets) : serving[s] = NoCert
  BY ZenonT(30) DEF Init
<1> QED BY <1>1, <1>2, <1>3, <1>4, <1>5, <1>6, ZenonT(30) DEF TrustInv

(* The gates: while there has been one CA, a pod that was probed for the    *)
(* commit in force keeps files that the committed bundle verifies, through  *)
(* every renewal, crash and change of leader.                               *)
THEOREM ProbedPodsTrusted == Spec => []ProbedPodsStayTrusted
<1>1. TrustInv /\ PassInv => ProbedPodsStayTrusted
  <2> SUFFICES ASSUME TrustInv, PassInv, mints <= 1,
                      NEW g \in Range(Gates), NEW p \in vetted[g]
               PROVE  pods[p].mount.ca = posture[g].bundle /\ now <= pods[p].mount.until
    BY ZenonT(30) DEF ProbedPodsStayTrusted
  <2>1. stored \subseteq {1}
    <3>1. mints \in Nat /\ stored \subseteq 1..mints
      BY ZenonT(30) DEF TrustInv, PassInv
    <3> QED BY <3>1
  <2>2. p \in Pods /\ HasFiles(p) /\ posture[g].bundle \in stored
    BY ZenonT(30) DEF TrustInv, GateOK
  <2>3. pods[p].mount.ca \in stored /\ now <= pods[p].mount.until
    BY <2>2, ZenonT(30) DEF TrustInv
  <2> QED BY <2>1, <2>2, <2>3, ZenonT(30)
<1>2. Init => PassInv /\ FreshInv /\ TrustInv
  BY PassInit, FreshInit, TrustInit, ZenonT(30)
<1>3. PassInv /\ FreshInv /\ TrustInv /\ [Next]_vars => (PassInv /\ FreshInv /\ TrustInv)'
  BY PassStep, FreshStep, TrustStep, ZenonT(30)
<1> QED BY <1>1, <1>2, <1>3, PTL DEF Spec
=============================================================================
