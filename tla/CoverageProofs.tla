--------------------------- MODULE CoverageProofs ---------------------------
(***************************************************************************)
(* For every cluster and every set of CRs: an overlap that specsAgree lets *)
(* pass is harmless, also to the running reconciler, and                   *)
(* observedGeneration is the generation of a spec the Dispatcher has been  *)
(* given and never goes back.                                              *)
(*                                                                         *)
(* The generations rest on GenInv: of each CR, the generation that was     *)
(* applied, the one that was listed, the cached one and the one of the API *)
(* server come in this order, wherever the object exists; and a CR that    *)
(* was never created has not been listed, cached or applied.  The running  *)
(* reconciler needs ViewInv besides: while no reconcile is queued, what it *)
(* listed, sent and wrote is what the cache shows.                         *)
(***************************************************************************)
EXTENDS Coverage, FiniteSetTheorems, TLAPS

-----------------------------------------------------------------------------
(* Types.                                                                  *)

\* A function on the fields of a status, with values of their types.
LEMMA StatusFromFields ==
    ASSUME NEW g, g = [f \in StatusFields |-> g[f]],
           g.generation \in Nat, g.matched \in Nat, g.active \in Nat,
           g.sample \in SUBSET Pods, g.conflicts \in SUBSET CRs,
           g.conditions \in [reason : Reasons, against : SUBSET CRs]
    PROVE  g \in Statuses
<1>1. StatusFields = {"generation", "matched", "active", "sample", "conflicts",
                      "conditions"}
  BY ZenonT(30) DEF StatusFields, EmptyStatus
<1>2. g = [generation |-> g.generation, matched |-> g.matched,
           active |-> g.active, sample |-> g.sample, conflicts |-> g.conflicts,
           conditions |-> g.conditions]
  BY <1>1, ZenonT(30)
<1>3. QED
  BY <1>2, ZenonT(30) DEF Statuses

\* A merge patch of two statuses, applied to a third, is a status.
LEMMA PatchTyped ==
    ASSUME NEW base, NEW want \in Statuses, NEW cur \in Statuses, NEW restamp
    PROVE  MergePatch(base, want, cur, restamp) \in Statuses
<1> DEFINE g == MergePatch(base, want, cur, restamp)
<1>1. g = [f \in StatusFields |-> g[f]]
  BY ZenonT(30) DEF MergePatch
<1>2. \A f \in StatusFields : g[f] \in {want[f], cur[f]}
  BY ZenonT(30) DEF MergePatch
<1>3. {"generation", "matched", "active", "sample", "conflicts", "conditions"}
        \subseteq StatusFields
  BY ZenonT(30) DEF StatusFields, EmptyStatus
<1> HIDE DEF g
<1>4. /\ g.generation \in Nat /\ g.matched \in Nat /\ g.active \in Nat
      /\ g.sample \in SUBSET Pods /\ g.conflicts \in SUBSET CRs
      /\ g.conditions \in [reason : Reasons, against : SUBSET CRs]
  BY <1>2, <1>3, ZenonT(30) DEF Statuses
<1>5. QED
  BY <1>1, <1>4, StatusFromFields, ZenonT(30) DEF g

\* Conflicts names CRs only.
LEMMA ConflictsTyped ==
    ASSUME NEW v, NEW c PROVE Conflicts(v, c) \in SUBSET CRs
<1>1. \A p : Candidates(v, p) \subseteq CRs
  BY ZenonT(30) DEF Candidates, CRs
<1>2. QED
  BY <1>1, ZenonT(30) DEF Conflicts

\* makeDesired yields a status, whatever view it is given.
LEMMA DesiredTyped ==
    ASSUME NEW o, o.gen \in Nat, NEW v, NEW c, NEW act
    PROVE  makeDesired(o, v, c, act) \in Statuses
<1>1. \A S \in SUBSET Pods : Cardinality(S) \in Nat
  BY PodsAssumption, FS_Subset, FS_CardinalityType, ZenonT(30)
<1>2. MatchedPods(v, c) \in SUBSET Pods /\ CoveredPods(v, c) \in SUBSET Pods
  BY ZenonT(30) DEF MatchedPods, CoveredPods
<1>3. /\ Cardinality(MatchedPods(v, c)) \in Nat
      /\ Cardinality(CoveredPods(v, c) \cap act) \in Nat
      /\ Sample(CoveredPods(v, c)) \in SUBSET Pods
  BY <1>1, <1>2, ZenonT(30) DEF Sample
<1>4. QED
  BY <1>3, ConflictsTyped, ZenonT(30) DEF makeDesired, Statuses, Reasons

\* The status a CR is created with is a status.
LEMMA EmptyTyped == EmptyStatus \in Statuses
BY ZenonT(30) DEF EmptyStatus, Statuses, Reasons

\* TypeOK is not inductive: WriteStatuses reads the generation of a listed CR.
TodoListed == engine = "write" => \A c \in todo : snap.crs[c] # NoCR
TypeInv == TypeOK /\ TodoListed

\* Init establishes it: the boot clusters are well typed, and nothing is listed.
LEMMA TypeInit == Init => TypeInv
<1> SUFFICES ASSUME Init PROVE TypeInv
  OBVIOUS
<1>1. PICK b \in Boots :
        /\ pods = b.pods
        /\ crs = [c \in CRs |-> IF b.specs[c] = NoCR THEN NoCR
                                ELSE Object(b.specs[c], 1, EmptyStatus)]
  BY ZenonT(30) DEF Init
<1>2. b.pods \in [Pods -> PodStates] /\ b.specs \in [CRs -> CRSpecs \cup {NoCR}]
  BY BootsAssumption, ZenonT(30) DEF PodStates
<1>3. \A s \in CRSpecs : Object(s, 1, EmptyStatus) \in Objects
  BY EmptyTyped, ZenonT(30) DEF Object, Objects
<1>4. crs \in [CRs -> MaybeObjects]
  BY <1>1, <1>2, <1>3, ZenonT(30) DEF MaybeObjects
<1>5. NoLists \in [pods : [Pods -> PodStates], crs : [CRs -> MaybeObjects]]
  BY ZenonT(30) DEF NoLists, PodStates, MaybeObjects
<1>6. QED
  BY <1>1, <1>2, <1>4, <1>5, ZenonT(30) DEF Init, TypeOK, TypeInv, TodoListed

\* Every action keeps the types; only a write of a status takes an argument.
LEMMA TypeStep == TypeInv /\ [Next]_vars => TypeInv'
<1> SUFFICES ASSUME TypeOK, TodoListed, [Next]_vars PROVE TypeOK' /\ TodoListed'
  BY ZenonT(30) DEF TypeInv
<1>1. ASSUME NEW p \in Pods, NEW l \in PodStates, PodChange(p, l) PROVE TypeOK'
  BY <1>1 DEF PodChange, TypeOK, cache, run, dispatch
<1>2. ASSUME NEW c \in CRs, NEW s \in CRSpecs, CRWrite(c, s) PROVE TypeOK'
  <2>1. Object(s, 1, EmptyStatus) \in Objects
    BY EmptyTyped, ZenonT(30) DEF Object, Objects
  <2>2. crs[c] # NoCR => Object(s, crs[c].gen + 1, crs[c].status) \in Objects
    BY DEF TypeOK, MaybeObjects, Objects, Object
  <2>3. crs' \in [CRs -> MaybeObjects]
    BY <1>2, <2>1, <2>2, ZenonT(30) DEF CRWrite, TypeOK, MaybeObjects
  <2>4. QED
    BY <1>2, <2>3 DEF CRWrite, TypeOK, cache, run, dispatch
<1>3. ASSUME NEW c \in CRs, CRDelete(c) PROVE TypeOK'
  <2>1. crs' \in [CRs -> MaybeObjects]
    BY <1>3, ZenonT(30) DEF CRDelete, TypeOK, MaybeObjects
  <2>2. QED
    BY <1>3, <2>1 DEF CRDelete, TypeOK, cache, run, dispatch
<1>4. ASSUME Watch PROVE TypeOK'
  BY <1>4, ZenonT(30) DEF Watch, CachePod, CacheCR, TypeOK, api, run, dispatch
<1>5. ASSUME Resync PROVE TypeOK'
  BY <1>5, ZenonT(30) DEF Resync, TypeOK, api, cache, run, dispatch
<1>6. ASSUME Report PROVE TypeOK'
  BY <1>6, ZenonT(30) DEF Report, AgentReport, TypeOK, api, cache, run, dispatch
<1>7. ASSUME ListPods PROVE TypeOK'
  BY <1>7, ZenonT(30) DEF ListPods, TypeOK, api, cache, dispatch
<1>8. \A S : Read(S) \in [CRs -> MaybeObjects]
  BY ZenonT(30) DEF Read, TypeOK
<1>9. ASSUME ListMonitors PROVE TypeOK'
  BY <1>8, <1>9, ZenonT(30) DEF ListMonitors, TypeOK, api, cache, dispatch
<1>10. ASSUME ListPoliciesAndApply PROVE TypeOK'
  <2>1. snap' \in [pods : [Pods -> PodStates], crs : [CRs -> MaybeObjects]]
    BY <1>8, <1>10, ZenonT(30) DEF ListPoliciesAndApply, TypeOK
  <2>2. \A c \in CRs : snap'.crs[c] # NoCR => snap'.crs[c].gen \in Nat
    BY <2>1, ZenonT(30) DEF MaybeObjects, Objects
  <2>3. applied' \in [CRs -> Nat]
    BY <1>10, <2>2, ZenonT(30) DEF ListPoliciesAndApply, TypeOK
  <2>4. QED
    BY <1>10, <2>1, <2>3, ZenonT(30) DEF ListPoliciesAndApply, TypeOK, api, cache
<1>11. ASSUME NEW c \in CRs, WriteStatus(c) PROVE TypeOK'
  <2>1. c \in todo /\ snap.crs[c] # NoCR
    BY <1>11, ZenonT(30) DEF WriteStatus, Turn, TodoListed
  <2>2. snap.crs[c].gen \in Nat
    BY <2>1, ZenonT(30) DEF TypeOK, MaybeObjects, Objects
  <2>3. Desired(c) \in Statuses
    BY <2>2, DesiredTyped, ZenonT(30) DEF Desired
  <2>4. crs' \in [CRs -> MaybeObjects]
    <3>1. ASSUME crs[c] # NoCR, NEW base, NEW restamp,
                 crs' = [crs EXCEPT ![c].status =
                            MergePatch(base, Desired(c), @, restamp)]
          PROVE  crs' \in [CRs -> MaybeObjects]
      <4>1. crs[c] \in Objects
        BY <3>1, ZenonT(30) DEF TypeOK, MaybeObjects
      <4>2. MergePatch(base, Desired(c), crs[c].status, restamp) \in Statuses
        BY <4>1, <2>3, PatchTyped, ZenonT(30) DEF Objects
      <4>3. \A st \in Statuses : [crs[c] EXCEPT !.status = st] \in Objects
        BY <4>1, ZenonT(30) DEF Objects
      <4>4. QED
        BY <3>1, <4>2, <4>3, ZenonT(30) DEF TypeOK, MaybeObjects
    <3>2. QED
      BY <3>1, <1>11, ZenonT(30) DEF WriteStatus, TypeOK
  <2>5. faults' \in Nat /\ failed' \in BOOLEAN
    <3>1. \/ UNCHANGED <<faults, failed>>
          \/ faults' \in {faults, faults + 1} /\ failed' = TRUE
      BY <1>11, ZenonT(30) DEF WriteStatus
    <3>2. faults \in Nat /\ failed \in BOOLEAN
      BY ZenonT(30) DEF TypeOK
    <3>3. faults' \in Nat
      BY <3>1, <3>2
    <3>4. failed' \in BOOLEAN
      BY <3>1, <3>2, Zenon
    <3>5. QED
      BY <3>3, <3>4, ZenonT(30)
  <2>6. QED
    BY <1>11, <2>4, <2>5, ZenonT(30) DEF WriteStatus, TypeOK, cache, dispatch
<1>12. ASSUME Return PROVE TypeOK'
  <2>1. NoLists \in [pods : [Pods -> PodStates], crs : [CRs -> MaybeObjects]]
    BY ZenonT(30) DEF NoLists, PodStates, MaybeObjects
  <2>2. QED
    BY <1>12, <2>1, ZenonT(30) DEF Return, TypeOK, api, cache, dispatch
<1>13. ASSUME UNCHANGED vars PROVE TypeOK'
  BY <1>13, ZenonT(30) DEF vars, TypeOK, api, cache, run, dispatch
<1>14. TypeOK'
  BY <1>1, <1>2, <1>3, <1>4, <1>5, <1>6, <1>7, <1>9, <1>10, <1>11, <1>12, <1>13, ZenonT(30)
  DEF Next, EngineStep
<1>15. TodoListed'
  <2>1. CASE ListPoliciesAndApply
    BY <2>1, ZenonT(30) DEF ListPoliciesAndApply, TodoListed
  <2>2. CASE ListPods \/ ListMonitors \/ Return
    BY <2>2, ZenonT(30) DEF ListPods, ListMonitors, Return, TodoListed
  <2>3. ASSUME NEW c \in CRs, WriteStatus(c) PROVE TodoListed'
    BY <2>3, ZenonT(30) DEF WriteStatus, TodoListed
  <2>4. CASE UNCHANGED <<engine, snap, todo>>
    BY <2>4, ZenonT(30) DEF TodoListed
  <2>5. EngineStep \/ UNCHANGED <<engine, snap, todo>>
    BY ZenonT(30) DEF Next, Resync, Watch, CachePod, CacheCR, Report, AgentReport,
           PodChange, CRWrite, CRDelete, run, vars
  <2>6. QED
    BY <2>1, <2>2, <2>3, <2>4, <2>5, ZenonT(30) DEF EngineStep
<1>16. QED
  BY <1>14, <1>15, ZenonT(30)

\* Every reachable state of the reconciler, its cache and the API server is
\* well typed: in particular a patch never leaves a status without a field.
THEOREM TypeCorrect == Spec => []TypeOK
<1>1. TypeInv => TypeOK
  BY ZenonT(30) DEF TypeInv
<1>2. QED
  BY <1>1, TypeInit, TypeStep, PTL DEF Spec

-----------------------------------------------------------------------------
(* Generations.                                                            *)

\* The order of the generations of c.
GenOrder(c) ==
    /\ crs[c] # NoCR =>
          /\ crs[c].status.generation <= applied[c]
          /\ applied[c] <= crs[c].gen
          /\ ccrs[c] # NoCR => ccrs[c].gen <= crs[c].gen
          /\ snap.crs[c] # NoCR => snap.crs[c].gen <= crs[c].gen
    /\ ccrs[c] # NoCR =>
          /\ applied[c] <= ccrs[c].gen
          /\ snap.crs[c] # NoCR => snap.crs[c].gen <= ccrs[c].gen
    /\ crs[c] = NoCR /\ c \notin gone =>
          applied[c] = 0 /\ ccrs[c] = NoCR /\ snap.crs[c] = NoCR
    /\ c \in gone => crs[c] = NoCR

\* How far the current Recompute has got with c.
GenListed(c) ==
    /\ engine = "monitors" /\ c \in Monitors /\ snap.crs[c] # NoCR =>
          applied[c] <= snap.crs[c].gen
    /\ engine = "write" /\ snap.crs[c] # NoCR => applied[c] = snap.crs[c].gen

GenInv == \A c \in CRs : GenOrder(c) /\ GenListed(c)

\* The initial objects have generation 1, and nothing is listed or applied.
LEMMA GenInit == Init => GenInv
<1> SUFFICES ASSUME Init, NEW c \in CRs PROVE GenOrder(c) /\ GenListed(c)
  BY ZenonT(30) DEF GenInv
<1>1. PICK b \in Boots :
        crs = [d \in CRs |-> IF b.specs[d] = NoCR THEN NoCR
                             ELSE Object(b.specs[d], 1, EmptyStatus)]
  BY ZenonT(30) DEF Init
<1>2. crs[c] # NoCR => crs[c].gen = 1 /\ crs[c].status.generation = 0
  BY <1>1, ZenonT(30) DEF Object, EmptyStatus
<1>3. snap.crs[c] = NoCR /\ applied[c] = 0 /\ ccrs = crs /\ gone = {}
  BY ZenonT(30) DEF Init, NoLists
<1>4. QED
  BY <1>2, <1>3 DEF GenOrder, GenListed

\* The generations of a well-typed state are numbers.
LEMMA GenNat ==
    ASSUME TypeOK, NEW c \in CRs
    PROVE  /\ applied[c] \in Nat
           /\ crs[c] # NoCR => crs[c].gen \in Nat /\ crs[c].status.generation \in Nat
           /\ ccrs[c] # NoCR => ccrs[c].gen \in Nat
           /\ snap.crs[c] # NoCR => snap.crs[c].gen \in Nat
<1>1. \A o \in MaybeObjects :
         o # NoCR => o.gen \in Nat /\ o.status.generation \in Nat
  BY ZenonT(30) DEF MaybeObjects, Objects, Statuses
<1>2. QED
  BY <1>1, ZenonT(30) DEF TypeOK

\* A patch writes the generation that was listed, or leaves the one there is.
LEMMA PatchGeneration ==
    ASSUME NEW base, NEW c, NEW cur, NEW restamp
    PROVE  MergePatch(base, Desired(c), cur, restamp).generation
              \in {snap.crs[c].gen, cur.generation}
<1>1. "generation" \in StatusFields
  BY ZenonT(30) DEF StatusFields, EmptyStatus
<1>2. Desired(c).generation = snap.crs[c].gen
  BY ZenonT(30) DEF Desired, makeDesired
<1>3. QED
  BY <1>1, <1>2, ZenonT(30) DEF MergePatch

\* What the write of a status does to the generations of the CR it writes.
LEMMA WriteGenerations ==
    ASSUME TypeInv, NEW c \in CRs, WriteStatus(c)
    PROVE  /\ snap.crs[c] # NoCR
           /\ \A d \in CRs : d # c => crs'[d] = crs[d]
           /\ crs[c] = NoCR => crs'[c] = NoCR
           /\ crs[c] # NoCR =>
                 /\ crs'[c] # NoCR /\ crs'[c].gen = crs[c].gen
                 /\ crs'[c].status.generation
                       \in {snap.crs[c].gen, crs[c].status.generation}
<1>1. engine = "write" /\ c \in todo /\ snap.crs[c] # NoCR
  BY ZenonT(30) DEF WriteStatus, Turn, TypeInv, TodoListed
<1>2. CASE crs' = crs
  BY <1>1, <1>2, ZenonT(30)
<1>3. ASSUME crs[c] # NoCR, NEW base, NEW restamp,
             crs' = [crs EXCEPT ![c].status =
                        MergePatch(base, Desired(c), @, restamp)]
      PROVE  /\ \A d \in CRs : d # c => crs'[d] = crs[d]
             /\ crs'[c] # NoCR /\ crs'[c].gen = crs[c].gen
             /\ crs'[c].status.generation
                   \in {snap.crs[c].gen, crs[c].status.generation}
  <2> DEFINE st == MergePatch(base, Desired(c), crs[c].status, restamp)
  <2>1. crs[c] \in Objects /\ crs \in [CRs -> MaybeObjects]
    BY <1>3, ZenonT(30) DEF TypeInv, TypeOK, MaybeObjects
  <2>2. crs' = [crs EXCEPT ![c] = [crs[c] EXCEPT !.status = st]]
    BY <1>3, ZenonT(30)
  <2>3. st.generation \in {snap.crs[c].gen, crs[c].status.generation}
    BY PatchGeneration, ZenonT(30)
  <2> HIDE DEF st
  <2>4. crs'[c] = [crs[c] EXCEPT !.status = st]
    BY <2>1, <2>2, ZenonT(30)
  <2>5. crs'[c].gen = crs[c].gen /\ crs'[c].status = st
    BY <2>1, <2>4, ZenonT(30) DEF Objects
  <2>6. crs'[c] # NoCR
    <3>1. snap.crs[c].gen \in Nat
      BY <1>1, GenNat, ZenonT(30) DEF TypeInv
    <3>2. Desired(c) \in Statuses
      BY <3>1, DesiredTyped, ZenonT(30) DEF Desired
    <3>3. st \in Statuses
      BY <2>1, <3>2, PatchTyped, ZenonT(30) DEF st, Objects
    <3>4. crs'[c] \in Objects
      BY <2>1, <2>4, <3>3, ZenonT(30) DEF Objects
    <3>5. QED
      BY <3>4, NoCRAssumption, ZenonT(30)
  <2>7. \A d \in CRs : d # c => crs'[d] = crs[d]
    BY <2>1, <2>2, ZenonT(30)
  <2>8. QED
    BY <2>3, <2>5, <2>6, <2>7, ZenonT(30)
<1>4. QED
  BY <1>1, <1>2, <1>3 DEF WriteStatus

\* One step per action; an action touches the generations of one CR, or the
\* lists and what was applied of all of them.
LEMMA GenStep == TypeInv /\ TypeInv' /\ GenInv /\ [Next]_vars => GenInv'
<1> SUFFICES ASSUME TypeInv, TypeInv', GenInv, [Next]_vars, NEW c \in CRs
             PROVE  GenOrder(c)' /\ GenListed(c)'
  BY ZenonT(30) DEF GenInv
<1>1. GenOrder(c) /\ GenListed(c)
  BY ZenonT(30) DEF GenInv
<1>2. /\ applied[c] \in Nat
      /\ crs[c] # NoCR => crs[c].gen \in Nat /\ crs[c].status.generation \in Nat
      /\ ccrs[c] # NoCR => ccrs[c].gen \in Nat
      /\ snap.crs[c] # NoCR => snap.crs[c].gen \in Nat
  BY GenNat, ZenonT(30) DEF TypeInv
<1>3. CASE UNCHANGED <<crs, ccrs, snap, applied, gone, engine>>
  BY <1>1, <1>3, ZenonT(30) DEF GenOrder, GenListed
<1>4. ASSUME NEW d \in CRs, NEW s \in CRSpecs, CRWrite(d, s)
      PROVE  GenOrder(c)' /\ GenListed(c)'
  <2>1. UNCHANGED <<ccrs, snap, applied, gone, engine>> /\ d \notin gone
    BY <1>4, ZenonT(30) DEF CRWrite, cache, run, dispatch
  <2>2. crs'[c] = IF c # d THEN crs[c]
                  ELSE IF crs[c] = NoCR THEN Object(s, 1, EmptyStatus)
                  ELSE Object(s, crs[c].gen + 1, crs[c].status)
    BY <1>4, ZenonT(30) DEF CRWrite, TypeInv, TypeOK
  <2>3. CASE c # d
    BY <1>1, <2>1, <2>2, <2>3, ZenonT(30) DEF GenOrder, GenListed
  <2>4. CASE c = d /\ crs[c] = NoCR
    <3>1. crs'[c].gen = 1 /\ crs'[c].status.generation = 0
      BY <2>2, <2>4, SMTT(30) DEF Object, EmptyStatus
    <3>2. applied[c] = 0 /\ ccrs[c] = NoCR /\ snap.crs[c] = NoCR
      BY <1>1, <2>1, <2>4, ZenonT(30) DEF GenOrder
    <3>3. crs'[c] # NoCR
      <4>1. crs'[c] \in Objects
        BY <2>2, <2>4, EmptyTyped DEF Object, Objects
      <4>2. QED
        BY <4>1, NoCRAssumption, ZenonT(30)
    <3>4. QED
      BY <2>1, <2>4, <3>1, <3>2, <3>3, SMTT(30) DEF GenOrder, GenListed
  <2>5. CASE c = d /\ crs[c] # NoCR
    <3>1. /\ crs'[c].gen = crs[c].gen + 1
          /\ crs'[c].status = crs[c].status
      BY <2>2, <2>5 DEF Object
    <3>2. crs'[c] # NoCR
      <4>1. crs[c].status \in Statuses
        BY <2>5, ZenonT(30) DEF TypeInv, TypeOK, MaybeObjects, Objects
      <4>2. crs'[c] \in Objects
        BY <1>2, <2>2, <2>5, <4>1 DEF Object, Objects
      <4>3. QED
        BY <4>2, NoCRAssumption, ZenonT(30)
    <3>3. QED
      BY <1>1, <1>2, <2>1, <2>5, <3>1, <3>2 DEF GenOrder, GenListed
  <2>6. QED
    BY <2>3, <2>4, <2>5, ZenonT(30)
<1>5. ASSUME NEW d \in CRs, CRDelete(d)
      PROVE  GenOrder(c)' /\ GenListed(c)'
  <2>1. UNCHANGED <<ccrs, snap, applied, engine>> /\ gone' = gone \cup {d}
    BY <1>5, ZenonT(30) DEF CRDelete, cache, run, dispatch
  <2>2. crs'[c] = IF c = d THEN NoCR ELSE crs[c]
    BY <1>5, ZenonT(30) DEF CRDelete, TypeInv, TypeOK
  <2>3. QED
    BY <1>1, <2>1, <2>2, ZenonT(30) DEF GenOrder, GenListed
<1>6. ASSUME NEW d \in CRs, CacheCR(d)
      PROVE  GenOrder(c)' /\ GenListed(c)'
  <2>1. UNCHANGED <<crs, snap, applied, gone, engine>>
    BY <1>6, ZenonT(30) DEF CacheCR, api, run, dispatch
  <2>2. ccrs'[c] = IF c = d THEN crs[c] ELSE ccrs[c]
    BY <1>6, ZenonT(30) DEF CacheCR, TypeInv, TypeOK
  <2>3. QED
    BY <1>1, <1>2, <2>1, <2>2, SMTT(30) DEF GenOrder, GenListed
<1>7. CASE ListPods
  <2>1. UNCHANGED <<crs, ccrs, applied, gone>> /\ engine' = "pods"
    BY <1>7, ZenonT(30) DEF ListPods, api, cache, dispatch
  <2>2. snap'.crs = snap.crs
    BY <1>7, ZenonT(30) DEF ListPods, TypeInv, TypeOK
  <2>3. QED
    BY <1>1, <2>1, <2>2, ZenonT(30) DEF GenOrder, GenListed
<1>8. CASE ListMonitors
  <2>1. UNCHANGED <<crs, ccrs, applied, gone>> /\ engine' = "monitors"
    BY <1>8, ZenonT(30) DEF ListMonitors, api, cache, dispatch
  <2>2. snap'.crs[c] = IF c \in Monitors THEN ccrs[c] ELSE snap.crs[c]
    BY <1>8, ZenonT(30) DEF ListMonitors, Read, TypeInv, TypeOK
  <2>3. QED
    BY <1>1, <1>2, <2>1, <2>2 DEF GenOrder, GenListed
<1>9. CASE ListPoliciesAndApply
  <2>1. /\ UNCHANGED <<crs, ccrs, gone>>
        /\ engine = "monitors" /\ engine' = "write"
    BY <1>9, ZenonT(30) DEF ListPoliciesAndApply, api, cache
  <2>2. snap'.crs[c] = IF c \in Policies THEN ccrs[c] ELSE snap.crs[c]
    BY <1>9, ZenonT(30) DEF ListPoliciesAndApply, Read, TypeInv, TypeOK
  <2>3. applied'[c] = IF snap'.crs[c] = NoCR THEN applied[c]
                      ELSE snap'.crs[c].gen
    BY <1>9, ZenonT(30) DEF ListPoliciesAndApply
  <2>4. c \in Monitors \/ c \in Policies
    BY ZenonT(30) DEF CRs
  <2>5. QED
    BY <1>1, <1>2, <2>1, <2>2, <2>3, <2>4 DEF GenOrder, GenListed
<1>10. ASSUME NEW d \in CRs, WriteStatus(d)
       PROVE  GenOrder(c)' /\ GenListed(c)'
  <2>1. /\ UNCHANGED <<ccrs, snap, applied, gone, engine>>
        /\ engine = "write"
    BY <1>10, ZenonT(30) DEF WriteStatus, cache, dispatch
  <2>2. CASE c # d
    <3>1. crs'[c] = crs[c]
      BY <1>10, <2>2, WriteGenerations, ZenonT(30)
    <3>2. QED
      BY <1>1, <2>1, <3>1, ZenonT(30) DEF GenOrder, GenListed
  <2>3. CASE c = d
    <3>1. /\ snap.crs[c] # NoCR
          /\ crs[c] = NoCR => crs'[c] = NoCR
          /\ crs[c] # NoCR =>
                /\ crs'[c] # NoCR /\ crs'[c].gen = crs[c].gen
                /\ crs'[c].status.generation
                      \in {snap.crs[c].gen, crs[c].status.generation}
      BY <1>10, <2>3, WriteGenerations, ZenonT(30)
    <3>2. QED
      BY <1>1, <1>2, <2>1, <3>1, SMTT(30) DEF GenOrder, GenListed
  <2>4. QED
    BY <2>2, <2>3, ZenonT(30)
<1>11. CASE Return
  <2>1. UNCHANGED <<crs, ccrs, applied, gone>> /\ engine' = "idle"
    BY <1>11, ZenonT(30) DEF Return, api, cache, dispatch
  <2>2. snap'.crs[c] = NoCR
    BY <1>11, ZenonT(30) DEF Return, NoLists
  <2>3. QED
    BY <1>1, <2>1, <2>2, ZenonT(30) DEF GenOrder, GenListed
<1>12. \/ UNCHANGED <<crs, ccrs, snap, applied, gone, engine>>
       \/ EngineStep
       \/ \E d \in CRs : \/ CacheCR(d) \/ CRDelete(d)
                         \/ \E s \in CRSpecs : CRWrite(d, s)
  BY ZenonT(30) DEF Next, Watch, Report, Resync, CachePod, AgentReport, PodChange,
         vars, api, cache, run, dispatch
<1>13. QED
  BY <1>3, <1>4, <1>5, <1>6, <1>7, <1>8, <1>9, <1>10, <1>11, <1>12, ZenonT(30)
  DEF EngineStep

\* "ObservedGeneration is the .metadata.generation the reconciler has fully
\* applied": whatever the cache has seen and whichever patches fail, a status
\* shows only generations from which the Dispatcher was given specs.
THEOREM ObservedApplied == Spec => []ObservedGenerationApplied
<1>1. GenInv => ObservedGenerationApplied
  BY ZenonT(30) DEF GenInv, GenOrder, ObservedGenerationApplied
<1>2. QED
  BY <1>1, TypeInit, TypeStep, GenInit, GenStep, PTL DEF Spec

\* No step of the system takes back the observedGeneration of a CR.
THEOREM ObservedNeverReverts == Spec => ObservedGenerationGrows
<1> DEFINE Grows == \A c \in CRs : crs[c] # NoCR /\ crs'[c] # NoCR =>
                       crs'[c].status.generation >= crs[c].status.generation
<1>1. ASSUME TypeInv, GenInv, Next PROVE Grows
  <2> SUFFICES ASSUME NEW c \in CRs, crs[c] # NoCR, crs'[c] # NoCR
               PROVE  crs'[c].status.generation >= crs[c].status.generation
    OBVIOUS
  <2>1. crs[c].status.generation \in Nat /\ applied[c] \in Nat
    BY <1>1, GenNat, ZenonT(30) DEF TypeInv
  <2>2. CASE crs' = crs
    BY <2>1, <2>2
  <2>3. ASSUME NEW d \in CRs, NEW s \in CRSpecs, CRWrite(d, s)
        PROVE  crs'[c].status = crs[c].status
    BY <2>3 DEF CRWrite, Object, TypeInv, TypeOK
  <2>4. ASSUME NEW d \in CRs, CRDelete(d)
        PROVE  crs'[c].status = crs[c].status
    BY <2>4 DEF CRDelete, TypeInv, TypeOK
  <2>5. ASSUME NEW d \in CRs, WriteStatus(d)
        PROVE  crs'[c].status.generation >= crs[c].status.generation
    <3>1. CASE c # d
      <4>1. crs'[c] = crs[c]
        BY <1>1, <2>5, <3>1, WriteGenerations, ZenonT(30)
      <4>2. QED
        BY <2>1, <4>1
    <3>2. CASE c = d
      <4>1. /\ snap.crs[c] # NoCR
            /\ crs'[c].status.generation
                  \in {snap.crs[c].gen, crs[c].status.generation}
        BY <1>1, <2>5, <3>2, WriteGenerations, ZenonT(30)
      <4>2. crs[c].status.generation <= applied[c]
        BY <1>1, ZenonT(30) DEF GenInv, GenOrder
      <4>3. applied[c] = snap.crs[c].gen
        BY <1>1, <2>5, <4>1, ZenonT(30) DEF GenInv, GenListed, WriteStatus
      <4>4. QED
        BY <2>1, <4>1, <4>2, <4>3
    <3>3. QED
      BY <3>1, <3>2, ZenonT(30)
  <2>6. \/ crs' = crs
        \/ \E d \in CRs : \/ WriteStatus(d) \/ CRDelete(d)
                          \/ \E s \in CRSpecs : CRWrite(d, s)
    BY <1>1, ZenonT(30) DEF Next, EngineStep, ListPods, ListMonitors, ListPoliciesAndApply,
       Return, Watch, Report, Resync, CachePod, CacheCR, AgentReport, PodChange,
       api
  <2>7. QED
    BY <2>1, <2>2, <2>3, <2>4, <2>5, <2>6
<1>2. TypeInv /\ GenInv /\ [Next]_vars => [Grows]_vars
  BY <1>1, ZenonT(30)
<1>3. QED
  BY <1>2, TypeInit, TypeStep, GenInit, GenStep, PTL
  DEF Spec, ObservedGenerationGrows

-----------------------------------------------------------------------------
(* Coverage.                                                               *)

\* Among CRs, one comes first in lexicographic order.
LEMMA FirstExists ==
    ASSUME NEW S \in SUBSET CRs, S # {}
    PROVE  First(S) \in S /\ \A d \in S : Rank[First(S)] <= Rank[d]
BY RankAssumption, ZenonT(30) DEF First

\* Lists that are equal once sorted hold the same ports.
LEMMA SamePortsSameSet ==
    ASSUME NEW a \in Seq(Nat), NEW b \in Seq(Nat), SamePorts(a, b)
    PROVE  {a[i] : i \in DOMAIN a} = {b[i] : i \in DOMAIN b}
<1> DEFINE At(s, x) == {i \in DOMAIN s : s[i] = x}
<1>1. ASSUME NEW s \in Seq(Nat), NEW x
      PROVE  Cardinality(At(s, x)) = 0 <=> At(s, x) = {}
  <2>1. DOMAIN s = 1 .. Len(s) /\ Len(s) \in Nat
    OBVIOUS
  <2>2. IsFiniteSet(DOMAIN s)
    BY <2>1, FS_Interval
  <2>3. IsFiniteSet(At(s, x))
    BY <2>2, FS_Subset, ZenonT(30)
  <2>4. QED
    BY <2>3, FS_EmptySet, ZenonT(30)
<1>2. ASSUME NEW x \in {a[i] : i \in DOMAIN a} \cup {b[i] : i \in DOMAIN b}
      PROVE  At(a, x) = {} <=> At(b, x) = {}
  <2>1. Cardinality(At(a, x)) = Cardinality(At(b, x))
    BY ZenonT(30) DEF SamePorts
  <2>2. QED
    BY <1>1, <2>1, ZenonT(30)
<1>3. \A s, x : x \in {s[i] : i \in DOMAIN s} <=> At(s, x) # {}
  OBVIOUS
<1> HIDE DEF At
<1>4. QED
  BY <1>2, <1>3, ZenonT(30)

\* CRs that agree produce the same spec.
LEMMA AgreeSameSpec ==
    ASSUME NEW a \in Cores, NEW b \in Cores, specsAgree(a, b)
    PROVE  SpecOf(a) = SpecOf(b)
<1>1. a.http => {a.hports[i] : i \in DOMAIN a.hports}
                = {b.hports[i] : i \in DOMAIN b.hports}
  BY SamePortsSameSet, ZenonT(30) DEF specsAgree, Cores
<1>2. a.grpc => {a.gports[i] : i \in DOMAIN a.gports}
                = {b.gports[i] : i \in DOMAIN b.gports}
  BY SamePortsSameSet, ZenonT(30) DEF specsAgree, Cores
<1>3. a.l4 = b.l4 /\ a.http = b.http /\ a.grpc = b.grpc
  BY ZenonT(30) DEF specsAgree
<1>4. QED
  BY <1>1, <1>2, <1>3, ZenonT(30) DEF SpecOf

\* In any cluster: if ComputeCoverage records no conflict for the CR that wins a
\* pod, then every CR it won against would have produced the same spec, so that
\* the order of the names decides nothing the agent can notice.
THEOREM AgreementIsHarmless ==
    ASSUME NEW v, v.crs \in [CRs -> MaybeObjects],
           NEW p \in Pods, Candidates(v, p) # {},
           Conflicts(v, Winner(v, p)) = {}
    PROVE  \A d \in Candidates(v, p) : SpecOf(Core(v, d)) = Specs(v)[p]
<1> DEFINE cs == Candidates(v, p)
           w == Winner(v, p)
<1>1. cs \subseteq CRs /\ \A d \in cs : Selects(v, d, p)
  BY ZenonT(30) DEF Candidates, CRs
<1>2. w \in cs /\ w = First(cs)
  BY <1>1, FirstExists, ZenonT(30) DEF Winner
<1>3. Specs(v)[p] = SpecOf(Core(v, w))
  BY ZenonT(30) DEF Specs
<1>4. \A d \in cs : Core(v, d) \in Cores
  <2>1. \A d \in cs : v.crs[d] \in Objects
    BY <1>1, ZenonT(30) DEF Selects, MaybeObjects
  <2>2. QED
    BY <2>1, CRSpecsAssumption, ZenonT(30) DEF Core, Objects
<1>5. ASSUME NEW d \in cs, d # w PROVE specsAgree(Core(v, w), Core(v, d))
  <2>1. p \in MatchedPods(v, w)
    BY <1>1, <1>2, ZenonT(30) DEF MatchedPods
  <2>2. {e \in cs \ {w} : /\ w \in cs /\ First(cs) \in {w, e}
                          /\ ~specsAgree(Core(v, w), Core(v, e))} = {}
    BY <2>1 DEF Conflicts
  <2>3. QED
    BY <1>2, <1>5, <2>2, ZenonT(30)
<1>6. QED
  BY <1>2, <1>3, <1>4, <1>5, AgreeSameSpec, ZenonT(30)

-----------------------------------------------------------------------------
(* What the dispatcher and the statuses hold once nothing is pending.      *)

\* The cluster as the manager's cache shows it.
View == [pods |-> cpods, crs |-> ccrs]

\* If the cache has the current object of c, then its status shows the conflicts
\* of the view.  (A patch that changes anything makes the cached object stale.)
Shown(c) ==
    crs[c] # NoCR /\ ccrs[c] = crs[c] =>
        ccrs[c].status.conflicts = Conflicts(View, c)

\* While no reconcile is queued the cache has not moved since the lists were
\* read: what has been listed is the cache, what has been sent are its specs,
\* and what has been written, unless a write failed, are its conflicts.
ViewInv ==
    ~dirty =>
        /\ engine # "idle" => snap.pods = cpods
        /\ engine \in {"monitors", "write"} =>
              \A c \in Monitors : snap.crs[c] = ccrs[c]
        /\ engine = "write" => snap = View
        /\ engine \in {"write", "idle"} => sent = Specs(View)
        /\ engine = "write" /\ ~failed => \A c \in CRs \ todo : Shown(c)
        /\ engine = "idle" => \A c \in CRs : Shown(c)

\* An object that is written, by anyone, differs from the cached one.
LEMMA WrittenIsStale ==
    ASSUME TypeInv, GenInv, NEW d \in CRs, NEW s \in CRSpecs, CRWrite(d, s)
    PROVE  crs'[d] # ccrs[d] /\ \A c \in CRs \ {d} : crs'[c] = crs[c]
<1>1. /\ d \notin gone /\ crs \in [CRs -> MaybeObjects]
      /\ crs' = [crs EXCEPT ![d] = IF @ = NoCR THEN Object(s, 1, EmptyStatus)
                                   ELSE Object(s, @.gen + 1, @.status)]
  BY ZenonT(30) DEF CRWrite, TypeInv, TypeOK
<1>2. GenOrder(d)
  BY ZenonT(30) DEF GenInv
<1>3. CASE crs[d] = NoCR
  <2>1. crs'[d] = Object(s, 1, EmptyStatus)
    BY <1>1, <1>3, ZenonT(30)
  <2>2. crs'[d] \in Objects
    BY <2>1, EmptyTyped DEF Object, Objects
  <2>3. ccrs[d] = NoCR
    BY <1>1, <1>2, <1>3, ZenonT(30) DEF GenOrder
  <2> QED BY <1>1, <2>2, <2>3, NoCRAssumption, ZenonT(30)
<1>4. CASE crs[d] # NoCR
  <2>1. crs'[d].gen = crs[d].gen + 1
    BY <1>1, <1>4, ZenonT(30) DEF Object
  <2>2. crs[d].gen \in Nat /\ (ccrs[d] # NoCR => ccrs[d].gen \in Nat)
    BY <1>4, GenNat, ZenonT(30) DEF TypeInv
  <2>3. ccrs[d] # NoCR => ccrs[d].gen <= crs[d].gen
    BY <1>2, <1>4, ZenonT(30) DEF GenOrder
  <2>4. crs'[d] # NoCR
    <3>1. crs[d].status \in Statuses
      BY <1>1, <1>4, ZenonT(30) DEF MaybeObjects, Objects
    <3>2. crs'[d] = Object(s, crs[d].gen + 1, crs[d].status)
      BY <1>1, <1>4, ZenonT(30)
    <3>3. crs'[d] \in Objects
      BY <2>2, <3>1, <3>2 DEF Object, Objects
    <3> QED BY <3>3, NoCRAssumption, ZenonT(30)
  <2>5. crs'[d] # ccrs[d]
    BY <2>1, <2>2, <2>3, <2>4
  <2> QED BY <1>1, <2>5, ZenonT(30)
<1> QED BY <1>3, <1>4, ZenonT(30)

\* A round of WriteStatuses that finds the cached status and does not fail
\* either leaves a status that shows the conflicts, or makes the cache stale.
LEMMA WriteShows ==
    ASSUME TypeInv, snap = View, NEW c \in CRs, WriteStatus(c), ~failed'
    PROVE  Shown(c)'
<1>1. /\ snap.crs[c] # NoCR /\ crs \in [CRs -> MaybeObjects]
      /\ View' = View /\ ccrs' = ccrs /\ snap.crs[c] = ccrs[c]
  BY ZenonT(30) DEF WriteStatus, Turn, TypeInv, TypeOK, TodoListed, View, cache
<1>2. Desired(c).conflicts = Conflicts(View, c)
  BY ZenonT(30) DEF Desired, makeDesired
<1>3. CASE ccrs[c].status = Desired(c)
  BY <1>1, <1>2, <1>3, ZenonT(30) DEF Shown
<1>4. CASE ccrs[c].status # Desired(c)
  <2>1. crs[c] # NoCR /\ \E restamp \in BOOLEAN :
            crs' = [crs EXCEPT ![c].status =
                       MergePatch(ccrs[c].status, Desired(c), @, restamp)]
    BY <1>1, <1>4, ZenonT(30) DEF WriteStatus
  <2>2. PICK restamp \in BOOLEAN :
            crs' = [crs EXCEPT ![c].status =
                       MergePatch(ccrs[c].status, Desired(c), @, restamp)]
    BY <2>1, ZenonT(30)
  <2> DEFINE st == MergePatch(ccrs[c].status, Desired(c), crs[c].status, restamp)
             old == ccrs[c].status
             new == Desired(c)
  <2>3. crs[c] \in Objects
    BY <1>1, <2>1, ZenonT(30) DEF MaybeObjects
  <2>4. crs'[c] = [crs[c] EXCEPT !.status = st]
    BY <1>1, <2>2, ZenonT(30)
  <2>5. crs'[c].status = st
    <3> HIDE DEF st
    <3> QED BY <2>3, <2>4, ZenonT(30) DEF Objects
  <2>6. old \in Statuses /\ new \in Statuses
    <3>1. ccrs[c] \in Objects
      BY <1>1, ZenonT(30) DEF TypeInv, TypeOK, MaybeObjects
    <3>2. snap.crs[c].gen \in Nat /\ ccrs[c].status \in Statuses
      BY <1>1, <3>1, ZenonT(30) DEF Objects
    <3> QED BY <3>2, DesiredTyped, ZenonT(30) DEF Desired
  <2>7. \E f \in StatusFields : old[f] # new[f]
    <3> HIDE DEF old, new
    <3>1. StatusFields = {"generation", "matched", "active", "sample", "conflicts",
                          "conditions"}
      BY ZenonT(30) DEF StatusFields, EmptyStatus
    <3>2. old # new
      BY <1>4, ZenonT(30) DEF old, new
    <3> QED BY <2>6, <3>1, <3>2 DEF Statuses
  <2>8. st # old
    <3>1. \A f \in StatusFields : old[f] # new[f] => st[f] = new[f]
      BY ZenonT(30) DEF MergePatch
    <3> HIDE DEF st, old, new
    <3> QED BY <2>7, <3>1, ZenonT(30)
  <2>9. crs'[c] # ccrs'[c]
    BY <1>1, <2>5, <2>8, ZenonT(30)
  <2> QED BY <2>9, ZenonT(30) DEF Shown
<1> QED BY <1>3, <1>4, ZenonT(30)

\* Every step keeps it.
LEMMA ViewStep == TypeInv /\ GenInv /\ ViewInv /\ [Next]_vars => ViewInv'
<1> SUFFICES ASSUME TypeInv, GenInv, ViewInv, [Next]_vars, ~dirty' PROVE ViewInv'
  BY ZenonT(30) DEF ViewInv
<1>1. ASSUME UNCHANGED <<cpods, ccrs, dirty, engine, snap, todo, failed, sent>>,
             \A c \in CRs : Shown(c) => Shown(c)'
      PROVE  ViewInv'
  BY <1>1, Zenon DEF ViewInv, View
<1>2. ASSUME NEW d \in CRs, NEW s \in CRSpecs, CRWrite(d, s) PROVE ViewInv'
  <2>1. UNCHANGED <<cpods, ccrs, dirty, engine, snap, todo, failed, sent>>
    BY <1>2, ZenonT(30) DEF CRWrite, cache, run, dispatch
  <2>2. \A c \in CRs : Shown(c) => Shown(c)'
    BY <1>2, <2>1, WrittenIsStale, ZenonT(30) DEF Shown, View
  <2> QED BY <1>1, <2>1, <2>2, ZenonT(30)
<1>3. ASSUME NEW d \in CRs, CRDelete(d) PROVE ViewInv'
  <2>1. UNCHANGED <<cpods, ccrs, dirty, engine, snap, todo, failed, sent>>
    BY <1>3, ZenonT(30) DEF CRDelete, cache, run, dispatch
  <2>2. \A c \in CRs : crs'[c] = IF c = d THEN NoCR ELSE crs[c]
    BY <1>3, ZenonT(30) DEF CRDelete, TypeInv, TypeOK
  <2>3. \A c \in CRs : Shown(c) => Shown(c)'
    BY <2>1, <2>2, ZenonT(30) DEF Shown, View
  <2> QED BY <1>1, <2>1, <2>3, ZenonT(30)
<1>4. CASE UNCHANGED <<crs, cpods, ccrs, dirty, engine, snap, todo, failed, sent>>
  <2>1. \A c \in CRs : Shown(c) => Shown(c)'
    BY <1>4, ZenonT(30) DEF Shown, View
  <2> QED BY <1>1, <1>4, <2>1, ZenonT(30)
<1>5. CASE ListPods
  <2>1. engine' = "pods" /\ cpods' = cpods /\ snap' = [snap EXCEPT !.pods = cpods]
    BY <1>5, ZenonT(30) DEF ListPods, cache
  <2>2. snap'.pods = cpods
    BY <2>1, ZenonT(30) DEF TypeInv, TypeOK
  <2> QED BY <2>1, <2>2, ZenonT(30) DEF ViewInv
<1>6. CASE ListMonitors
  <2>1. /\ engine = "pods" /\ engine' = "monitors" /\ UNCHANGED <<cpods, ccrs, dirty>>
        /\ snap' = [snap EXCEPT !.crs = Read(Monitors)]
    BY <1>6, ZenonT(30) DEF ListMonitors, cache
  <2>2. snap'.pods = snap.pods /\ snap'.crs = Read(Monitors)
    BY <2>1, ZenonT(30) DEF TypeInv, TypeOK
  <2>3. \A c \in Monitors : snap'.crs[c] = ccrs[c]
    BY <2>2, ZenonT(30) DEF Read, CRs
  <2>4. snap.pods = cpods
    BY <2>1, ZenonT(30) DEF ViewInv
  <2> QED BY <2>1, <2>2, <2>3, <2>4, ZenonT(30) DEF ViewInv
<1>7. CASE ListPoliciesAndApply
  <2>1. /\ engine = "monitors" /\ engine' = "write" /\ UNCHANGED <<cpods, ccrs, dirty, crs>>
        /\ snap' = [snap EXCEPT !.crs = Read(Policies)] /\ sent' = Specs(snap')
        /\ todo' = {c \in CRs : snap'.crs[c] # NoCR}
    BY <1>7, ZenonT(30) DEF ListPoliciesAndApply, cache, api
  <2>2. /\ snap.pods = cpods /\ \A c \in Monitors : snap.crs[c] = ccrs[c]
        /\ ccrs \in [CRs -> MaybeObjects]
    BY <2>1, ZenonT(30) DEF ViewInv, TypeInv, TypeOK
  <2>3. Read(Policies) = ccrs
    BY <2>2, ZenonT(30) DEF Read, CRs
  <2>4. snap' = View
    BY <2>1, <2>2, <2>3, ZenonT(30) DEF View, TypeInv, TypeOK
  <2>5. View' = View
    BY <2>1, ZenonT(30) DEF View
  <2>6. \A c \in CRs \ todo' : Shown(c)'
    <3>1. \A c \in CRs \ todo' : ccrs[c] = NoCR
      BY <2>1, <2>4 DEF View
    <3> QED BY <2>1, <3>1, ZenonT(30) DEF Shown
  <2>7. snap' = View' /\ sent' = Specs(View')
    BY <2>1, <2>4, <2>5, ZenonT(30)
  <2>8. snap'.pods = cpods' /\ \A c \in Monitors : snap'.crs[c] = ccrs'[c]
    BY <2>1, <2>4 DEF View
  <2> QED BY <2>1, <2>6, <2>7, <2>8, ZenonT(30) DEF ViewInv
<1>8. ASSUME NEW d \in CRs, WriteStatus(d) PROVE ViewInv'
  <2>1. /\ engine = "write" /\ todo' = todo \ {d}
        /\ UNCHANGED <<cpods, ccrs, dirty, engine, snap, sent>>
        /\ failed' \in {failed, TRUE}
    BY <1>8, ZenonT(30) DEF WriteStatus, cache, dispatch
  <2>2. snap = View /\ View' = View /\ sent = Specs(View)
    BY <2>1, ZenonT(30) DEF ViewInv, View
  <2>3. \A c \in CRs \ {d} : crs'[c] = crs[c]
    BY <1>8, WriteGenerations, ZenonT(30)
  <2>4. ASSUME ~failed', NEW c \in CRs \ todo' PROVE Shown(c)'
    <3>1. CASE c = d
      BY <1>8, <2>2, <2>4, <3>1, WriteShows, ZenonT(30)
    <3>2. CASE c # d
      <4>1. ~failed
        BY <2>1, <2>4, Zenon
      <4>2. Shown(c)
        BY <2>1, <2>4, <3>2, <4>1, ZenonT(30) DEF ViewInv
      <4> QED BY <2>1, <2>2, <2>3, <3>2, <4>2, ZenonT(30) DEF Shown
    <3> QED BY <3>1, <3>2, ZenonT(30)
  <2> QED BY <2>1, <2>2, <2>4, ZenonT(30) DEF ViewInv, View
<1>9. CASE Return
  <2>1. /\ engine = "write" /\ todo = {} /\ engine' = "idle"
        /\ UNCHANGED <<cpods, ccrs, crs, sent>> /\ ~dirty /\ ~failed
    BY <1>9, Zenon DEF Return, cache, api, dispatch
  <2>2. sent = Specs(View) /\ \A c \in CRs : Shown(c)
    BY <2>1, ZenonT(30) DEF ViewInv
  <2>3. View' = View
    BY <2>1, ZenonT(30) DEF View
  <2> QED BY <2>1, <2>2, <2>3, ZenonT(30) DEF ViewInv, Shown
<1>10. \/ UNCHANGED <<crs, cpods, ccrs, dirty, engine, snap, todo, failed, sent>>
       \/ dirty' = TRUE \/ EngineStep
       \/ \E d \in CRs : CRDelete(d) \/ \E s \in CRSpecs : CRWrite(d, s)
  BY ZenonT(30) DEF Next, Watch, Report, Resync, CachePod, CacheCR, AgentReport, PodChange,
         vars, api, cache, run, dispatch
<1> QED
  BY <1>2, <1>3, <1>4, <1>5, <1>6, <1>7, <1>8, <1>9, <1>10, ZenonT(30) DEF EngineStep

\* Overlap that the reconciler does not report is harmless, however the cache
\* trailed and whichever patches failed before: once no reconcile is queued or
\* running and the cache is current, a winner that shows no conflict shares its
\* spec with every CR of its kind that selects the pod, and it is the spec the
\* agents were given.
THEOREM SilenceIsHarmless == Spec => []SilentOverlapIsHarmless
<1>1. Init => ViewInv
  BY ZenonT(30) DEF Init, ViewInv
<1>2. ASSUME TypeInv, ViewInv PROVE SilentOverlapIsHarmless
  <2> SUFFICES ASSUME Quiescent, NEW p \in Pods, Candidates(Truth, p) # {},
                      crs[Winner(Truth, p)].status.conflicts = {},
                      NEW d \in Candidates(Truth, p)
               PROVE  sent[p] = SpecOf(Core(Truth, d))
    BY ZenonT(30) DEF SilentOverlapIsHarmless
  <2> DEFINE w == Winner(Truth, p)
  <2>1. View = Truth /\ ~dirty /\ engine = "idle" /\ ccrs = crs
    BY ZenonT(30) DEF Quiescent, View, Truth
  <2>2. sent = Specs(Truth) /\ \A c \in CRs : Shown(c)
    BY <1>2, <2>1, ZenonT(30) DEF ViewInv
  <2>3. w \in CRs /\ crs[w] # NoCR
    <3>1. Candidates(Truth, p) \in SUBSET CRs
          /\ \A c \in Candidates(Truth, p) : Truth.crs[c] # NoCR
      BY ZenonT(30) DEF Candidates, CRs, Selects
    <3>2. w \in Candidates(Truth, p)
      BY <3>1, FirstExists, ZenonT(30) DEF Winner
    <3> QED BY <3>1, <3>2, ZenonT(30) DEF Truth
  <2>4. Conflicts(Truth, w) = {}
    BY <2>1, <2>2, <2>3, ZenonT(30) DEF Shown
  <2>5. Truth.crs \in [CRs -> MaybeObjects]
    BY <1>2, ZenonT(30) DEF Truth, TypeInv, TypeOK
  <2> HIDE DEF w
  <2> QED BY <2>2, <2>4, <2>5, AgreementIsHarmless, ZenonT(30) DEF w
<1>3. QED
  BY <1>1, <1>2, TypeInit, TypeStep, GenInit, GenStep, ViewStep, PTL DEF Spec
=============================================================================
