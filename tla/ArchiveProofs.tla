---------------------------- MODULE ArchiveProofs ----------------------------
(***************************************************************************)
(* Proofs about the archive.  The sink that writes and uploads the shards, *)
(* for any number of shards, signals, handlers and workers, and any        *)
(* failures, restarts and crashes: what is archived is final, nothing else *)
(* is removed, no closed shard is forgotten, and a rotation carries the    *)
(* type codes over.  The compactor that reads them, for any shards and     *)
(* contents, any limit of a run and any number of failed runs: a marker    *)
(* means that the rows are written, and without failures once.             *)
(***************************************************************************)
EXTENDS SinkWriter, Compactor, FiniteSetTheorems, TLAPS

(* The shards the uploader has, or will have, in its hands.                 *)
Busy(s) ==
    \/ \E i \in DOMAIN queue : queue[i] = s
    \/ \E k \in Workers :
          task[k].at \in {"upload", "backoff"} /\ task[k].shard = s

(* The type invariant, that there is a shard to write to, and that no file  *)
(* is open when the process is down.                                        *)
TInv ==
    /\ TypeOK
    /\ currentShard < nextShard
    /\ main = "serving" \/ f = "open" => currentShard # 0
    /\ main = "down" => f = "nil"

(* The order in which a shard lives: created, written while it is current,  *)
(* handed to the uploader, archived, removed.                               *)
Inv ==
    /\ f = "open" => archived[currentShard] = NoObject /\ ~Busy(currentShard)
    /\ \A s \in Shards :
          s >= nextShard =>
              archived[s] = NoObject /\ s \notin local /\ ~Busy(s)
    /\ \A s \in Shards : cache[s] # Unknown => archived[s] # NoObject
    /\ sweep.at = "remove" => archived[sweep.shard] # NoObject
    /\ ArchivedIsFinal
    /\ \A s \in Shards : s < nextShard /\ s \notin local => archived[s] # NoObject

-----------------------------------------------------------------------------
(* The orders of a finite set are sequences over it.                        *)
LEMMA ListingsType ==
    ASSUME NEW S \in SUBSET Types, NEW q \in Listings(S)
    PROVE  q \in Seq(Types)
<1>1. Cardinality(S) \in Nat
    BY SinkAssumption, FS_Subset, FS_CardinalityType, ZenonT(30)
<1> QED BY <1>1 DEF Listings

(* The mappings rotateShard repeats are a sequence of records.              *)
LEMMA RepeatedType ==
    ASSUME typeCodes \in [Types -> Nat], NEW S \in SUBSET Types,
           NEW m \in Repeated(S)
    PROVE  m \in Seq(Records)
<1>1. PICK q \in Listings(S) :
         m = [i \in DOMAIN q |-> Mapping(typeCodes[q[i]], q[i])]
    BY ZenonT(30) DEF Repeated
<1>2. q \in Seq(Types)
    BY ListingsType, ZenonT(30)
<1>3. \A t \in Types : Mapping(typeCodes[t], t) \in Records
    BY ZenonT(30) DEF Mapping, Records
<1>4. \A i \in 1 .. Len(q) : Mapping(typeCodes[q[i]], q[i]) \in Records
    BY <1>2, <1>3
<1>5. DOMAIN q = 1 .. Len(q) /\ Len(q) \in Nat
    BY <1>2
<1>6. [i \in 1 .. Len(q) |-> Mapping(typeCodes[q[i]], q[i])] \in Seq(Records)
    BY <1>4, <1>5
<1> QED BY <1>1, <1>5, <1>6, ZenonT(30)

(* What rotateShard leaves in a new shard is a sequence of records.         *)
LEMMA FreshType ==
    ASSUME typeCodes \in [Types -> Nat], NEW fresh \in FreshShards
    PROVE  fresh.recs \in Seq(Records) /\ fresh.ok \in BOOLEAN
<1>1. \A S \in SUBSET Types : \A q \in Repeated(S) : q \in Seq(Records)
    BY RepeatedType, ZenonT(30)
<1>2. /\ <<>> \in Seq(Records)
      /\ <<Header>> \in Seq(Records)
      /\ <<Torn>> \in Seq(Records)
    BY DEF Records
<1>3. \A a, b \in Seq(Records) : a \o b \in Seq(Records)
    OBVIOUS
<1>4. Known \subseteq Types
    BY ZenonT(30) DEF Known
<1>5. ASSUME NEW q \in Repeated(Known) PROVE <<Header>> \o q \in Seq(Records)
    BY <1>1, <1>2, <1>3, <1>4, ZenonT(30)
<1>6. Broken \subseteq Seq(Records)
  <2> DEFINE some == UNION {Repeated(S) :
                              S \in {{}} \cup (SUBSET Known \ {Known})}
  <2>1. some \subseteq Seq(Records)
      BY <1>1, <1>4, ZenonT(30)
  <2>2. \A q \in some :
           /\ <<Header>> \o q \in Seq(Records)
           /\ <<Header>> \o q \o <<Torn>> \in Seq(Records)
      BY <1>2, <1>3, <2>1, ZenonT(30)
  <2>3. Broken = {<<>>, <<Torn>>} \cup
            UNION {{<<Header>> \o q, <<Header>> \o q \o <<Torn>>} : q \in some}
      BY Zenon DEF Broken
  <2> HIDE DEF some
  <2> QED BY <1>2, <2>2, <2>3, ZenonT(30)
<1>7. \/ \E q \in Repeated(Known) :
            fresh = [ok |-> TRUE, recs |-> <<Header>> \o q]
      \/ \E r \in Broken : fresh = [ok |-> FALSE, recs |-> r]
    BY Zenon DEF FreshShards
<1>8. ASSUME NEW q \in Repeated(Known),
             fresh = [ok |-> TRUE, recs |-> <<Header>> \o q]
      PROVE  fresh.recs \in Seq(Records) /\ fresh.ok \in BOOLEAN
    BY <1>5, <1>8, ZenonT(30)
<1>9. ASSUME NEW r \in Broken, fresh = [ok |-> FALSE, recs |-> r]
      PROVE  fresh.recs \in Seq(Records) /\ fresh.ok \in BOOLEAN
    BY <1>6, <1>9, ZenonT(30)
<1> QED BY <1>7, <1>8, <1>9, ZenonT(30)

-----------------------------------------------------------------------------
(* What a step that creates a shard, and one that rotates, has to keep.     *)
TypeFrame ==
    /\ recs' \in [Shards -> Seq(Records)]
    /\ local' \subseteq Shards
    /\ whole' \subseteq Shards
    /\ nextShard' \in 1 .. (MaxShards + 1)
    /\ faults' \in Nat

RotateType ==
    /\ TypeFrame
    /\ f' \in {"open", "closed", "nil"}
    /\ currentShard' \in 0 .. MaxShards
    /\ queue' \in Seq(Shards)
    /\ currentShard' < nextShard'
    /\ main = "serving" \/ f' = "open" => currentShard' # 0

(* A new shard has the next name.                                           *)
LEMMA CreateShardType ==
    ASSUME TInv, NEW fresh \in FreshShards, CreateShard(fresh),
           fresh.ok => faults' \in Nat
    PROVE  /\ TypeFrame
           /\ nextShard \in Shards
           /\ nextShard' = nextShard + 1
<1>1. nextShard \in Shards
    BY SinkAssumption DEF TInv, TypeOK, CreateShard, Shards
<1>2. fresh.recs \in Seq(Records) /\ fresh.ok \in BOOLEAN
    BY FreshType, ZenonT(30) DEF TInv, TypeOK
<1>3. recs' \in [Shards -> Seq(Records)]
    BY <1>1, <1>2, ZenonT(30) DEF TInv, TypeOK, CreateShard
<1>4. local' \subseteq Shards /\ whole' \subseteq Shards
    BY <1>1, ZenonT(30) DEF TInv, TypeOK, CreateShard
<1>5. nextShard' \in 1 .. (MaxShards + 1) /\ nextShard' = nextShard + 1
    BY <1>1, SinkAssumption DEF CreateShard, Shards
<1>6. faults' \in Nat
    BY <1>2 DEF TInv, TypeOK, CreateShard, Fault
<1> QED BY <1>1, <1>3, <1>4, <1>5, <1>6, ZenonT(30) DEF TypeFrame

(* A write keeps the records of every shard, whatever it leaves behind.     *)
LEMMA WriteRecordType ==
    ASSUME TInv, NEW rec \in Records, NEW ok \in BOOLEAN, WriteRecord(rec, ok)
    PROVE  recs' \in [Shards -> Seq(Records)] /\ faults' \in Nat
<1>1. recs \in [Shards -> Seq(Records)] /\ faults \in Nat
    BY ZenonT(30) DEF TInv, TypeOK
<1>2. Torn \in Records
    BY ZenonT(30) DEF Records
<1>3. \A s \in Shards :
         /\ Append(recs[s], rec) \in Seq(Records)
         /\ Append(recs[s], Torn) \in Seq(Records)
    BY <1>1, <1>2
<1>4. f = "open" => currentShard \in Shards
    BY DEF TInv, TypeOK, Shards
<1>5. faults' \in Nat
    BY <1>1 DEF WriteRecord, Fault
<1>6. \/ recs' = recs
      \/ f = "open" /\ recs' = [recs EXCEPT ![currentShard] = Append(@, rec)]
      \/ f = "open" /\ recs' = [recs EXCEPT ![currentShard] = Append(@, Torn)]
    BY ZenonT(30) DEF WriteRecord
<1> QED BY <1>1, <1>3, <1>4, <1>5, <1>6, ZenonT(30)

(* Only shards are queued.                                                  *)
LEMMA SubmitType ==
    ASSUME queue \in Seq(Shards), NEW s \in Shards, Submit(s)
    PROVE  queue' \in Seq(Shards)
BY DEF Submit

(* An upload, or a question about one, keeps the types of the archive.      *)
LEMMA UploadType ==
    ASSUME TInv, NEW s \in Shards, NEW ok \in BOOLEAN,
           \/ Upload(s, recs[s], ok)
           \/ IsUploaded(s, recs[s], ok)
    PROVE  /\ archived' \in [Shards -> Seq(Records) \cup {NoObject}]
           /\ cache' \in [Shards -> Int]
<1>1. /\ archived \in [Shards -> Seq(Records) \cup {NoObject}]
      /\ cache \in [Shards -> Int]
      /\ recs[s] \in Seq(Records)
    BY ZenonT(30) DEF TInv, TypeOK
<1>2. Len(recs[s]) \in Int /\ (archived[s] # NoObject => Len(archived[s]) \in Int)
    BY <1>1
<1>3. \A c \in checkUploaded(s, Len(recs[s])) : c.cached \in Int
    BY <1>1, <1>2 DEF checkUploaded, Unknown
<1>4. ASSUME Upload(s, recs[s], ok)
      PROVE  /\ archived' \in [Shards -> Seq(Records) \cup {NoObject}]
             /\ cache' \in [Shards -> Int]
    BY <1>1, <1>2, <1>3, <1>4, ZenonT(30) DEF Upload
<1>5. ASSUME IsUploaded(s, recs[s], ok)
      PROVE  /\ archived' \in [Shards -> Seq(Records) \cup {NoObject}]
             /\ cache' \in [Shards -> Int]
    BY <1>1, <1>3, <1>5, ZenonT(30) DEF IsUploaded
<1> QED BY <1>4, <1>5, ZenonT(30)

TaskTypes ==
    [Workers -> {NoTask} \cup [at : {"sweep", "exited"}] \cup
                [at : {"upload", "backoff"}, shard : Shards]]

SweepTypes ==
    {NoSweep} \cup
    [at : {"walk"}, by : Workers \cup {"ticker"}, current : 0 .. MaxShards] \cup
    [at : {"remove"}, by : Workers \cup {"ticker"}, current : 0 .. MaxShards,
     shard : Shards]

(* A sweep that is under way knows who runs it and the shard it spares.     *)
LEMMA SweepShape ==
    ASSUME TInv, sweep.at \in {"walk", "remove"}
    PROVE  /\ sweep.by \in Workers \cup {"ticker"}
           /\ sweep.current \in 0 .. MaxShards
           /\ sweep.at = "remove" => sweep.shard \in Shards
<1>1. sweep \in SweepTypes
    BY ZenonT(30) DEF TInv, TypeOK, SweepTypes
<1>2. NoSweep.at = "idle"
    BY ZenonT(30) DEF NoSweep
<1>3. sweep # NoSweep
    BY <1>2, ZenonT(30)
<1> QED BY <1>1, <1>3, ZenonT(30) DEF SweepTypes

(* A sweep disturbs the directory, the archive's cache and its worker.      *)
LEMMA SweepFrameType ==
    ASSUME TInv, UNCHANGED sweepFrame, sweep' \in SweepTypes,
           local' \subseteq Shards,
           task' \in TaskTypes \/ UNCHANGED task,
           archived' \in [Shards -> Seq(Records) \cup {NoObject}],
           cache' \in [Shards -> Int]
    PROVE  TInv'
BY ZenonT(30) DEF TInv, TypeOK, TaskTypes, SweepTypes, sweepFrame, fileVars, codeVars,
       bootVars

(* The catch-up queues shards of the directory.                             *)
LEMMA CatchUpType ==
    ASSUME TInv, enqueueCatchUp
    PROVE  queue' \in Seq(Shards) /\ caughtUp' \in BOOLEAN
<1>1. IsFiniteSet(Shards)
  <2>1. 1 \in Int /\ MaxShards \in Int
      BY SinkAssumption
  <2> QED BY <2>1, FS_Interval, ZenonT(30) DEF Shards
<1>2. local \in SUBSET Shards
    BY ZenonT(30) DEF TInv, TypeOK
<1>3. Cardinality(local) \in Nat
  <2>1. IsFiniteSet(local)
      BY <1>1, <1>2, FS_Subset, ZenonT(30)
  <2> QED BY <2>1, FS_CardinalityType, ZenonT(30)
<1>4. ASSUME NEW q \in InOrder(local) PROVE q \in Seq(Shards)
  <2>1. q \in [1 .. Cardinality(local) -> Shards]
      BY <1>2, ZenonT(30) DEF InOrder
  <2> QED BY <1>3, <2>1
<1>5. <<>> \in Seq(Shards)
    OBVIOUS
<1> QED BY <1>4, <1>5, ZenonT(30) DEF enqueueCatchUp

(* A worker that uploads has a shard.                                       *)
LEMMA TaskShard ==
    ASSUME TInv, NEW k \in Workers, task[k].at \in {"upload", "backoff"}
    PROVE  task[k].shard \in Shards
<1>1. \/ task[k] = NoTask
      \/ task[k] \in [at : {"sweep", "exited"}]
      \/ task[k] \in [at : {"upload", "backoff"}, shard : Shards]
    BY ZenonT(30) DEF TInv, TypeOK
<1>2. NoTask.at = "idle"
    BY ZenonT(30) DEF NoTask
<1>3. task[k] # NoTask /\ task[k] \notin [at : {"sweep", "exited"}]
    BY <1>2, ZenonT(30)
<1> QED BY <1>1, <1>3, ZenonT(30)

(* A worker disturbs the queue, its task and the archive.                   *)
LEMMA ArchiveFrameType ==
    ASSUME TInv, UNCHANGED <<taskFrame, sweep>>,
           queue' \in Seq(Shards), task' \in TaskTypes,
           archived' \in [Shards -> Seq(Records) \cup {NoObject}],
           cache' \in [Shards -> Int]
    PROVE  TInv'
BY ZenonT(30) DEF TInv, TypeOK, TaskTypes, taskFrame, diskVars, fileVars, codeVars, bootVars

(* A worker that asks nothing of the archive.                               *)
LEMMA FrameType ==
    ASSUME TInv, UNCHANGED <<taskFrame, sweep, archived, cache>>,
           queue' \in Seq(Shards), task' \in TaskTypes
    PROVE  TInv'
BY ZenonT(30) DEF TInv, TypeOK, TaskTypes, taskFrame, diskVars, fileVars, codeVars, bootVars

(* Init has the types.                                                      *)
LEMMA InitType == Init => TInv
<1> SUFFICES ASSUME Init PROVE TInv
    OBVIOUS
<1> USE SinkAssumption
<1>1. recs \in [Shards -> Seq(Records)]
    BY DEF Init
<1>2. cache \in [Shards -> Int]
    BY DEF Init, NoCache, Unknown
<1>3. queue \in Seq(Shards)
    BY DEF Init
<1>4. typeCodes \in [Types -> Nat] /\ nextTypeCode \in Nat
    BY ZenonT(30) DEF Init, FirstCode
<1>5. /\ nextShard \in 1 .. (MaxShards + 1)
      /\ boot \in 1 .. MaxShards
      /\ currentShard \in 0 .. MaxShards
      /\ currentShard < nextShard
    BY DEF Init
<1> QED BY <1>1, <1>2, <1>3, <1>4, <1>5, ZenonT(30) DEF Init, TInv, TypeOK

(* Every step preserves the types.                                          *)
LEMMA StepType == TInv /\ [Next]_vars => TInv'
<1> SUFFICES ASSUME TInv, [Next]_vars PROVE TInv'
    OBVIOUS
<1> USE SinkAssumption
<1>1. ASSUME Tick PROVE TInv'
  <2>1. UNCHANGED <<main, codeVars, req, task, sweep, writes, bootVars,
                    archived, cache>> /\ sweeps' \in Nat /\ main # "down"
      BY <1>1, SMTT(30) DEF Tick, TInv, TypeOK
  <2>2. RotateType
    <3>1. ASSUME f = "closed", UNCHANGED <<diskVars, fileVars, queue, faults>>
          PROVE  RotateType
        BY <3>1, ZenonT(30) DEF TInv, TypeOK, TypeFrame, RotateType, diskVars, fileVars
    <3>2. ASSUME f # "closed", Fault,
                 f' = IF f = "open" THEN "closed" ELSE f,
                 UNCHANGED <<diskVars, currentShard, queue>>
          PROVE  RotateType
        BY <3>2 DEF TInv, TypeOK, TypeFrame, RotateType, diskVars, Fault
    <3>3. ASSUME NEW fresh \in FreshShards, f # "closed", CreateShard(fresh),
                 fresh.ok => UNCHANGED faults,
                 IF fresh.ok /\ f = "open" THEN Submit(currentShard)
                                           ELSE UNCHANGED queue,
                 f' = "open", currentShard' = nextShard
          PROVE  RotateType
      <4>1. TypeFrame /\ nextShard \in Shards /\ nextShard' = nextShard + 1
          BY <3>3, CreateShardType, ZenonT(30) DEF TInv, TypeOK
      <4>2. queue' \in Seq(Shards)
        <5>1. f = "open" => currentShard \in Shards
            BY DEF TInv, TypeOK, Shards
        <5> QED BY <3>3, <5>1, SubmitType, ZenonT(30) DEF TInv, TypeOK
      <4> QED BY <3>3, <4>1, <4>2 DEF Shards, RotateType
    <3> QED BY <1>1, <3>1, <3>2, <3>3, ZenonT(30) DEF Tick, rotateShard
  <2> QED BY <2>1, <2>2, ZenonT(30)
          DEF TInv, TypeOK, TypeFrame, RotateType, codeVars, bootVars
<1>2. ASSUME NEW r \in Requests, CodeForType(r) PROVE TInv'
  <2>1. UNCHANGED <<storeVars, diskVars, main, fileVars, queue, task, sweeps,
                    sweep, bootVars>> /\ writes' \in Nat
      BY <1>2, SMTT(30) DEF CodeForType, TInv, TypeOK
  <2>2. PICK t \in Types :
        \/ /\ typeCodes[t] # 0
           /\ req' = [req EXCEPT ![r] =
                        [at |-> "object", type |-> t, code |-> typeCodes[t]]]
           /\ UNCHANGED codeVars
        \/ /\ typeCodes[t] = 0
           /\ typeCodes' = [typeCodes EXCEPT ![t] = nextTypeCode]
           /\ nextTypeCode' = nextTypeCode + 1
           /\ req' = [req EXCEPT ![r] =
                        [at |-> "mapping", type |-> t, code |-> nextTypeCode]]
      BY <1>2, ZenonT(30) DEF CodeForType
  <2>3. typeCodes[t] \in Nat /\ nextTypeCode \in Nat
      BY ZenonT(30) DEF TInv, TypeOK
  <2>4. typeCodes' \in [Types -> Nat] /\ nextTypeCode' \in Nat
      BY <2>2, <2>3 DEF TInv, TypeOK, codeVars
  <2>5. req' \in [Requests ->
                    {NoRequest} \cup
                    [at : {"mapping", "object"}, type : Types, code : Nat]]
    <3>1. \E at \in {"mapping", "object"}, c \in Nat :
             req' = [req EXCEPT ![r] = [at |-> at, type |-> t, code |-> c]]
        BY <2>2, <2>3, ZenonT(30)
    <3>2. PICK new \in [at : {"mapping", "object"}, type : Types, code : Nat] :
             req' = [req EXCEPT ![r] = new]
        BY <3>1, ZenonT(30)
    <3> QED BY <3>2, ZenonT(30) DEF TInv, TypeOK
  <2> QED BY <2>1, <2>4, <2>5, ZenonT(30)
          DEF TInv, TypeOK, storeVars, diskVars, fileVars, bootVars
<1>3. ASSUME NEW r \in Requests, WriteMapping(r) PROVE TInv'
  <2>1. UNCHANGED <<local, nextShard, whole, main, fileVars, codeVars, queue,
                    task, sweeps, sweep, writes, bootVars, archived, cache>>
      BY <1>3, ZenonT(30) DEF WriteMapping
  <2>2. PICK ok \in BOOLEAN :
           /\ WriteRecord(Mapping(req[r].code, req[r].type), ok)
           /\ req' = [req EXCEPT ![r] =
                        IF ok THEN [at |-> "object", type |-> req[r].type,
                                    code |-> req[r].code]
                        ELSE NoRequest]
      BY <1>3, ZenonT(30) DEF WriteMapping
  <2>3. req[r].type \in Types /\ req[r].code \in Nat
      BY <1>3 DEF WriteMapping, TInv, TypeOK, NoRequest
  <2>4. Mapping(req[r].code, req[r].type) \in Records
      BY <2>3, ZenonT(30) DEF Mapping, Records
  <2>5. recs' \in [Shards -> Seq(Records)] /\ faults' \in Nat
      BY <2>2, <2>4, WriteRecordType, ZenonT(30)
  <2>6. req' \in [Requests ->
                    {NoRequest} \cup
                    [at : {"mapping", "object"}, type : Types, code : Nat]]
      BY <2>2, <2>3, ZenonT(30) DEF TInv, TypeOK
  <2> QED BY <2>1, <2>5, <2>6, ZenonT(30) DEF TInv, TypeOK, fileVars, codeVars, bootVars
<1>4. ASSUME NEW r \in Requests, WriteData(r) PROVE TInv'
  <2>1. UNCHANGED <<local, nextShard, whole, main, fileVars, codeVars, queue,
                    task, sweeps, sweep, writes, bootVars, archived, cache>>
      BY <1>4, ZenonT(30) DEF WriteData
  <2>2. PICK ok \in BOOLEAN : WriteRecord(Object(req[r].code, req[r].type), ok)
      BY <1>4, ZenonT(30) DEF WriteData
  <2>3. req[r].type \in Types /\ req[r].code \in Nat
      BY <1>4 DEF WriteData, TInv, TypeOK, NoRequest
  <2>4. Object(req[r].code, req[r].type) \in Records
      BY <2>3, ZenonT(30) DEF Object, Records
  <2>5. recs' \in [Shards -> Seq(Records)] /\ faults' \in Nat
      BY <2>2, <2>4, WriteRecordType, ZenonT(30)
  <2>6. req' \in [Requests ->
                    {NoRequest} \cup
                    [at : {"mapping", "object"}, type : Types, code : Nat]]
      BY <1>4, ZenonT(30) DEF WriteData, TInv, TypeOK
  <2> QED BY <2>1, <2>5, <2>6, ZenonT(30) DEF TInv, TypeOK, fileVars, codeVars, bootVars
<1>5. ASSUME NEW k \in Workers, PopTask(k) PROVE TInv'
  <2>1. UNCHANGED <<taskFrame, sweep, archived, cache>>
      BY <1>5, ZenonT(30) DEF PopTask
  <2>2. queue \in Seq(Shards) /\ queue # <<>>
      BY <1>5, ZenonT(30) DEF PopTask, TInv, TypeOK
  <2>3. Head(queue) \in Shards /\ queue' \in Seq(Shards)
      BY <1>5, <2>2 DEF PopTask
  <2>4. task' \in TaskTypes
      BY <1>5, <2>3, ZenonT(30) DEF PopTask, TInv, TypeOK, TaskTypes
  <2> QED BY <2>1, <2>3, <2>4, FrameType, ZenonT(30) DEF taskFrame
<1>6. ASSUME NEW k \in Workers, WorkerExits(k) \/ AbortRetry(k) PROVE TInv'
  <2>1. UNCHANGED <<taskFrame, queue, sweep, archived, cache>>
      BY <1>6, ZenonT(30) DEF WorkerExits, AbortRetry
  <2>2. task' \in TaskTypes
    <3>1. \/ task' = [task EXCEPT ![k] = NoTask]
          \/ task' = [task EXCEPT ![k] = [at |-> "exited"]]
        BY <1>6, ZenonT(30) DEF WorkerExits, AbortRetry
    <3>2. [at |-> "exited"] \in [at : {"sweep", "exited"}]
        OBVIOUS
    <3>3. PICK new \in {NoTask} \cup [at : {"sweep", "exited"}] :
             task' = [task EXCEPT ![k] = new]
        BY <3>1, <3>2, ZenonT(30)
    <3> QED BY <3>3, ZenonT(30) DEF TInv, TypeOK, TaskTypes
  <2> QED BY <2>1, <2>2, FrameType, ZenonT(30) DEF TInv, TypeOK
<1>7. ASSUME NEW k \in Workers, TryUpload(k) PROVE TInv'
  <2>1. UNCHANGED <<taskFrame, queue, sweep>>
      BY <1>7, ZenonT(30) DEF TryUpload
  <2>2. task[k].shard \in Shards
      BY <1>7, ZenonT(30) DEF TryUpload, TInv, TypeOK
  <2>3. task' \in TaskTypes
      BY <1>7, ZenonT(30) DEF TryUpload, TInv, TypeOK, TaskTypes
  <2>4. /\ archived' \in [Shards -> Seq(Records) \cup {NoObject}]
        /\ cache' \in [Shards -> Int]
      BY <1>7, <2>2, UploadType, ZenonT(30) DEF TryUpload
  <2> QED BY <2>1, <2>3, <2>4, ArchiveFrameType, ZenonT(30) DEF TInv, TypeOK
<1>8. ASSUME NEW k \in Workers, UploadFails(k) PROVE TInv'
  <2>1. UNCHANGED <<taskFrame, queue, sweep>>
      BY <1>8, ZenonT(30) DEF UploadFails
  <2>2. task[k].shard \in Shards
      BY <1>8, TaskShard, ZenonT(30) DEF UploadFails, Tries
  <2>3. task' \in TaskTypes
    <3>1. PICK new \in [at : {"upload", "backoff"}, shard : Shards] :
             task' = [task EXCEPT ![k] = new]
        BY <1>8, <2>2, ZenonT(30) DEF UploadFails
    <3> QED BY <3>1, ZenonT(30) DEF TInv, TypeOK, TaskTypes
  <2>4. /\ archived' \in [Shards -> Seq(Records) \cup {NoObject}]
        /\ cache' \in [Shards -> Int]
    <3>1. ASSUME Upload(task[k].shard, recs[task[k].shard], FALSE)
          PROVE  /\ archived' \in [Shards -> Seq(Records) \cup {NoObject}]
                 /\ cache' \in [Shards -> Int]
        BY <2>2, <3>1, UploadType, ZenonT(30)
    <3>2. ASSUME UNCHANGED <<archived, cache>>
          PROVE  /\ archived' \in [Shards -> Seq(Records) \cup {NoObject}]
                 /\ cache' \in [Shards -> Int]
        BY <3>2, ZenonT(30) DEF TInv, TypeOK
    <3> QED BY <1>8, <3>1, <3>2, ZenonT(30) DEF UploadFails
  <2> QED BY <2>1, <2>3, <2>4, ArchiveFrameType, ZenonT(30) DEF TInv, TypeOK
<1>9. ASSUME NEW by \in Workers \cup {"ticker"}, StartSweep(by) PROVE TInv'
  <2>1. UNCHANGED <<storeVars, diskVars, main, fileVars, codeVars, req, queue,
                    task, writes, bootVars>>
      BY <1>9, ZenonT(30) DEF StartSweep
  <2>2. sweeps' \in Nat
      BY <1>9, SMTT(30) DEF StartSweep, TInv, TypeOK
  <2>3. sweep' \in SweepTypes
      BY <1>9, ZenonT(30) DEF StartSweep, SweepTypes, TInv, TypeOK
  <2> QED BY <2>1, <2>2, <2>3, ZenonT(30)
          DEF TInv, TypeOK, SweepTypes, storeVars, diskVars, fileVars, codeVars,
              bootVars
<1>10. ASSUME VisitShard PROVE TInv'
  <2>1. UNCHANGED <<sweepFrame, local, task>> /\ sweep.at = "walk"
      BY <1>10, ZenonT(30) DEF VisitShard
  <2>2. PICK s \in local \ {sweep.current} :
           \/ /\ IsUploaded(s, recs[s], FALSE)
              /\ UNCHANGED sweep
           \/ /\ IsUploaded(s, recs[s], TRUE)
              /\ sweep' = [at |-> "remove", by |-> sweep.by,
                           current |-> sweep.current, shard |-> s]
      BY <1>10, ZenonT(30) DEF VisitShard
  <2>3. s \in Shards
      BY ZenonT(30) DEF TInv, TypeOK
  <2>4. /\ archived' \in [Shards -> Seq(Records) \cup {NoObject}]
        /\ cache' \in [Shards -> Int]
      BY <2>2, <2>3, UploadType, ZenonT(30)
  <2>5. sweep' \in SweepTypes
    <3>1. sweep \in SweepTypes
        BY ZenonT(30) DEF TInv, TypeOK, SweepTypes
    <3>2. sweep.by \in Workers \cup {"ticker"} /\ sweep.current \in 0 .. MaxShards
        BY <2>1, SweepShape, ZenonT(30)
    <3>3. [at |-> "remove", by |-> sweep.by, current |-> sweep.current,
           shard |-> s] \in SweepTypes
        BY <2>3, <3>2, ZenonT(30) DEF SweepTypes
    <3> QED BY <2>2, <3>1, <3>3, ZenonT(30)
  <2> QED BY <2>1, <2>4, <2>5, SweepFrameType, ZenonT(30) DEF TInv, TypeOK
<1>11. ASSUME RemoveShard PROVE TInv'
  <2>1. UNCHANGED <<sweepFrame, task, archived, cache>> /\ sweep.at = "remove"
      BY <1>11, ZenonT(30) DEF RemoveShard
  <2>2. local' \subseteq Shards
      BY <1>11, ZenonT(30) DEF RemoveShard, TInv, TypeOK
  <2>3. sweep' \in SweepTypes
      BY <1>11, <2>1, SweepShape, ZenonT(30) DEF RemoveShard, SweepTypes
  <2> QED BY <2>1, <2>2, <2>3, SweepFrameType, ZenonT(30) DEF TInv, TypeOK, TaskTypes
<1>12. ASSUME EndSweep PROVE TInv'
  <2>1. UNCHANGED <<sweepFrame, local, archived, cache>>
      BY <1>12, ZenonT(30) DEF EndSweep
  <2>2. sweep' \in SweepTypes
      BY <1>12, ZenonT(30) DEF EndSweep, SweepTypes
  <2>3. task' \in TaskTypes
      BY <1>12, ZenonT(30) DEF EndSweep, TaskTypes, TInv, TypeOK
  <2> QED BY <2>1, <2>2, <2>3, SweepFrameType, ZenonT(30) DEF TInv, TypeOK
<1>13. ASSUME NewWriter PROVE TInv'
  <2>1. UNCHANGED <<codeVars, req, task, sweeps, sweep, writes, archived, cache>>
        /\ main = "down"
      BY <1>13, ZenonT(30) DEF NewWriter
  <2>2. PICK fresh \in FreshShards :
        /\ CreateShard(fresh)
        /\ \/ /\ ~fresh.ok
              /\ UNCHANGED <<main, fileVars, queue, bootVars>>
           \/ /\ fresh.ok
              /\ enqueueCatchUp
              /\ main' = "serving"
              /\ f' = "open"
              /\ currentShard' = nextShard
              /\ boot' = nextShard
      BY <1>13, ZenonT(30) DEF NewWriter
  <2>3. fresh.ok => faults' \in Nat
      BY <2>2 DEF enqueueCatchUp, Fault, TInv, TypeOK
  <2>4. TypeFrame /\ nextShard \in Shards /\ nextShard' = nextShard + 1
      BY <2>2, <2>3, CreateShardType, ZenonT(30)
  <2>5. ASSUME ~fresh.ok, UNCHANGED <<main, fileVars, queue, bootVars>>
        PROVE  TInv'
    <3>1. TypeOK'
        BY <2>1, <2>4, <2>5, ZenonT(30)
           DEF TInv, TypeOK, TypeFrame, codeVars, fileVars, bootVars
    <3>2. currentShard' < nextShard'
        BY <2>4, <2>5, SMTT(30) DEF TInv, TypeOK, fileVars
    <3> QED BY <2>5, <3>1, <3>2, ZenonT(30) DEF TInv, fileVars
  <2>6. ASSUME enqueueCatchUp, main' = "serving", f' = "open",
               currentShard' = nextShard, boot' = nextShard
        PROVE  TInv'
    <3>1. queue' \in Seq(Shards) /\ caughtUp' \in BOOLEAN
        BY <2>6, CatchUpType, ZenonT(30)
    <3>2. nextShard \in 1 .. MaxShards /\ nextShard # 0 /\ nextShard < nextShard'
        BY <2>4 DEF Shards
    <3> QED BY <2>1, <2>4, <2>6, <3>1, <3>2 DEF TInv, TypeOK, TypeFrame, codeVars
  <2> QED BY <2>2, <2>5, <2>6, ZenonT(30)
<1>14. ASSUME CloseFile \/ CloseRunner PROVE TInv'
  <2>1. UNCHANGED closeFrame /\ main' \in {"closing", "draining"}
      BY <1>14, ZenonT(30) DEF CloseFile, CloseRunner
  <2>2. f' \in {"open", "closed", "nil"} /\ (f' = "open" => f = "open")
      BY <1>14, ZenonT(30) DEF CloseFile, CloseRunner, TInv, TypeOK
  <2>3. queue' \in Seq(Shards)
    <3>1. main = "serving" => currentShard \in Shards
        BY SMTT(30) DEF TInv, TypeOK, Shards
    <3> QED BY <1>14, <3>1, SubmitType, ZenonT(30) DEF CloseFile, CloseRunner, TInv, TypeOK
  <2> QED BY <2>1, <2>2, <2>3, ZenonT(30)
          DEF TInv, TypeOK, closeFrame, storeVars, diskVars, codeVars, bootVars
<1>15. ASSUME Exit \/ Crash PROVE TInv'
  <2>1. Gone /\ faults' \in Nat
      BY <1>15 DEF Exit, Crash, Fault, TInv, TypeOK
  <2>2. cache' \in [Shards -> Int] /\ queue' \in Seq(Shards)
      BY <2>1 DEF Gone, NoCache, Unknown
  <2>3. typeCodes' \in [Types -> Nat] /\ nextTypeCode' \in Nat
      BY <2>1, ZenonT(30) DEF Gone, FirstCode
  <2> QED BY <2>1, <2>2, <2>3, SMTT(30) DEF Gone, TInv, TypeOK, diskVars, bootVars
<1>16. ASSUME UNCHANGED vars PROVE TInv'
    BY <1>16, ZenonT(30) DEF vars, storeVars, diskVars, fileVars, codeVars, bootVars, TInv,
                 TypeOK
<1> QED BY <1>1, <1>2, <1>3, <1>4, <1>5, <1>6, <1>7, <1>8, <1>9, <1>10, <1>11,
           <1>12, <1>13, <1>14, <1>15, <1>16, ZenonT(30)
        DEF Next, Worker, Sweep, Close

(* Every variable of the sink keeps its type, and there is always a shard   *)
(* to hand to the uploader when Writer.Close takes the current one.         *)
THEOREM TypeCorrect == Spec => []TypeOK
<1>1. TInv => TypeOK
    BY ZenonT(30) DEF TInv
<1> QED BY InitType, StepType, <1>1, PTL DEF Spec

-----------------------------------------------------------------------------
(* An answer of the archive that a shard is there is right, although it may *)
(* be from the cache.                                                       *)
LEMMA CheckUploadedTrue ==
    ASSUME Inv, NEW s \in Shards, NEW size,
           NEW c \in checkUploaded(s, size)
    PROVE  /\ c.cached # Unknown => archived[s] # NoObject
           /\ c.says = "yes" => archived[s] # NoObject
<1>1. CASE cache[s] # Unknown
    BY <1>1, ZenonT(30) DEF Inv
<1>2. CASE cache[s] = Unknown
  <2>1. checkUploaded(s, size) =
           {[says |-> "error", cached |-> Unknown]} \cup
           {[says |-> IF n = size THEN "yes" ELSE "no", cached |-> n] :
              n \in IF archived[s] = NoObject THEN {} ELSE {Len(archived[s])}}
      BY <1>2, ZenonT(30) DEF checkUploaded
  <2>2. CASE archived[s] = NoObject
      BY <2>1, <2>2
  <2>3. CASE archived[s] # NoObject
      BY <2>3, ZenonT(30)
  <2> QED BY <2>2, <2>3, ZenonT(30)
<1> QED BY <1>1, <1>2, ZenonT(30)

(* An upload stores the shard as it is on the disk, or nothing.             *)
LEMMA UploadStores ==
    ASSUME TInv, Inv, NEW s \in Shards, NEW ok \in BOOLEAN,
           Upload(s, recs[s], ok)
    PROVE  /\ \A x \in Shards :
                 \/ archived'[x] = archived[x]
                 \/ x = s /\ archived'[x] = recs[x]
           /\ \A x \in Shards : archived[x] # NoObject => archived'[x] # NoObject
           /\ \A x \in Shards : cache'[x] # Unknown => archived'[x] # NoObject
<1>1. /\ archived \in [Shards -> Seq(Records) \cup {NoObject}]
      /\ cache \in [Shards -> Int]
      /\ recs[s] \in Seq(Records)
      /\ recs[s] # NoObject
    BY SinkAssumption DEF TInv, TypeOK
<1>2. PICK c \in checkUploaded(s, Len(recs[s])) :
        \/ /\ c.says = "yes"
           /\ cache' = [cache EXCEPT ![s] = c.cached]
           /\ archived' = archived
        \/ /\ archived' = [archived EXCEPT ![s] = recs[s]]
           /\ cache' = [cache EXCEPT ![s] = Len(recs[s])]
        \/ /\ archived' \in {archived, [archived EXCEPT ![s] = recs[s]]}
           /\ cache' = [cache EXCEPT ![s] = c.cached]
    BY ZenonT(30) DEF Upload
<1>3. c.cached # Unknown => archived[s] # NoObject
    BY CheckUploadedTrue, ZenonT(30)
<1>4. archived' = archived \/ archived' = [archived EXCEPT ![s] = recs[s]]
    BY <1>2, ZenonT(30)
<1>5. \A x \in Shards :
         \/ archived'[x] = archived[x]
         \/ x = s /\ archived'[x] = recs[x]
    BY <1>1, <1>4, ZenonT(30)
<1>6. \A x \in Shards : archived[x] # NoObject => archived'[x] # NoObject
    BY <1>1, <1>4, ZenonT(30)
<1>7. \A x \in Shards : cache'[x] # Unknown => archived'[x] # NoObject
  <2> SUFFICES ASSUME NEW x \in Shards, cache'[x] # Unknown
               PROVE  archived'[x] # NoObject
      OBVIOUS
  <2>1. CASE x # s
    <3>1. cache'[x] = cache[x]
        BY <1>1, <1>2, <2>1, ZenonT(30)
    <3> QED BY <1>6, <3>1, ZenonT(30) DEF Inv
  <2>2. CASE x = s /\ cache' = [cache EXCEPT ![s] = c.cached]
    <3>1. cache'[x] = c.cached
        BY <1>1, <2>2, ZenonT(30)
    <3> QED BY <1>3, <1>6, <2>2, <3>1, ZenonT(30)
  <2>3. CASE x = s /\ archived' = [archived EXCEPT ![s] = recs[s]]
      BY <1>1, <2>3, ZenonT(30)
  <2> QED BY <1>2, <2>1, <2>2, <2>3, ZenonT(30)
<1> QED BY <1>5, <1>6, <1>7, ZenonT(30)

(* A question to the archive stores nothing, and a yes is right.            *)
LEMMA IsUploadedTrue ==
    ASSUME TInv, Inv, NEW s \in Shards, NEW answer \in BOOLEAN,
           IsUploaded(s, recs[s], answer)
    PROVE  /\ archived' = archived
           /\ \A x \in Shards : cache'[x] # Unknown => archived[x] # NoObject
           /\ answer => archived[s] # NoObject
<1>1. PICK c \in checkUploaded(s, Len(recs[s])) :
         /\ answer = (c.says = "yes")
         /\ cache' = [cache EXCEPT ![s] = c.cached]
         /\ archived' = archived
    BY ZenonT(30) DEF IsUploaded
<1>2. /\ c.cached # Unknown => archived[s] # NoObject
      /\ c.says = "yes" => archived[s] # NoObject
    BY CheckUploadedTrue, ZenonT(30)
<1>3. \A x \in Shards : cache'[x] # Unknown => archived[x] # NoObject
  <2> SUFFICES ASSUME NEW x \in Shards, cache'[x] # Unknown
               PROVE  archived[x] # NoObject
      OBVIOUS
  <2>1. cache \in [Shards -> Int]
      BY ZenonT(30) DEF TInv, TypeOK
  <2>2. CASE x = s
      BY <1>1, <1>2, <2>1, <2>2, ZenonT(30)
  <2>3. CASE x # s
      BY <1>1, <2>1, <2>3, ZenonT(30) DEF Inv
  <2> QED BY <2>2, <2>3, ZenonT(30)
<1>4. answer => c.says = "yes"
    BY <1>1, Zenon
<1> QED BY <1>1, <1>2, <1>3, <1>4, ZenonT(30)

-----------------------------------------------------------------------------
(* A step that leaves the shards and the archive alone and queues nothing.  *)
LEMMA QuietStep ==
    ASSUME TInv, Inv,
           UNCHANGED <<archived, cache, recs, local, nextShard, fileVars>>,
           \A s \in Shards : Busy(s)' => Busy(s),
           sweep'.at = "remove" => sweep' = sweep
    PROVE  Inv'
<1>1. f = "open" => currentShard \in Shards
    BY DEF TInv, TypeOK, Shards
<1>2. f' = "open" =>
         archived'[currentShard'] = NoObject /\ ~Busy(currentShard)'
    BY <1>1, ZenonT(30) DEF Inv, fileVars
<1> QED BY <1>2, ZenonT(30) DEF Inv, ArchivedIsFinal, fileVars

(* What is queued and with the workers is the same when neither changes.    *)
LEMMA BusySame ==
    ASSUME UNCHANGED <<queue, task>>, NEW s
    PROVE  Busy(s)' <=> Busy(s)
BY ZenonT(30) DEF Busy

(* A worker that ends its task, or begins to wait, has no new shard.        *)
LEMMA BusyShrinks ==
    ASSUME TInv, UNCHANGED queue, NEW k \in Workers, NEW new,
           task' = [task EXCEPT ![k] = new],
           new.at \in {"upload", "backoff"} =>
              /\ task[k].at \in {"upload", "backoff"}
              /\ new.shard = task[k].shard,
           NEW s \in Shards, Busy(s)'
    PROVE  Busy(s)
<1>1. CASE \E i \in DOMAIN queue' : queue'[i] = s
    BY <1>1, ZenonT(30) DEF Busy
<1>2. ASSUME NEW j \in Workers,
             task'[j].at \in {"upload", "backoff"}, task'[j].shard = s
      PROVE  Busy(s)
  <2>1. task'[j] = IF j = k THEN new ELSE task[j]
      BY ZenonT(30) DEF TInv, TypeOK
  <2>2. task[j].at \in {"upload", "backoff"} /\ task[j].shard = s
      BY <1>2, <2>1, ZenonT(30)
  <2> QED BY <2>2, ZenonT(30) DEF Busy
<1> QED BY <1>1, <1>2, ZenonT(30) DEF Busy

(* A shard that is taken from the queue was busy.                           *)
LEMMA BusyPop ==
    ASSUME TInv, NEW k \in Workers, PopTask(k), NEW s \in Shards, Busy(s)'
    PROVE  Busy(s)
<1>1. queue \in Seq(Shards) /\ queue # <<>> /\ queue' = Tail(queue)
    BY ZenonT(30) DEF PopTask, TInv, TypeOK
<1>2. 1 \in DOMAIN queue /\ Head(queue) = queue[1]
    BY <1>1
<1>3. ASSUME NEW i \in DOMAIN queue', queue'[i] = s PROVE Busy(s)
  <2>1. i + 1 \in DOMAIN queue /\ queue[i + 1] = s
      BY <1>1, <1>3, SMTT(30)
  <2> QED BY <2>1, ZenonT(30) DEF Busy
<1>4. ASSUME NEW j \in Workers,
             task'[j].at \in {"upload", "backoff"}, task'[j].shard = s
      PROVE  Busy(s)
  <2>1. CASE task'[j] = task[j]
      BY <1>4, <2>1, ZenonT(30) DEF Busy
  <2>2. CASE task'[j] = [at |-> "upload", shard |-> Head(queue)]
      BY <1>2, <1>4, <2>2, SMTT(30) DEF Busy
  <2> QED BY <2>1, <2>2, ZenonT(30) DEF PopTask, TInv, TypeOK
<1> QED BY <1>3, <1>4, ZenonT(30) DEF Busy

(* An upload by a worker: its shard is not the current one, and not a name  *)
(* that is still to come.                                                   *)
LEMMA UploadStep ==
    ASSUME TInv, Inv, NEW k \in Workers,
           task[k].at \in {"upload", "backoff"},
           NEW ok \in BOOLEAN, Upload(task[k].shard, recs[task[k].shard], ok),
           UNCHANGED <<recs, local, nextShard, fileVars, sweep>>,
           \A s \in Shards : Busy(s)' => Busy(s)
    PROVE  Inv'
<1> DEFINE u == task[k].shard
<1>1. u \in Shards /\ Busy(u)
    BY TaskShard, ZenonT(30) DEF Busy
<1> HIDE DEF u
<1>2. /\ \A x \in Shards :
            \/ archived'[x] = archived[x]
            \/ x = u /\ archived'[x] = recs[x]
      /\ \A x \in Shards : archived[x] # NoObject => archived'[x] # NoObject
      /\ \A x \in Shards : cache'[x] # Unknown => archived'[x] # NoObject
    BY <1>1, UploadStores, ZenonT(30) DEF u
<1>3. f = "open" => currentShard \in Shards
    BY SMTT(30) DEF TInv, TypeOK, Shards
<1>4. f' = "open" =>
         archived'[currentShard'] = NoObject /\ ~Busy(currentShard)'
    BY <1>1, <1>2, <1>3, ZenonT(30) DEF Inv, fileVars
<1>5. \A s \in Shards : s >= nextShard =>
         archived'[s] = NoObject /\ s \notin local /\ ~Busy(s)'
    BY <1>1, <1>2, ZenonT(30) DEF Inv
<1>6. sweep'.at = "remove" => archived'[sweep'.shard] # NoObject
    BY <1>2, SweepShape, ZenonT(30) DEF Inv
<1>7. ArchivedIsFinal'
    BY <1>2, ZenonT(30) DEF Inv, ArchivedIsFinal
<1>8. \A s \in Shards :
         s < nextShard /\ s \notin local => archived'[s] # NoObject
    BY <1>2, ZenonT(30) DEF Inv
<1> QED BY <1>2, <1>4, <1>5, <1>6, <1>7, <1>8, ZenonT(30) DEF Inv

(* A write goes to the current shard, which is not archived.                *)
LEMMA WriteStep ==
    ASSUME TInv, Inv, NEW rec, NEW ok \in BOOLEAN, WriteRecord(rec, ok),
           UNCHANGED <<local, nextShard, fileVars, queue, task, sweep, archived,
                       cache>>
    PROVE  Inv'
<1>1. \A s \in Shards : archived[s] # NoObject => recs'[s] = recs[s]
  <2>1. recs \in [Shards -> Seq(Records)]
      BY ZenonT(30) DEF TInv, TypeOK
  <2>2. \/ recs' = recs
        \/ f = "open" /\ recs' = [recs EXCEPT ![currentShard] = Append(@, rec)]
        \/ f = "open" /\ recs' = [recs EXCEPT ![currentShard] = Append(@, Torn)]
      BY ZenonT(30) DEF WriteRecord
  <2> QED BY <2>1, <2>2, ZenonT(30) DEF Inv
<1>2. \A s : Busy(s)' <=> Busy(s)
    BY BusySame, ZenonT(30)
<1>3. ArchivedIsFinal'
    BY <1>1, ZenonT(30) DEF Inv, ArchivedIsFinal
<1> QED BY <1>2, <1>3, ZenonT(30) DEF Inv, fileVars

(* A new shard has a name that is not archived, not on the disk and not     *)
(* with the uploader; the shard that was current may be queued now.         *)
LEMMA CreateStep ==
    ASSUME TInv, Inv, NEW fresh \in FreshShards, CreateShard(fresh),
           fresh.ok => faults' \in Nat,
           UNCHANGED <<task, sweep, archived, cache>>,
           \A s \in Shards : Busy(s)' => Busy(s) \/ s < nextShard,
           f' = "open" => currentShard' = nextShard
    PROVE  Inv'
<1>1. /\ nextShard \in Shards
      /\ nextShard' = nextShard + 1
      /\ nextShard \in Nat
    BY CreateShardType DEF TypeFrame, TInv, TypeOK, Shards
<1>2. /\ recs' = [recs EXCEPT ![nextShard] = fresh.recs]
      /\ local' = local \cup {nextShard}
    BY ZenonT(30) DEF CreateShard
<1>3. archived[nextShard] = NoObject /\ ~Busy(nextShard)
    BY <1>1 DEF Inv
<1>4. \A s \in Shards : s = nextShard => ~Busy(s)'
    BY <1>1, <1>3
<1>5. f' = "open" =>
         archived'[currentShard'] = NoObject /\ ~Busy(currentShard)'
    BY <1>1, <1>3, <1>4, ZenonT(30)
<1>6. \A s \in Shards : s >= nextShard' =>
         archived'[s] = NoObject /\ s \notin local' /\ ~Busy(s)'
  <2> SUFFICES ASSUME NEW s \in Shards, s >= nextShard'
               PROVE  archived'[s] = NoObject /\ s \notin local' /\ ~Busy(s)'
      OBVIOUS
  <2>1. s > nextShard /\ ~(s < nextShard) /\ s # nextShard
      BY <1>1 DEF Shards
  <2>2. archived[s] = NoObject /\ s \notin local /\ ~Busy(s)
      BY <1>1, <2>1, SMTT(30) DEF Inv, Shards
  <2> QED BY <1>2, <2>1, <2>2, ZenonT(30)
<1>7. ArchivedIsFinal'
  <2>1. recs \in [Shards -> Seq(Records)]
      BY ZenonT(30) DEF TInv, TypeOK
  <2> QED BY <1>1, <1>2, <1>3, <2>1, ZenonT(30) DEF Inv, ArchivedIsFinal
<1>8. \A s \in Shards :
         s < nextShard' /\ s \notin local' => archived'[s] # NoObject
  <2> SUFFICES ASSUME NEW s \in Shards, s < nextShard', s \notin local'
               PROVE  archived[s] # NoObject
      OBVIOUS
  <2>1. s # nextShard /\ s \notin local /\ s < nextShard
      BY <1>1, <1>2, SMTT(30) DEF Shards
  <2> QED BY <2>1, ZenonT(30) DEF Inv
<1> QED BY <1>5, <1>6, <1>7, <1>8, ZenonT(30) DEF Inv

(* Only shards that have been created, and none that is open, are queued.   *)
LEMMA BusySubmit ==
    ASSUME TInv, NEW x \in Shards, Submit(x), UNCHANGED task,
           NEW s \in Shards, Busy(s)'
    PROVE  Busy(s) \/ s = x
<1>1. queue \in Seq(Shards)
    BY ZenonT(30) DEF TInv, TypeOK
<1>2. ASSUME NEW i \in DOMAIN queue', queue'[i] = s PROVE Busy(s) \/ s = x
  <2>1. CASE queue' = queue
      BY <1>2, <2>1, ZenonT(30) DEF Busy
  <2>2. CASE queue' = Append(queue, x)
    <3>1. CASE i \in DOMAIN queue
        BY <1>1, <1>2, <2>2, <3>1 DEF Busy
    <3>2. CASE i \notin DOMAIN queue
        BY <1>1, <1>2, <2>2, <3>2, SMTT(30)
    <3> QED BY <3>1, <3>2, ZenonT(30)
  <2> QED BY <2>1, <2>2, ZenonT(30) DEF Submit
<1> QED BY <1>2, ZenonT(30) DEF Busy

(* Every step preserves Inv.                                                *)
LEMMA StepInv == TInv /\ TInv' /\ Inv /\ [Next]_vars => Inv'
<1> SUFFICES ASSUME TInv, TInv', Inv, [Next]_vars PROVE Inv'
    OBVIOUS
<1>a. UNCHANGED <<queue, task>> => \A s : Busy(s)' => Busy(s)
    BY BusySame, ZenonT(30)
<1>1. ASSUME Tick PROVE Inv'
  <2>1. UNCHANGED <<task, sweep, archived, cache>>
      BY <1>1, ZenonT(30) DEF Tick
  <2>2. ASSUME UNCHANGED <<diskVars, fileVars, queue>> PROVE Inv'
      BY <1>a, <2>1, <2>2, QuietStep, ZenonT(30) DEF diskVars
  <2>3. ASSUME f' = (IF f = "open" THEN "closed" ELSE f), f # "closed",
               UNCHANGED <<diskVars, currentShard, queue>>
        PROVE  Inv'
    <3>1. f' # "open"
        BY <2>3, ZenonT(30)
    <3>2. \A s : Busy(s)' => Busy(s)
        BY <1>a, <2>1, <2>3, ZenonT(30)
    <3> QED BY <2>1, <2>3, <3>1, <3>2, ZenonT(30) DEF Inv, ArchivedIsFinal, diskVars
  <2>4. ASSUME NEW fresh \in FreshShards, CreateShard(fresh),
               fresh.ok => UNCHANGED faults,
               IF fresh.ok /\ f = "open" THEN Submit(currentShard)
                                         ELSE UNCHANGED queue,
               currentShard' = nextShard
        PROVE  Inv'
    <3>1. f = "open" => currentShard \in Shards
        BY SMTT(30) DEF TInv, TypeOK, Shards
    <3>2. \A s \in Shards : Busy(s)' => Busy(s) \/ s < nextShard
      <4>1. ASSUME f = "open", Submit(currentShard)
            PROVE  \A s \in Shards : Busy(s)' => Busy(s) \/ s = currentShard
          BY <2>1, <3>1, <4>1, BusySubmit, ZenonT(30)
      <4> QED BY <1>a, <2>1, <2>4, <4>1, ZenonT(30) DEF TInv
    <3>3. fresh.ok => faults' \in Nat
        BY <2>4, ZenonT(30) DEF TInv, TypeOK
    <3> QED BY <2>1, <2>4, <3>2, <3>3, CreateStep, ZenonT(30)
  <2> QED BY <1>1, <2>2, <2>3, <2>4, ZenonT(30) DEF Tick, rotateShard
<1>2. ASSUME NEW r \in Requests, CodeForType(r) PROVE Inv'
    BY <1>2, <1>a, QuietStep, ZenonT(30) DEF CodeForType, storeVars, diskVars
<1>3. ASSUME NEW r \in Requests, WriteMapping(r) PROVE Inv'
    BY <1>3, WriteStep, ZenonT(30) DEF WriteMapping
<1>4. ASSUME NEW r \in Requests, WriteData(r) PROVE Inv'
    BY <1>4, WriteStep, ZenonT(30) DEF WriteData
<1>5. ASSUME NEW k \in Workers, PopTask(k) PROVE Inv'
    BY <1>5, BusyPop, QuietStep, ZenonT(30) DEF PopTask, taskFrame, diskVars
<1>6. ASSUME NEW k \in Workers, WorkerExits(k) \/ AbortRetry(k) PROVE Inv'
  <2>1. UNCHANGED <<taskFrame, queue, sweep, archived, cache>>
      BY <1>6, ZenonT(30) DEF WorkerExits, AbortRetry
  <2>2. PICK new \in {NoTask, [at |-> "exited"]} :
           task' = [task EXCEPT ![k] = new]
      BY <1>6, ZenonT(30) DEF WorkerExits, AbortRetry
  <2>3. new.at \notin {"upload", "backoff"}
      BY DEF NoTask
  <2>4. \A s \in Shards : Busy(s)' => Busy(s)
      BY <2>1, <2>2, <2>3, BusyShrinks, ZenonT(30)
  <2> QED BY <2>1, <2>4, QuietStep, ZenonT(30) DEF taskFrame, diskVars
<1>7. ASSUME NEW k \in Workers, TryUpload(k) PROVE Inv'
  <2>1. task[k].at \in {"upload", "backoff"}
      BY <1>7, ZenonT(30) DEF TryUpload, Tries
  <2>2. UNCHANGED <<taskFrame, queue, sweep>>
      BY <1>7, ZenonT(30) DEF TryUpload
  <2>3. \A s \in Shards : Busy(s)' => Busy(s)
      BY <1>7, <2>2, BusyShrinks, ZenonT(30) DEF TryUpload
  <2> QED BY <1>7, <2>1, <2>2, <2>3, UploadStep, ZenonT(30) DEF TryUpload, taskFrame, diskVars
<1>8. ASSUME NEW k \in Workers, UploadFails(k) PROVE Inv'
  <2>1. task[k].at \in {"upload", "backoff"}
      BY <1>8, ZenonT(30) DEF UploadFails, Tries
  <2>2. UNCHANGED <<taskFrame, queue, sweep>>
      BY <1>8, ZenonT(30) DEF UploadFails
  <2>3. \A s \in Shards : Busy(s)' => Busy(s)
      BY <1>8, <2>1, <2>2, BusyShrinks, ZenonT(30) DEF UploadFails
  <2>4. ASSUME UNCHANGED <<archived, cache>> PROVE Inv'
      BY <2>2, <2>3, <2>4, QuietStep, ZenonT(30) DEF taskFrame, diskVars
  <2>5. ASSUME Upload(task[k].shard, recs[task[k].shard], FALSE) PROVE Inv'
      BY <2>1, <2>2, <2>3, <2>5, UploadStep, ZenonT(30) DEF taskFrame, diskVars
  <2> QED BY <1>8, <2>4, <2>5, ZenonT(30) DEF UploadFails
<1>9. ASSUME NEW by \in Workers \cup {"ticker"}, StartSweep(by) PROVE Inv'
    BY <1>9, <1>a, QuietStep, ZenonT(30) DEF StartSweep, storeVars, diskVars
<1>10. ASSUME VisitShard PROVE Inv'
  <2>1. UNCHANGED <<sweepFrame, local, task>>
      BY <1>10, ZenonT(30) DEF VisitShard
  <2>2. PICK s \in local \ {sweep.current}, yes \in BOOLEAN :
           /\ IsUploaded(s, recs[s], yes)
           /\ IF yes
              THEN sweep' = [at |-> "remove", by |-> sweep.by,
                             current |-> sweep.current, shard |-> s]
              ELSE UNCHANGED sweep
      BY <1>10, ZenonT(30) DEF VisitShard
  <2>3. s \in Shards
      BY ZenonT(30) DEF TInv, TypeOK
  <2>4. /\ archived' = archived
        /\ \A x \in Shards : cache'[x] # Unknown => archived[x] # NoObject
        /\ yes => archived[s] # NoObject
      BY <2>2, <2>3, IsUploadedTrue, ZenonT(30)
  <2>5. sweep'.at = "remove" => archived[sweep'.shard] # NoObject
      BY <2>2, <2>4 DEF Inv
  <2>6. \A x : Busy(x)' <=> Busy(x)
      BY <2>1, BusySame, ZenonT(30) DEF sweepFrame
  <2> QED BY <2>1, <2>4, <2>5, <2>6, ZenonT(30)
          DEF Inv, ArchivedIsFinal, sweepFrame, fileVars
<1>11. ASSUME RemoveShard PROVE Inv'
  <2>1. UNCHANGED <<sweepFrame, task, archived, cache>> /\ sweep.at = "remove"
      BY <1>11, ZenonT(30) DEF RemoveShard
  <2>2. archived[sweep.shard] # NoObject
      BY <2>1, ZenonT(30) DEF Inv
  <2>3. local' \in {local, local \ {sweep.shard}} /\ sweep'.at = "walk"
      BY <1>11, ZenonT(30) DEF RemoveShard
  <2>4. \A s \in Shards :
           s < nextShard /\ s \notin local' => archived[s] # NoObject
      BY <2>2, <2>3, ZenonT(30) DEF Inv
  <2>5. \A s : Busy(s)' <=> Busy(s)
      BY <2>1, BusySame, ZenonT(30) DEF sweepFrame
  <2> QED BY <2>1, <2>3, <2>4, <2>5, ZenonT(30)
          DEF Inv, ArchivedIsFinal, sweepFrame, fileVars
<1>12. ASSUME EndSweep PROVE Inv'
  <2>1. UNCHANGED <<sweepFrame, local, archived, cache>> /\ sweep' = NoSweep
      BY <1>12, ZenonT(30) DEF EndSweep
  <2>2. \A s \in Shards : Busy(s)' => Busy(s)
    <3>1. CASE sweep.by \in Workers
      <4>1. task' = [task EXCEPT ![sweep.by] = NoTask]
          BY <1>12, <3>1, ZenonT(30) DEF EndSweep
      <4>2. NoTask.at \notin {"upload", "backoff"}
          BY ZenonT(30) DEF NoTask
      <4> QED BY <2>1, <3>1, <4>1, <4>2, BusyShrinks, ZenonT(30) DEF sweepFrame
    <3>2. CASE sweep.by \notin Workers
        BY <1>12, <2>1, <3>2, <1>a, ZenonT(30) DEF EndSweep, sweepFrame
    <3> QED BY <3>1, <3>2, ZenonT(30)
  <2> QED BY <2>1, <2>2, QuietStep, ZenonT(30) DEF sweepFrame, NoSweep
<1>13. ASSUME NewWriter PROVE Inv'
  <2>1. UNCHANGED <<task, sweep, archived, cache>>
      BY <1>13, ZenonT(30) DEF NewWriter
  <2>2. PICK fresh \in FreshShards :
        /\ CreateShard(fresh)
        /\ \/ /\ ~fresh.ok
              /\ UNCHANGED <<main, fileVars, queue, bootVars>>
           \/ /\ fresh.ok
              /\ enqueueCatchUp
              /\ f' = "open"
              /\ currentShard' = nextShard
      BY <1>13, ZenonT(30) DEF NewWriter
  <2>3. faults' \in Nat /\ nextShard \in Shards
      BY <2>2, ZenonT(30) DEF TInv, TypeOK, CreateShard, Shards
  <2>4. \A s \in Shards : Busy(s)' => Busy(s) \/ s < nextShard
    <3>1. CASE UNCHANGED queue
        BY <1>a, <2>1, <3>1, ZenonT(30)
    <3>2. CASE enqueueCatchUp
      <4>1. \A i \in DOMAIN queue' : queue'[i] \in local
        <5>1. ASSUME NEW q \in InOrder(local), queue' = q
              PROVE  \A i \in DOMAIN queue' : queue'[i] \in local
            BY <5>1, ZenonT(30) DEF InOrder
        <5>2. queue' = <<>> => DOMAIN queue' = {}
            BY SMTT(30)
        <5> QED BY <3>2, <5>1, <5>2, ZenonT(30) DEF enqueueCatchUp
      <4>2. \A s \in local : s < nextShard
          BY SMTT(30) DEF Inv, TInv, TypeOK, Shards
      <4> QED BY <2>1, <4>1, <4>2, ZenonT(30) DEF Busy
    <3> QED BY <2>2, <3>1, <3>2, ZenonT(30)
  <2>5. f' = "open" => currentShard' = nextShard
      BY <1>13, <2>2, ZenonT(30) DEF NewWriter, TInv, fileVars
  <2> QED BY <2>1, <2>2, <2>3, <2>4, <2>5, CreateStep, ZenonT(30)
<1>14. ASSUME CloseFile PROVE Inv'
  <2>1. UNCHANGED <<diskVars, currentShard, task, sweep, archived, cache>>
      BY <1>14, ZenonT(30) DEF CloseFile, closeFrame, storeVars
  <2>2. f' = "nil" /\ Submit(currentShard) /\ currentShard \in Shards
      BY <1>14, SMTT(30) DEF CloseFile, TInv, TypeOK, Shards
  <2>3. \A s \in Shards : s >= nextShard => ~Busy(s)'
    <3> SUFFICES ASSUME NEW s \in Shards, s >= nextShard, Busy(s)' PROVE FALSE
        OBVIOUS
    <3>1. Busy(s) \/ s = currentShard
        BY <2>1, <2>2, BusySubmit, ZenonT(30)
    <3>2. ~Busy(s)
        BY ZenonT(30) DEF Inv
    <3>3. s # currentShard
        BY DEF TInv, TypeOK, Shards
    <3> QED BY <3>1, <3>2, <3>3, ZenonT(30)
  <2> QED BY <2>1, <2>2, <2>3, ZenonT(30) DEF Inv, ArchivedIsFinal, diskVars
<1>15. ASSUME CloseRunner PROVE Inv'
    BY <1>15, <1>a, QuietStep, ZenonT(30)
       DEF CloseRunner, closeFrame, storeVars, diskVars, fileVars
<1>16. ASSUME Exit \/ Crash PROVE Inv'
  <2>1. Gone
      BY <1>16, ZenonT(30) DEF Exit, Crash
  <2>2. \A s : ~Busy(s)'
    <3>1. DOMAIN queue' = {}
        BY <2>1 DEF Gone
    <3>2. \A k \in Workers : task'[k].at = "idle"
        BY <2>1, ZenonT(30) DEF Gone, NoTask
    <3> QED BY <3>1, <3>2, ZenonT(30) DEF Busy
  <2>3. f' = "nil" /\ sweep'.at = "idle"
      BY <2>1, ZenonT(30) DEF Gone, NoSweep
  <2>4. \A s \in Shards : cache'[s] = Unknown
      BY <2>1, ZenonT(30) DEF Gone, NoCache
  <2> QED BY <2>1, <2>2, <2>3, <2>4, ZenonT(30) DEF Gone, Inv, ArchivedIsFinal, diskVars
<1>17. ASSUME UNCHANGED vars PROVE Inv'
    BY <1>17, <1>a, QuietStep, ZenonT(30) DEF vars, storeVars, diskVars
<1> QED BY <1>1, <1>2, <1>3, <1>4, <1>5, <1>6, <1>7, <1>8, <1>9, <1>10, <1>11,
           <1>12, <1>13, <1>14, <1>15, <1>16, <1>17, ZenonT(30)
        DEF Next, Worker, Sweep, Close

(* Init has the order: there is no shard yet.                               *)
LEMMA InitInv == Init => Inv
<1> SUFFICES ASSUME Init PROVE Inv
    BY ZenonT(30)
<1>1. \A s : ~Busy(s)
  <2>1. DOMAIN queue = {}
      BY DEF Init
  <2>2. \A k \in Workers : task[k].at = "idle"
      BY ZenonT(30) DEF Init, NoTask
  <2> QED BY <2>1, <2>2, ZenonT(30) DEF Busy
<1>2. \A s \in Shards : archived[s] = NoObject /\ cache[s] = Unknown
    BY ZenonT(30) DEF Init, NoCache
<1>3. sweep.at = "idle" /\ f = "nil"
    BY ZenonT(30) DEF Init, NoSweep
<1>4. \A s \in Shards : ~(s < nextShard) /\ s \notin local
    BY DEF Init, Shards
<1> QED BY <1>1, <1>2, <1>3, <1>4, ZenonT(30) DEF Inv, ArchivedIsFinal

(* What the archive has of a shard is all that was ever written to it.      *)
THEOREM ArchivedFinal == Spec => []ArchivedIsFinal
<1>1. Inv => ArchivedIsFinal
    BY ZenonT(30) DEF Inv
<1> QED BY InitType, StepType, InitInv, StepInv, <1>1, PTL DEF Spec

(* runRetentionCleanup removes a shard only when the archive has all of it. *)
THEOREM RemovedArchived == Spec => []RemovedOnlyIfArchived
<1>1. Inv => RemovedOnlyIfArchived
    BY ZenonT(30) DEF Inv, ArchivedIsFinal, RemovedOnlyIfArchived
<1> QED BY InitType, StepType, InitInv, StepInv, <1>1, PTL DEF Spec

(* An upload that is repeated stores what is there already.                 *)
LEMMA UploadAgain ==
    ASSUME TInv, Inv, NEW k \in Workers,
           task[k].at \in {"upload", "backoff"},
           NEW ok \in BOOLEAN, Upload(task[k].shard, recs[task[k].shard], ok),
           NEW s \in Shards, archived[s] # NoObject
    PROVE  archived'[s] = archived[s]
<1>1. task[k].shard \in Shards
    BY TaskShard, ZenonT(30)
<1>2. archived'[s] = archived[s] \/ archived'[s] = recs[s]
    BY <1>1, UploadStores, ZenonT(30)
<1> QED BY <1>2, ZenonT(30) DEF Inv, ArchivedIsFinal

(* An object of the bucket never changes, whatever is uploaded again: what  *)
(* a reader of the archive, such as the compactor, may rely on.             *)
THEOREM ObjectsImmutable == Spec => ObjectsNeverChange
<1>1. TInv /\ Inv /\ [Next]_vars =>
        [\A s \in Shards :
            archived[s] # NoObject => archived'[s] = archived[s]]_archived
  <2> SUFFICES ASSUME TInv, Inv, [Next]_vars, archived' # archived,
                      NEW s \in Shards, archived[s] # NoObject
               PROVE  archived'[s] = archived[s]
      BY ZenonT(30)
  <2>1. ASSUME NEW k \in Workers, TryUpload(k)
        PROVE  archived'[s] = archived[s]
      BY <2>1, UploadAgain, ZenonT(30) DEF TryUpload, Tries
  <2>2. ASSUME NEW k \in Workers, UploadFails(k)
        PROVE  archived'[s] = archived[s]
      BY <2>2, UploadAgain, ZenonT(30) DEF UploadFails, Tries
  <2>3. ~VisitShard
      BY ZenonT(30) DEF VisitShard, IsUploaded
  <2>4. ~Tick /\ ~NewWriter /\ ~(Exit \/ Crash)
      BY ZenonT(30) DEF Tick, NewWriter, Exit, Crash, Gone
  <2>5. ASSUME NEW r \in Requests
        PROVE  ~(CodeForType(r) \/ WriteMapping(r) \/ WriteData(r))
      BY ZenonT(30) DEF CodeForType, WriteMapping, WriteData, storeVars
  <2>6. ASSUME NEW k \in Workers
        PROVE  ~(PopTask(k) \/ WorkerExits(k) \/ AbortRetry(k))
      BY ZenonT(30) DEF PopTask, WorkerExits, AbortRetry
  <2>7. \A by : ~StartSweep(by)
      BY ZenonT(30) DEF StartSweep, storeVars
  <2>8. ~RemoveShard /\ ~EndSweep /\ ~CloseFile /\ ~CloseRunner
      BY ZenonT(30) DEF RemoveShard, EndSweep, CloseFile, CloseRunner, closeFrame, storeVars
  <2>9. ~UNCHANGED vars
      BY ZenonT(30) DEF vars, storeVars
  <2> QED BY <2>1, <2>2, <2>3, <2>4, <2>5, <2>6, <2>7, <2>8, <2>9, ZenonT(30)
          DEF Next, Worker, Sweep, Close
<1> QED BY InitType, StepType, InitInv, StepInv, <1>1, PTL
        DEF Spec, ObjectsNeverChange

-----------------------------------------------------------------------------
(* What the process has under way.                                          *)

(* Why a shard on the disk needs no attention.                              *)
Watched(s) ==
    \/ s = currentShard
    \/ archived[s] # NoObject
    \/ Busy(s)
    \/ \E r \in boot .. (nextShard - 1) : s < r /\ r \notin whole
    \/ s < boot /\ ~caughtUp

(* A worker that sweeps uploads nothing.                                    *)
SweepOwned ==
    \A k \in Workers :
        sweep.at \in {"walk", "remove"} /\ sweep.by = k => task[k].at = "sweep"

WatchInv ==
    /\ main = "serving" => \A s \in local : Watched(s)
    /\ \A s \in whole : s < nextShard
    /\ main = "serving" => f # "nil" /\ boot < nextShard
    /\ SweepOwned

(* As many numbers as a set has members, each used once, use them all.      *)
LEMMA ListsAll ==
    ASSUME NEW S, IsFiniteSet(S), NEW q \in [1 .. Cardinality(S) -> S],
           \A i, j \in DOMAIN q : q[i] = q[j] => i = j
    PROVE  \A x \in S : \E i \in DOMAIN q : q[i] = x
<1>1. PICK n \in Nat : n = Cardinality(S)
    BY FS_CardinalityType, ZenonT(30)
<1>2. Cardinality(1 .. n) = n
  <2>1. n \in Int /\ 1 \in Int
      OBVIOUS
  <2>2. Cardinality(1 .. n) = IF 1 > n THEN 0 ELSE n - 1 + 1
      BY <2>1, FS_Interval, ZenonT(30)
  <2> QED BY <2>2
<1>3. DOMAIN q = 1 .. n /\ q \in [1 .. n -> S]
    BY <1>1, ZenonT(30)
<1>4. q \in Injection(1 .. n, S)
    BY <1>3, ZenonT(30) DEF Injection, IsInjective
<1>5. q \in Surjection(1 .. n, S)
    BY <1>1, <1>2, <1>4, FS_Injection, ZenonT(30)
<1> QED BY <1>3, <1>5, ZenonT(30) DEF Surjection

(* Shards are numbers.                                                      *)
LEMMA ShardNumbers ==
    ASSUME TInv
    PROVE  /\ nextShard \in Nat /\ boot \in Nat /\ whole \subseteq Nat /\ local \subseteq Shards
           /\ \A s \in Shards : s \in Nat
<1>1. /\ nextShard \in 1 .. (MaxShards + 1) /\ boot \in 1 .. MaxShards
      /\ whole \subseteq Shards /\ local \subseteq Shards
    BY ZenonT(30) DEF TInv, TypeOK
<1>2. \A s \in Shards : s \in Nat
    BY SMT DEF Shards
<1>3. nextShard \in Nat /\ boot \in Nat
    BY <1>1, SMT
<1> QED BY <1>1, <1>2, <1>3, ZenonT(30)

(* A step that forgets no shard.                                            *)
LEMMA WatchFrame ==
    ASSUME TInv, WatchInv, local' \subseteq local,
           UNCHANGED <<currentShard, nextShard, whole, bootVars>>,
           main' = "serving" => main = "serving" /\ f' # "nil",
           main' = "serving" =>
               \A s \in local : archived[s] # NoObject \/ Busy(s) =>
                   archived'[s] # NoObject \/ Busy(s)',
           SweepOwned'
    PROVE  WatchInv'
<1>1. ASSUME main' = "serving", NEW s \in local' PROVE Watched(s)'
  <2>1. s \in local /\ Watched(s)
      BY <1>1, ZenonT(30) DEF WatchInv
  <2> QED BY <1>1, <2>1, ZenonT(30) DEF Watched, bootVars
<1> QED BY <1>1, ZenonT(30) DEF WatchInv, bootVars

(* A step in which the workers and the sweep stand still.                   *)
LEMMA WatchQuiet ==
    ASSUME TInv, WatchInv, local' \subseteq local,
           UNCHANGED <<currentShard, nextShard, whole, bootVars, queue, task, archived>>,
           main' = "serving" => main = "serving" /\ f' # "nil",
           SweepOwned'
    PROVE  WatchInv'
<1>1. \A s : Busy(s) => Busy(s)'
    BY BusySame, ZenonT(30)
<1> QED BY <1>1, WatchFrame, ZenonT(30)

(* A queued shard stays queued when another is.                             *)
LEMMA SubmitKeeps ==
    ASSUME TInv, NEW x, Submit(x), UNCHANGED task, x \in Shards
    PROVE  /\ \A s : Busy(s) => Busy(s)'
           /\ ~RunnerStopped => Busy(x)'
<1>1. queue \in Seq(Shards)
    BY ZenonT(30) DEF TInv, TypeOK
<1>2. queue' = queue \/ queue' = Append(queue, x)
    BY ZenonT(30) DEF Submit
<1>3. queue' = Append(queue, x) =>
         /\ \A i \in DOMAIN queue : i \in DOMAIN queue' /\ queue'[i] = queue[i]
         /\ Len(queue) + 1 \in DOMAIN queue' /\ queue'[Len(queue) + 1] = x
    BY <1>1, SMT
<1>4. \A s : Busy(s) => Busy(s)'
    BY <1>2, <1>3, ZenonT(30) DEF Busy
<1>5. ~RunnerStopped => Busy(x)'
    BY <1>3, ZenonT(30) DEF Busy, Submit
<1> QED BY <1>4, <1>5

(* The task of one worker changes, which is not the one that sweeps.        *)
LEMMA TaskKeepsSweep ==
    ASSUME TInv, SweepOwned, NEW k \in Workers, NEW new,
           task' = [task EXCEPT ![k] = new], UNCHANGED sweep, task[k].at # "sweep"
    PROVE  SweepOwned'
<1>1. \A j \in Workers : j # k => task'[j] = task[j]
    BY ZenonT(30) DEF TInv, TypeOK
<1> QED BY <1>1, ZenonT(30) DEF SweepOwned

(* A rotation hands the shard over, or it is one that failed.               *)
LEMMA WatchTick ==
    ASSUME TInv, TInv', Inv, WatchInv, Tick PROVE WatchInv'
<1>1. UNCHANGED <<main, task, sweep, bootVars, archived>> /\ rotateShard
    BY ZenonT(30) DEF Tick
<1>2. SweepOwned'
    BY <1>1, ZenonT(30) DEF WatchInv, SweepOwned
<1>3. main = "serving" => f # "nil"
    BY ZenonT(30) DEF WatchInv
<1>4. ASSUME f = "closed", UNCHANGED <<diskVars, fileVars, queue>> PROVE WatchInv'
    BY <1>1, <1>2, <1>3, <1>4, WatchQuiet, ZenonT(30) DEF diskVars, fileVars
<1>5. ASSUME f' = (IF f = "open" THEN "closed" ELSE f), f # "closed",
             UNCHANGED <<diskVars, currentShard, queue>>
      PROVE  WatchInv'
  <2>1. main' = "serving" => f' # "nil"
      BY <1>1, <1>3, <1>5, ZenonT(30)
  <2> QED BY <1>1, <1>2, <1>5, <2>1, WatchQuiet, ZenonT(30) DEF diskVars
<1>6. ASSUME f # "closed", NEW fresh \in FreshShards, CreateShard(fresh),
             IF fresh.ok /\ f = "open" THEN Submit(currentShard) ELSE UNCHANGED queue,
             f' = "open", currentShard' = nextShard
      PROVE  WatchInv'
  <2>1. /\ local' = local \cup {nextShard} /\ nextShard' = nextShard + 1
        /\ whole' = IF fresh.ok THEN whole \cup {nextShard} ELSE whole
      BY <1>6, ZenonT(30) DEF CreateShard
  <2>2. /\ nextShard \in Nat /\ boot \in Nat /\ whole \subseteq Nat /\ local \subseteq Shards
        /\ \A s \in Shards : s \in Nat
      BY ShardNumbers
  <2>3. f = "open" => currentShard \in Shards
      BY SMT DEF TInv, TypeOK, Shards
  <2>4. \A s \in whole : s < nextShard
      BY ZenonT(30) DEF WatchInv
  <2>5. nextShard \notin whole
      BY <2>2, <2>4
  <2>6. \A s \in whole' : s < nextShard'
    <3>1. \A s \in Nat : s < nextShard \/ s = nextShard => s < nextShard + 1
        BY <2>2
    <3> QED BY <2>1, <2>2, <2>4, <3>1, ZenonT(30)
  <2>7. \A s : Busy(s) => Busy(s)'
    <3>1. UNCHANGED queue => \A s : Busy(s) => Busy(s)'
        BY <1>1, BusySame, ZenonT(30)
    <3>2. f = "open" /\ Submit(currentShard) => \A s : Busy(s) => Busy(s)'
        BY <1>1, <2>3, SubmitKeeps, ZenonT(30)
    <3> QED BY <1>6, <3>1, <3>2, ZenonT(30)
  <2>8. ASSUME main' = "serving" PROVE f' # "nil" /\ boot' < nextShard'
    <3>1. boot < nextShard
        BY <1>1, <2>8, ZenonT(30) DEF WatchInv
    <3> QED BY <1>1, <1>6, <2>1, <2>2, <3>1 DEF bootVars
  <2>9. ASSUME main' = "serving", NEW s \in local' PROVE Watched(s)'
    <3>1. CASE s = nextShard
        BY <1>6, <3>1, ZenonT(30) DEF Watched
    <3>2. CASE s # nextShard
      <4>1. s \in local /\ Watched(s) /\ s \in Shards /\ main = "serving" /\ s \in Nat
          BY <1>1, <2>1, <2>2, <2>9, <3>2, ZenonT(30) DEF WatchInv
      <4>2. CASE s = currentShard /\ fresh.ok
        <5>1. f = "open" /\ Submit(s)
            BY <1>3, <1>6, <4>1, <4>2, ZenonT(30) DEF TInv, TypeOK
        <5>2. Busy(s)'
            BY <1>1, <4>1, <5>1, SubmitKeeps, ZenonT(30) DEF RunnerStopped
        <5> QED BY <5>2, ZenonT(30) DEF Watched
      <4>3. CASE ~fresh.ok
        <5>1. s < nextShard
            BY <2>2, <4>1, SMT DEF Inv
        <5>2. nextShard \in boot .. (nextShard' - 1)
            BY <2>1, <2>2, <2>8, <2>9, <1>1, SMT DEF bootVars
        <5>3. nextShard \notin whole' /\ boot' = boot
            BY <1>1, <2>1, <2>5, <4>3, ZenonT(30) DEF bootVars
        <5> QED BY <5>1, <5>2, <5>3, ZenonT(30) DEF Watched
      <4>4. CASE archived[s] # NoObject \/ Busy(s)
          BY <1>1, <2>7, <4>4, ZenonT(30) DEF Watched
      <4>5. CASE \E r \in boot .. (nextShard - 1) : s < r /\ r \notin whole
        <5>1. PICK r \in boot .. (nextShard - 1) : s < r /\ r \notin whole
            BY <4>5
        <5>2. r \in boot .. (nextShard' - 1) /\ r # nextShard
            BY <2>1, <2>2, SMT
        <5>3. r \notin whole' /\ boot' = boot
            BY <1>1, <2>1, <5>1, <5>2, ZenonT(30) DEF bootVars
        <5> QED BY <5>1, <5>2, <5>3, ZenonT(30) DEF Watched
      <4>6. CASE s < boot /\ ~caughtUp
          BY <1>1, <4>6, ZenonT(30) DEF Watched, bootVars
      <4> QED BY <4>1, <4>2, <4>3, <4>4, <4>5, <4>6, ZenonT(30) DEF Watched
    <3> QED BY <3>1, <3>2
  <2> QED BY <1>2, <2>6, <2>8, <2>9, ZenonT(30) DEF WatchInv
<1> QED BY <1>1, <1>4, <1>5, <1>6, ZenonT(30) DEF rotateShard

(* A start finds the shards of the directory, or knows that it did not.     *)
LEMMA WatchStart ==
    ASSUME TInv, TInv', Inv, WatchInv, NewWriter PROVE WatchInv'
<1>1. UNCHANGED <<task, sweep, archived>> /\ main = "down"
    BY ZenonT(30) DEF NewWriter
<1>2. SweepOwned'
    BY <1>1, ZenonT(30) DEF WatchInv, SweepOwned
<1>3. PICK fresh \in FreshShards :
        /\ CreateShard(fresh)
        /\ \/ ~fresh.ok /\ UNCHANGED main
           \/ /\ fresh.ok /\ enqueueCatchUp /\ f' = "open"
              /\ currentShard' = nextShard /\ boot' = nextShard
    BY ZenonT(30) DEF NewWriter
<1>4. /\ local' = local \cup {nextShard} /\ nextShard' = nextShard + 1
      /\ whole' = IF fresh.ok THEN whole \cup {nextShard} ELSE whole
    BY <1>3, ZenonT(30) DEF CreateShard
<1>5. /\ nextShard \in Nat /\ whole \subseteq Nat /\ local \subseteq Shards
      /\ \A s \in Shards : s \in Nat
    BY ShardNumbers
<1>6. \A s \in whole' : s < nextShard'
  <2>1. \A s \in Nat : s < nextShard \/ s = nextShard => s < nextShard + 1
      BY <1>5
  <2>2. \A s \in whole : s < nextShard
      BY ZenonT(30) DEF WatchInv
  <2> QED BY <1>4, <1>5, <2>1, <2>2, ZenonT(30)
<1>7. ASSUME main' = "serving" PROVE f' # "nil" /\ boot' < nextShard'
  <2>1. f' = "open" /\ boot' = nextShard
      BY <1>1, <1>3, <1>7, ZenonT(30)
  <2> QED BY <1>4, <1>5, <2>1
<1>8. ASSUME main' = "serving", NEW s \in local' PROVE Watched(s)'
  <2>1. enqueueCatchUp /\ currentShard' = nextShard /\ boot' = nextShard
      BY <1>1, <1>3, <1>8, ZenonT(30)
  <2>2. CASE s = nextShard
      BY <2>1, <2>2, ZenonT(30) DEF Watched
  <2>3. CASE s \in local /\ \E q \in InOrder(local) : queue' = q
    <3>1. PICK q \in InOrder(local) : queue' = q
        BY <2>3
    <3>2. q \in [1 .. Cardinality(local) -> local] /\ \A i, j \in DOMAIN q : i < j => q[i] < q[j]
        BY ZenonT(30) DEF InOrder
    <3>3. IsFiniteSet(local)
      <4>1. 1 \in Int /\ MaxShards \in Int
          BY SinkAssumption
      <4>2. IsFiniteSet(Shards)
          BY <4>1, FS_Interval, ZenonT(30) DEF Shards
      <4> QED BY <1>5, <4>2, FS_Subset, ZenonT(30)
    <3>4. \A i, j \in DOMAIN q : q[i] = q[j] => i = j
      <4>1. PICK n \in Nat : n = Cardinality(local)
          BY <3>3, FS_CardinalityType, ZenonT(30)
      <4>2. DOMAIN q = 1 .. n /\ \A i \in DOMAIN q : q[i] \in Nat
          BY <1>5, <3>2, <4>1, ZenonT(30)
      <4> QED BY <3>2, <4>2, SMT
    <3>5. \E i \in DOMAIN q : q[i] = s
        BY <2>3, <3>2, <3>3, <3>4, ListsAll, ZenonT(30)
    <3>6. Busy(s)'
        BY <3>1, <3>5, ZenonT(30) DEF Busy
    <3> QED BY <3>6, ZenonT(30) DEF Watched
  <2>4. CASE s \in local /\ caughtUp' = FALSE
    <3>1. s < nextShard
        BY <1>5, <2>4, SMT DEF Inv
    <3> QED BY <2>1, <2>4, <3>1, ZenonT(30) DEF Watched
  <2> QED BY <1>4, <1>8, <2>1, <2>2, <2>3, <2>4, ZenonT(30) DEF enqueueCatchUp
<1> QED BY <1>2, <1>6, <1>7, <1>8, ZenonT(30) DEF WatchInv

(* A sweep of a worker that has uploaded, or of the ticker.                 *)
LEMMA WatchSweepStarts ==
    ASSUME TInv, WatchInv, NEW by \in Workers \cup {"ticker"}, StartSweep(by)
    PROVE  WatchInv'
<1>1. UNCHANGED <<storeVars, diskVars, main, fileVars, queue, task, bootVars>>
    BY ZenonT(30) DEF StartSweep
<1>2. sweep'.by = by /\ (by \in Workers => task[by].at = "sweep")
    BY ZenonT(30) DEF StartSweep
<1>3. SweepOwned'
    BY <1>1, <1>2, ZenonT(30) DEF SweepOwned
<1>4. main = "serving" => f # "nil"
    BY ZenonT(30) DEF WatchInv
<1> QED BY <1>1, <1>3, <1>4, WatchQuiet, ZenonT(30) DEF storeVars, diskVars, fileVars

(* A worker uploads, or fails to: its shard is archived, or still its own.  *)
LEMMA UploadWatched ==
    ASSUME TInv, WatchInv, NEW k \in Workers, NEW new,
           task[k].at # "sweep",
           UNCHANGED taskFrame, UNCHANGED queue, UNCHANGED sweep,
           task' = [task EXCEPT ![k] = new],
           \A s \in Shards : archived[s] # NoObject => archived'[s] # NoObject,
           archived'[task[k].shard] # NoObject \/ (new.at = "backoff" /\ new.shard = task[k].shard)
    PROVE  WatchInv'
<1>0. SweepOwned /\ (main = "serving" => f # "nil")
    BY ZenonT(30) DEF WatchInv
<1>1. SweepOwned'
    BY <1>0, TaskKeepsSweep, ZenonT(30)
<1>2. ASSUME NEW s, Busy(s), archived'[s] = NoObject PROVE Busy(s)'
  <2>1. ASSUME NEW j \in Workers, task[j].at \in {"upload", "backoff"}, task[j].shard = s
        PROVE  task'[j].at \in {"upload", "backoff"} /\ task'[j].shard = s
    <3>1. CASE j # k
      <4>1. task'[j] = task[j]
          BY <3>1, ZenonT(30) DEF TInv, TypeOK
      <4> QED BY <2>1, <4>1
    <3>2. CASE j = k
      <4>1. task'[k] = new
          BY ZenonT(30) DEF TInv, TypeOK
      <4> QED BY <1>2, <2>1, <3>2, <4>1, ZenonT(30)
    <3> QED BY <3>1, <3>2
  <2> QED BY <1>2, <2>1, ZenonT(30) DEF Busy
<1>3. local \subseteq Shards
    BY ShardNumbers, ZenonT(30)
<1>4. UNCHANGED <<local, currentShard, nextShard, whole, bootVars, main, f>>
    BY ZenonT(30) DEF taskFrame, diskVars, fileVars
<1>5. \A s \in local : archived[s] # NoObject \/ Busy(s) => archived'[s] # NoObject \/ Busy(s)'
    BY <1>2, <1>3, ZenonT(30)
<1> QED BY <1>0, <1>1, <1>4, <1>5, WatchFrame, ZenonT(30)

(* What the workers do to the shards that are watched.                      *)
LEMMA WatchWorker ==
    ASSUME TInv, TInv', Inv, WatchInv, NEW k \in Workers, Worker(k) PROVE WatchInv'
<1>0. SweepOwned
    BY ZenonT(30) DEF WatchInv
<1>1. ASSUME UNCHANGED taskFrame
      PROVE  UNCHANGED <<local, currentShard, nextShard, whole, bootVars, main, f>>
    BY <1>1, ZenonT(30) DEF taskFrame, diskVars, fileVars
<1>2. main = "serving" => f # "nil"
    BY ZenonT(30) DEF WatchInv
<1>9. NoTask.at = "idle"
    BY ZenonT(30) DEF NoTask
<1>3. ASSUME PopTask(k) PROVE WatchInv'
  <2>1. /\ queue \in Seq(Shards) /\ queue # <<>> /\ queue' = Tail(queue) /\ task[k] = NoTask
        /\ UNCHANGED <<taskFrame, sweep, archived>>
      BY <1>3, ZenonT(30) DEF PopTask, TInv, TypeOK
  <2>2. task[k].at = "idle"
      BY <1>9, <2>1, ZenonT(30)
  <2>3. SweepOwned'
    <3>1. ASSUME task' = task PROVE SweepOwned'
        BY <1>0, <2>1, <3>1, ZenonT(30) DEF SweepOwned
    <3>2. ASSUME task' = [task EXCEPT ![k] = [at |-> "upload", shard |-> Head(queue)]]
          PROVE  SweepOwned'
        BY <1>0, <2>1, <2>2, <3>2, TaskKeepsSweep, ZenonT(30)
    <3> QED BY <1>3, <3>1, <3>2, ZenonT(30) DEF PopTask
  <2>4. ASSUME NEW s \in local, Busy(s) PROVE Busy(s)'
    <3>1. CASE \E j \in Workers : task[j].at \in {"upload", "backoff"} /\ task[j].shard = s
      <4>1. PICK j \in Workers : task[j].at \in {"upload", "backoff"} /\ task[j].shard = s
          BY <3>1
      <4>2. task'[j] = task[j]
          BY <1>3, <2>2, <4>1, ZenonT(30) DEF PopTask, TInv, TypeOK
      <4> QED BY <4>1, <4>2, ZenonT(30) DEF Busy
    <3>2. ASSUME NEW i \in DOMAIN queue, queue[i] = s PROVE Busy(s)'
      <4>1. CASE i = 1
        <5>1. Head(queue) = s
            BY <2>1, <3>2, <4>1
        <5>2. task'[k].at = "upload" /\ task'[k].shard = s
            BY <1>3, <2>4, <5>1, ZenonT(30) DEF PopTask, TInv, TypeOK
        <5> QED BY <5>2, ZenonT(30) DEF Busy
      <4>2. CASE i # 1
        <5>1. i - 1 \in DOMAIN queue' /\ queue'[i - 1] = s
            BY <2>1, <3>2, <4>2, SMT
        <5> QED BY <5>1, ZenonT(30) DEF Busy
      <4> QED BY <4>1, <4>2
    <3> QED BY <2>4, <3>1, <3>2, ZenonT(30) DEF Busy
  <2> QED BY <1>1, <1>2, <2>1, <2>3, <2>4, WatchFrame, ZenonT(30)
<1>4. ASSUME WorkerExits(k) \/ AbortRetry(k) PROVE WatchInv'
  <2>1. UNCHANGED <<taskFrame, sweep, archived>> /\ main # "serving"
      BY <1>4, ZenonT(30) DEF WorkerExits, AbortRetry, RunnerStopped, Stopping
  <2>2. PICK new : task' = [task EXCEPT ![k] = new]
      BY <1>4, ZenonT(30) DEF WorkerExits, AbortRetry
  <2>3. task[k].at # "sweep"
      BY <1>4, <1>9, ZenonT(30) DEF WorkerExits, AbortRetry
  <2>4. SweepOwned'
      BY <1>0, <2>1, <2>2, <2>3, TaskKeepsSweep, ZenonT(30)
  <2> QED BY <1>1, <2>1, <2>4, WatchFrame, ZenonT(30)
<1>6. ASSUME TryUpload(k) PROVE WatchInv'
  <2>1. task[k].at \in {"upload", "backoff"}
      BY <1>6, ZenonT(30) DEF TryUpload, Tries
  <2>2. PICK s \in Shards : s = task[k].shard /\ Upload(s, recs[s], TRUE)
      BY <1>6, <2>1, TaskShard, ZenonT(30) DEF TryUpload
  <2>3. \A x \in Shards : archived[x] # NoObject => archived'[x] # NoObject
      BY <2>2, UploadStores, ZenonT(30)
  <2>4. archived'[s] # NoObject
    <3>1. recs[s] \in Seq(Records) /\ archived \in [Shards -> Seq(Records) \cup {NoObject}]
        BY ZenonT(30) DEF TInv, TypeOK
    <3>2. recs[s] # NoObject
        BY <3>1, SinkAssumption, ZenonT(30)
    <3>3. PICK c \in checkUploaded(s, Len(recs[s])) :
             \/ c.says = "yes" /\ archived' = archived
             \/ archived' = [archived EXCEPT ![s] = recs[s]]
        BY <2>2, ZenonT(30) DEF Upload
    <3>4. c.says = "yes" => archived[s] # NoObject
        BY CheckUploadedTrue, ZenonT(30)
    <3> QED BY <3>1, <3>2, <3>3, <3>4, ZenonT(30)
  <2>5. PICK new : /\ UNCHANGED taskFrame /\ UNCHANGED queue /\ UNCHANGED sweep
                   /\ task' = [task EXCEPT ![k] = new]
      BY <1>6, ZenonT(30) DEF TryUpload
  <2>6. archived'[task[k].shard] # NoObject
      BY <2>2, <2>4
  <2>7. task[k].at # "sweep"
      BY <2>1, ZenonT(30)
  <2> QED BY <2>3, <2>5, <2>6, <2>7, UploadWatched, ZenonT(30)
<1>7. ASSUME UploadFails(k) PROVE WatchInv'
  <2>1. task[k].at \in {"upload", "backoff"}
      BY <1>7, ZenonT(30) DEF UploadFails, Tries
  <2>2. PICK s \in Shards : s = task[k].shard
      BY <2>1, TaskShard, ZenonT(30)
  <2>3. \A x \in Shards : archived[x] # NoObject => archived'[x] # NoObject
      BY <1>7, <2>2, UploadStores, ZenonT(30) DEF UploadFails
  <2>4. UNCHANGED taskFrame /\ UNCHANGED queue /\ UNCHANGED sweep
      BY <1>7, ZenonT(30) DEF UploadFails
  <2>5. PICK new : new = [at |-> "backoff", shard |-> s]
      BY ZenonT(30)
  <2>6. new.at = "backoff" /\ new.shard = task[k].shard
      BY <2>2, <2>5, ZenonT(30)
  <2>7. task' = [task EXCEPT ![k] = new]
      BY <1>7, <2>2, <2>5, ZenonT(30) DEF UploadFails
  <2>8. task[k].at # "sweep"
      BY <2>1, ZenonT(30)
  <2> QED BY <2>3, <2>4, <2>6, <2>7, <2>8, UploadWatched, ZenonT(30)
<1>8. ASSUME StartSweep(k) PROVE WatchInv'
    BY <1>8, WatchSweepStarts, ZenonT(30)
<1> QED BY <1>3, <1>4, <1>6, <1>7, <1>8, ZenonT(30) DEF Worker

(* Every step leaves every shard watched.                                   *)
LEMMA WatchStep == TInv /\ TInv' /\ Inv /\ WatchInv /\ [Next]_vars => WatchInv'
<1> SUFFICES ASSUME TInv, TInv', Inv, WatchInv, [Next]_vars PROVE WatchInv'
    OBVIOUS
<1>0. SweepOwned /\ (main = "serving" => f # "nil")
    BY ZenonT(30) DEF WatchInv
<1>1. ASSUME UNCHANGED <<main, f, local, currentShard, nextShard, whole, bootVars, queue, task,
                         sweep, archived>>
      PROVE  WatchInv'
  <2>1. SweepOwned'
      BY <1>0, <1>1, ZenonT(30) DEF SweepOwned
  <2> QED BY <1>0, <1>1, <2>1, WatchQuiet, ZenonT(30)
<1>2. ASSUME NEW r \in Requests, CodeForType(r) \/ WriteMapping(r) \/ WriteData(r)
      PROVE  WatchInv'
    BY <1>1, <1>2, ZenonT(30)
       DEF CodeForType, WriteMapping, WriteData, storeVars, diskVars, fileVars
<1>3. ASSUME VisitShard PROVE WatchInv'
  <2>1. UNCHANGED <<sweepFrame, local, task, archived>>
      BY <1>3, ZenonT(30) DEF VisitShard, IsUploaded
  <2>2. sweep.at = "walk" /\ (sweep' = sweep \/ sweep'.by = sweep.by)
    <3>1. \/ sweep' = sweep
          \/ \E s : sweep' = [at |-> "remove", by |-> sweep.by,
                               current |-> sweep.current, shard |-> s]
        BY <1>3, ZenonT(30) DEF VisitShard
    <3>2. sweep.at = "walk"
        BY <1>3, ZenonT(30) DEF VisitShard
    <3> QED BY <3>1, <3>2
  <2>3. SweepOwned'
      BY <1>0, <2>1, <2>2, ZenonT(30) DEF SweepOwned
  <2> QED BY <1>0, <2>1, <2>3, WatchQuiet, ZenonT(30) DEF sweepFrame, fileVars
<1>4. ASSUME RemoveShard PROVE WatchInv'
  <2>1. UNCHANGED <<sweepFrame, task, archived>> /\ local' \subseteq local
      BY <1>4, ZenonT(30) DEF RemoveShard
  <2>2. sweep.at = "remove" /\ sweep'.by = sweep.by
      BY <1>4, ZenonT(30) DEF RemoveShard
  <2>3. SweepOwned'
      BY <1>0, <2>1, <2>2, ZenonT(30) DEF SweepOwned
  <2> QED BY <1>0, <2>1, <2>3, WatchQuiet, ZenonT(30) DEF sweepFrame, fileVars
<1>5. ASSUME sweep' = NoSweep PROVE SweepOwned'
  <2>1. NoSweep.at = "idle"
      BY ZenonT(30) DEF NoSweep
  <2> QED BY <1>5, <2>1, ZenonT(30) DEF SweepOwned
<1>6. ASSUME EndSweep PROVE WatchInv'
  <2>1. UNCHANGED <<sweepFrame, local, archived>> /\ sweep' = NoSweep /\ sweep.at = "walk"
      BY <1>6, ZenonT(30) DEF EndSweep
  <2>2. ASSUME NEW s, Busy(s) PROVE Busy(s)'
    <3>1. ASSUME NEW j \in Workers, task[j].at \in {"upload", "backoff"} PROVE task'[j] = task[j]
      <4>1. sweep.by # j
          BY <1>0, <2>1, <3>1, ZenonT(30) DEF SweepOwned
      <4> QED BY <1>6, <4>1, ZenonT(30) DEF EndSweep, TInv, TypeOK
    <3>2. queue' = queue
        BY <2>1, ZenonT(30) DEF sweepFrame
    <3> QED BY <2>2, <3>1, <3>2, ZenonT(30) DEF Busy
  <2>3. UNCHANGED <<local, currentShard, nextShard, whole, bootVars, main, f, archived>>
      BY <2>1, ZenonT(30) DEF sweepFrame, fileVars
  <2> QED BY <1>0, <1>5, <2>1, <2>2, <2>3, WatchFrame, ZenonT(30)
<1>7. ASSUME CloseFile \/ CloseRunner PROVE WatchInv'
  <2>1. UNCHANGED <<local, currentShard, nextShard, whole, bootVars, task, sweep, archived>>
      BY <1>7, ZenonT(30) DEF CloseFile, CloseRunner, closeFrame, storeVars, diskVars
  <2>2. main' # "serving"
      BY <1>7, ZenonT(30) DEF CloseFile, CloseRunner
  <2>3. SweepOwned'
      BY <1>0, <2>1, ZenonT(30) DEF SweepOwned
  <2> QED BY <2>1, <2>2, <2>3, WatchFrame, ZenonT(30)
<1>8. ASSUME Exit \/ Crash PROVE WatchInv'
  <2>1. Gone
      BY <1>8, ZenonT(30) DEF Exit, Crash
  <2>2. main' # "serving" /\ sweep' = NoSweep /\ UNCHANGED <<nextShard, whole>>
      BY <2>1, ZenonT(30) DEF Gone, diskVars
  <2> QED BY <1>5, <2>2, ZenonT(30) DEF WatchInv
<1>9. ASSUME UNCHANGED vars PROVE WatchInv'
    BY <1>1, <1>9, ZenonT(30) DEF vars, storeVars, diskVars, fileVars
<1>10. ASSUME StartSweep("ticker") PROVE WatchInv'
    BY <1>10, WatchSweepStarts, ZenonT(30)
<1> QED BY <1>2, <1>3, <1>4, <1>6, <1>7, <1>8, <1>9, <1>10, WatchTick, WatchStart, WatchWorker,
           ZenonT(30)
        DEF Next, Sweep, Close

(* No shard is on the disk yet.                                             *)
LEMMA InitWatch == Init => WatchInv
<1> SUFFICES ASSUME Init PROVE WatchInv
    OBVIOUS
<1>1. main = "down" /\ whole = {} /\ sweep = NoSweep
    BY ZenonT(30) DEF Init
<1>2. NoSweep.at = "idle"
    BY ZenonT(30) DEF NoSweep
<1> QED BY <1>1, <1>2, ZenonT(30) DEF WatchInv, SweepOwned

(* While the sink serves, a shard that is closed and not archived is queued *)
(* or with a worker, whatever workers, sweeps and restarts do, unless a     *)
(* rotation or a listing failed (rotateShard, processUploadWithRetry,       *)
(* enqueueCatchUp).                                                         *)
THEOREM ForgetsNothing == Spec => []NothingForgotten
<1>1. WatchInv => NothingForgotten
    BY ZenonT(30) DEF WatchInv, Watched, Busy, NothingForgotten
<1> QED BY InitType, StepType, InitInv, StepInv, InitWatch, WatchStep, <1>1, PTL DEF Spec

-----------------------------------------------------------------------------
(* The codes.  A code is given to one type, and every record of the running *)
(* process has the code of its type.                                        *)
Coded(rec) == rec.kind \in {"map", "object"} => rec.code # 0 /\ typeCodes[rec.type] = rec.code

OneType ==
    \A t, u \in Types : typeCodes[t] # 0 /\ typeCodes[t] = typeCodes[u] => t = u

CodesInv ==
    /\ nextTypeCode > 0
    /\ \A t \in Types : typeCodes[t] # 0 => typeCodes[t] < nextTypeCode
    /\ OneType
    /\ \A r \in Requests : req[r].at \in {"mapping", "object"} =>
          req[r].code # 0 /\ typeCodes[req[r].type] = req[r].code

(* The last mapping of the code is to the type.                             *)
Settled(rs, c, t) ==
    \E j \in DOMAIN rs :
        /\ rs[j] = Mapping(c, t)
        /\ \A k \in DOMAIN rs : k > j /\ rs[k].kind = "map" => rs[k].code # c

(* The last shard is the current one.  If it is complete, it maps the codes *)
(* of all the shards before it.                                             *)
LastIsCurrent == boot <= currentShard /\ currentShard + 1 = nextShard

AllCoded ==
    \A s \in boot .. (nextShard - 1) : \A i \in DOMAIN recs[s] : Coded(recs[s][i])

CurrentMaps ==
    currentShard \in whole =>
        \A r \in boot .. (currentShard - 1) : \A i \in DOMAIN recs[r] :
            recs[r][i].kind \in {"map", "object"} =>
                Settled(recs[currentShard], recs[r][i].code, recs[r][i].type)

(* No object of s is unexplained whose code r uses.                         *)
Kept(r, s) ==
    \A i \in DOMAIN recs[r], j \in Unexplained(s) :
        recs[r][i].kind \in {"map", "object"} => recs[r][i].code # recs[s][j].code

MapInv ==
    /\ main # "down" => LastIsCurrent /\ AllCoded /\ CurrentMaps
    /\ RotationKeepsMappings

(* A record is appended.                                                    *)
LEMMA RecordAppended ==
    ASSUME NEW rs \in Seq(Records), NEW x \in Records
    PROVE  \E w \in Seq(Records), n \in Nat :
              /\ w = Append(rs, x) /\ n = Len(rs) /\ DOMAIN rs = 1 .. n /\ DOMAIN w = 1 .. n + 1
              /\ w[n + 1] = x /\ \A k \in 1 .. n : w[k] = rs[k]
<1>1. PICK n \in Nat : n = Len(rs) /\ DOMAIN rs = 1 .. n
    BY SMT
<1>2. PICK w \in Seq(Records) : w = Append(rs, x)
  <2>1. Append(rs, x) \in Seq(Records)
      BY SMT
  <2> QED BY <2>1, ZenonT(30)
<1>3. DOMAIN w = 1 .. n + 1 /\ w[n + 1] = x
    BY <1>1, <1>2, SMT
<1>4. \A k \in 1 .. n : w[k] = rs[k]
    BY <1>1, <1>2, SMT
<1> QED BY <1>1, <1>2, <1>3, <1>4, ZenonT(30)

(* A mapping that is the last of its code stays the last one of its type.   *)
LEMMA AppendSettled ==
    ASSUME NEW rs \in Seq(Records), NEW x \in Records, NEW c, NEW t, Settled(rs, c, t),
           x.kind = "map" /\ x.code = c => x = Mapping(c, t)
    PROVE  Settled(Append(rs, x), c, t)
<1>1. PICK w \in Seq(Records), n \in Nat :
         /\ w = Append(rs, x) /\ n = Len(rs) /\ DOMAIN rs = 1 .. n /\ DOMAIN w = 1 .. n + 1
         /\ w[n + 1] = x /\ \A k \in 1 .. n : w[k] = rs[k]
    BY RecordAppended, ZenonT(30)
<1>2. PICK j \in 1 .. n : /\ rs[j] = Mapping(c, t)
                          /\ \A k \in 1 .. n : k > j /\ rs[k].kind = "map" => rs[k].code # c
    BY <1>1, ZenonT(30) DEF Settled
<1>3. CASE x = Mapping(c, t)
  <2>1. n + 1 \in DOMAIN w /\ ~ \E k \in DOMAIN w : k > n + 1
      BY <1>1, SMT
  <2>2. Settled(w, c, t)
      BY <1>1, <1>3, <2>1, ZenonT(30) DEF Settled
  <2> QED BY <1>1, <2>2
<1>4. CASE ~ (x.kind = "map" /\ x.code = c)
  <2>1. j \in DOMAIN w /\ w[j] = Mapping(c, t)
      BY <1>1, <1>2, SMT
  <2>2. ASSUME NEW k \in DOMAIN w, k > j, w[k].kind = "map" PROVE w[k].code # c
    <3>1. k = n + 1 \/ k \in 1 .. n
        BY <1>1, SMT
    <3>2. k = n + 1 => w[k] = x
        BY <1>1, ZenonT(30)
    <3>3. k \in 1 .. n => w[k] = rs[k]
        BY <1>1, ZenonT(30)
    <3> QED BY <1>2, <1>4, <2>2, <3>1, <3>2, <3>3, ZenonT(30)
  <2>3. Settled(w, c, t)
      BY <2>1, <2>2, ZenonT(30) DEF Settled
  <2> QED BY <1>1, <2>3
<1> QED BY <1>3, <1>4

(* A reader that comes to an object behind it knows its type.               *)
LEMMA AppendExplains ==
    ASSUME NEW rs \in Seq(Records), NEW x \in Records, Settled(rs, x.code, x.type)
    PROVE  typeByCode(Append(rs, x), Len(rs) + 1, x.type)
<1>1. PICK w \in Seq(Records), n \in Nat :
         /\ w = Append(rs, x) /\ n = Len(rs) /\ DOMAIN rs = 1 .. n /\ DOMAIN w = 1 .. n + 1
         /\ w[n + 1] = x /\ \A k \in 1 .. n : w[k] = rs[k]
    BY RecordAppended, ZenonT(30)
<1>2. PICK j \in 1 .. n :
         /\ rs[j] = Mapping(x.code, x.type)
         /\ \A k \in 1 .. n : k > j /\ rs[k].kind = "map" => rs[k].code # x.code
    BY <1>1, ZenonT(30) DEF Settled
<1>3. j \in 1 .. ((n + 1) - 1) /\ \A k \in (j + 1) .. ((n + 1) - 1) : k \in 1 .. n /\ k > j
    BY <1>2, SMT
<1>4. w[j] = Mapping(w[n + 1].code, x.type)
    BY <1>1, <1>2, ZenonT(30)
<1>5. \A k \in (j + 1) .. ((n + 1) - 1) : w[k].kind = "map" => w[k].code # w[n + 1].code
    BY <1>1, <1>2, <1>3, ZenonT(30)
<1>6. typeByCode(w, n + 1, x.type)
    BY <1>3, <1>4, <1>5, ZenonT(30) DEF typeByCode
<1> QED BY <1>1, <1>6

(* What a reader knows of an object does not depend on what follows it.     *)
LEMMA AppendReads ==
    ASSUME NEW rs \in Seq(Records), NEW x \in Records, NEW i \in DOMAIN rs, NEW t,
           typeByCode(rs, i, t)
    PROVE  typeByCode(Append(rs, x), i, t)
<1>1. PICK w \in Seq(Records), n \in Nat :
         /\ w = Append(rs, x) /\ n = Len(rs) /\ DOMAIN rs = 1 .. n /\ DOMAIN w = 1 .. n + 1
         /\ w[n + 1] = x /\ \A k \in 1 .. n : w[k] = rs[k]
    BY RecordAppended, ZenonT(30)
<1>2. PICK j \in 1 .. (i - 1) :
         /\ rs[j] = Mapping(rs[i].code, t)
         /\ \A k \in (j + 1) .. (i - 1) : rs[k].kind = "map" => rs[k].code # rs[i].code
    BY ZenonT(30) DEF typeByCode
<1>3. i \in 1 .. n /\ j \in 1 .. n /\ \A k \in (j + 1) .. (i - 1) : k \in 1 .. n
    BY <1>1, <1>2, SMT
<1>4. w[i] = rs[i] /\ w[j] = rs[j] /\ \A k \in (j + 1) .. (i - 1) : w[k] = rs[k]
    BY <1>1, <1>3, ZenonT(30)
<1>5. typeByCode(w, i, t)
    BY <1>2, <1>4, ZenonT(30) DEF typeByCode
<1> QED BY <1>1, <1>5

(* The members of a concatenation.                                          *)
LEMMA ConcatMembers ==
    ASSUME NEW a \in Seq(Records), NEW b \in Seq(Records), NEW i \in DOMAIN (a \o b)
    PROVE  (\E k \in DOMAIN a : (a \o b)[i] = a[k]) \/ (\E k \in DOMAIN b : (a \o b)[i] = b[k])
<1>1. PICK n \in Nat, m \in Nat : /\ n = Len(a) /\ m = Len(b) /\ DOMAIN a = 1 .. n
                                  /\ DOMAIN b = 1 .. m /\ DOMAIN (a \o b) = 1 .. n + m
    BY SMT
<1>2. CASE i <= n
  <2>1. i \in DOMAIN a /\ (a \o b)[i] = a[i]
      BY <1>1, <1>2, SMT
  <2> QED BY <2>1
<1>3. CASE ~(i <= n)
  <2>1. i - n \in DOMAIN b /\ (a \o b)[i] = b[i - n]
      BY <1>1, <1>3, SMT
  <2> QED BY <2>1
<1> QED BY <1>2, <1>3

(* The mappings that are repeated carry the codes of their types.           *)
LEMMA RepeatedCoded ==
    ASSUME typeCodes \in [Types -> Nat], NEW S \in SUBSET Known, NEW m \in Repeated(S),
           NEW i \in DOMAIN m
    PROVE  m[i].kind = "map" /\ Coded(m[i])
<1>1. PICK q \in Listings(S) : m = [k \in DOMAIN q |-> Mapping(typeCodes[q[k]], q[k])]
    BY ZenonT(30) DEF Repeated
<1>2. i \in DOMAIN q /\ q[i] \in S
    BY <1>1, ZenonT(30) DEF Listings
<1>3. q[i] \in Types /\ typeCodes[q[i]] # 0
    BY <1>2, ZenonT(30) DEF Known
<1>4. PICK t \in Types : t = q[i] /\ typeCodes[t] # 0
    BY <1>3
<1>5. m[i] = Mapping(typeCodes[t], t)
    BY <1>1, <1>2, <1>4, ZenonT(30)
<1>6. m[i].kind = "map" /\ m[i].code = typeCodes[t] /\ m[i].type = t
    BY <1>5 DEF Mapping
<1> QED BY <1>4, <1>6, ZenonT(30) DEF Coded

(* A new shard has no objects, and its mappings carry the codes of their    *)
(* types.                                                                   *)
LEMMA FreshCoded ==
    ASSUME typeCodes \in [Types -> Nat], NEW fresh \in FreshShards,
           NEW i \in DOMAIN fresh.recs
    PROVE  fresh.recs[i].kind # "object" /\ Coded(fresh.recs[i])
<1> DEFINE Plain(rec) == rec.kind # "object" /\ Coded(rec)
           Fine(q) == q \in Seq(Records) /\ \A k \in DOMAIN q : Plain(q[k])
<1>1. Header.kind = "header" /\ Torn.kind = "torn"
    BY ZenonT(30) DEF Header, Torn
<1>2. Plain(Header) /\ Plain(Torn)
  <2>1. Header.kind # "object" /\ Coded(Header)
      BY <1>1 DEF Coded
  <2>2. Torn.kind # "object" /\ Coded(Torn)
      BY <1>1 DEF Coded
  <2> QED BY <2>1, <2>2, ZenonT(30)
<1>3. Known \subseteq Types
    BY ZenonT(30) DEF Known
<1>4. ASSUME NEW S \in SUBSET Known, NEW m \in Repeated(S) PROVE Fine(m)
  <2>1. m \in Seq(Records)
      BY <1>3, RepeatedType, ZenonT(30)
  <2> QED BY <2>1, RepeatedCoded, ZenonT(30)
<1> HIDE DEF Plain
<1>5. Fine(<<>>) /\ Fine(<<Header>>) /\ Fine(<<Torn>>)
  <2>1. Header \in Records /\ Torn \in Records
      BY ZenonT(30) DEF Records
  <2>2. <<>> \in Seq(Records) /\ DOMAIN <<>> = {}
      BY SMT
  <2>3. ASSUME NEW x \in Records, Plain(x) PROVE Fine(<<x>>)
    <3>1. <<x>> \in Seq(Records) /\ DOMAIN <<x>> = {1} /\ <<x>>[1] = x
        BY SMT
    <3> QED BY <2>3, <3>1, ZenonT(30)
  <2> QED BY <1>2, <2>1, <2>2, <2>3, ZenonT(30)
<1>6. ASSUME NEW a, NEW b, Fine(a), Fine(b) PROVE Fine(a \o b)
  <2>1. a \o b \in Seq(Records)
      BY <1>6
  <2>2. ASSUME NEW k \in DOMAIN (a \o b) PROVE Plain((a \o b)[k])
    <3>1. (\E n \in DOMAIN a : (a \o b)[k] = a[n]) \/ (\E n \in DOMAIN b : (a \o b)[k] = b[n])
        BY <1>6, ConcatMembers, ZenonT(30)
    <3> QED BY <1>6, <3>1, ZenonT(30)
  <2> QED BY <2>1, <2>2, ZenonT(30)
<1> HIDE DEF Fine
<1>7. ASSUME NEW q \in Repeated(Known) PROVE Fine(<<Header>> \o q)
    BY <1>4, <1>5, <1>6, ZenonT(30)
<1>8. ASSUME NEW r \in Broken PROVE Fine(r)
  <2> DEFINE some == UNION {Repeated(S) : S \in {{}} \cup (SUBSET Known \ {Known})}
  <2>1. \A q \in some : Fine(q)
      BY <1>4, ZenonT(30)
  <2>2. \A q \in some : Fine(<<Header>> \o q) /\ Fine(<<Header>> \o q \o <<Torn>>)
      BY <1>5, <1>6, <2>1, ZenonT(30)
  <2>3. Broken = {<<>>, <<Torn>>} \cup
            UNION {{<<Header>> \o q, <<Header>> \o q \o <<Torn>>} : q \in some}
      BY ZenonT(30) DEF Broken
  <2> HIDE DEF some
  <2> QED BY <1>5, <2>2, <2>3, ZenonT(30)
<1>9. \/ \E q \in Repeated(Known) : fresh = [ok |-> TRUE, recs |-> <<Header>> \o q]
      \/ \E r \in Broken : fresh = [ok |-> FALSE, recs |-> r]
    BY ZenonT(30) DEF FreshShards
<1>10. Fine(fresh.recs)
  <2>1. ASSUME NEW q \in Repeated(Known), fresh = [ok |-> TRUE, recs |-> <<Header>> \o q]
        PROVE  Fine(fresh.recs)
    <3>1. fresh.recs = <<Header>> \o q
        BY <2>1, ZenonT(30)
    <3> QED BY <1>7, <3>1, ZenonT(30)
  <2>2. ASSUME NEW r \in Broken, fresh = [ok |-> FALSE, recs |-> r] PROVE Fine(fresh.recs)
    <3>1. fresh.recs = r
        BY <2>2, ZenonT(30)
    <3> QED BY <1>8, <3>1, ZenonT(30)
  <2> QED BY <1>9, <2>1, <2>2, ZenonT(30)
<1> QED BY <1>10, ZenonT(30) DEF Fine, Plain

(* A shard that is complete maps all the known codes.                       *)
LEMMA FreshMaps ==
    ASSUME typeCodes \in [Types -> Nat], OneType, NEW fresh \in FreshShards, fresh.ok,
           NEW t \in Known
    PROVE  Settled(fresh.recs, typeCodes[t], t)
<1>1. PICK m \in Repeated(Known) : fresh = [ok |-> TRUE, recs |-> <<Header>> \o m]
  <2>1. ASSUME NEW r \in Broken, fresh = [ok |-> FALSE, recs |-> r] PROVE FALSE
    <3>1. fresh.ok = FALSE
        BY <2>1, ZenonT(30)
    <3> QED BY <3>1, ZenonT(30)
  <2>2. \/ \E q \in Repeated(Known) : fresh = [ok |-> TRUE, recs |-> <<Header>> \o q]
        \/ \E r \in Broken : fresh = [ok |-> FALSE, recs |-> r]
      BY ZenonT(30) DEF FreshShards
  <2> QED BY <2>1, <2>2, ZenonT(30)
<1>2. Known \in SUBSET Types
    BY ZenonT(30) DEF Known
<1>3. PICK q \in Listings(Known) : m = [k \in DOMAIN q |-> Mapping(typeCodes[q[k]], q[k])]
    BY ZenonT(30) DEF Repeated
<1>4. /\ q \in [1 .. Cardinality(Known) -> Known]
      /\ \A i, j \in DOMAIN q : q[i] = q[j] => i = j
    BY ZenonT(30) DEF Listings
<1>5. IsFiniteSet(Known)
    BY <1>2, SinkAssumption, FS_Subset, ZenonT(30)
<1>6. PICK i \in DOMAIN q : q[i] = t
    BY <1>4, <1>5, ListsAll, ZenonT(30)
<1>7. q \in Seq(Types) /\ m \in Seq(Records)
    BY <1>2, ListingsType, RepeatedType, ZenonT(30)
<1>8. PICK n \in Nat : DOMAIN q = 1 .. n /\ DOMAIN m = 1 .. n /\ Len(m) = n
  <2>1. PICK n \in Nat : DOMAIN q = 1 .. n
      BY <1>7
  <2>2. DOMAIN m = 1 .. n
      BY <1>3, <2>1, ZenonT(30)
  <2> QED BY <1>7, <2>1, <2>2
<1>9. PICK w : w = fresh.recs /\ w = <<Header>> \o m
    BY <1>1, ZenonT(30)
<1>10. DOMAIN w = 1 .. n + 1 /\ w[1] = Header /\ \A k \in 2 .. n + 1 : w[k] = m[k - 1]
  <2>1. Header \in Records
      BY ZenonT(30) DEF Records
  <2>2. PICK h \in Records : h = Header
      BY <2>1, ZenonT(30)
  <2>3. PICK z \in Seq(Records) : z = m
      BY <1>7, ZenonT(30)
  <2>4. w = <<h>> \o z /\ Len(z) = n
      BY <1>8, <1>9, <2>2, <2>3, ZenonT(30)
  <2>5. DOMAIN w = 1 .. n + 1 /\ w[1] = h /\ \A k \in 2 .. n + 1 : w[k] = z[k - 1]
      BY <2>4, SMT
  <2> QED BY <2>2, <2>3, <2>5, ZenonT(30)
<1>11. i + 1 \in DOMAIN w /\ w[i + 1] = Mapping(typeCodes[t], t)
  <2>1. i + 1 \in DOMAIN w /\ w[i + 1] = m[i]
      BY <1>8, <1>10, SMT
  <2> QED BY <1>3, <1>6, <2>1, ZenonT(30)
<1>12. ASSUME NEW k \in DOMAIN w, k > i + 1, w[k].code = typeCodes[t] PROVE FALSE
  <2>1. k - 1 \in DOMAIN q /\ w[k] = m[k - 1] /\ k - 1 # i
      BY <1>8, <1>10, <1>12, SMT
  <2>2. PICK j \in DOMAIN q : w[k] = m[j] /\ j # i
      BY <2>1
  <2>3. w[k] = Mapping(typeCodes[q[j]], q[j])
      BY <1>3, <2>2, ZenonT(30)
  <2>4. w[k].code = typeCodes[q[j]]
      BY <2>3 DEF Mapping
  <2>5. typeCodes[q[j]] = typeCodes[t] /\ q[j] \in Types /\ t \in Types /\ typeCodes[t] # 0
      BY <1>2, <1>4, <1>12, <2>2, <2>4, ZenonT(30) DEF Known
  <2>6. q[j] = t
      BY <2>5, ZenonT(30) DEF OneType
  <2> QED BY <1>4, <1>6, <2>2, <2>6, ZenonT(30)
<1> QED BY <1>9, <1>11, <1>12, ZenonT(30) DEF Settled

(* What a record with a code is.                                            *)
LEMMA RecordFields ==
    ASSUME NEW rec \in Records, rec.kind \in {"map", "object"}
    PROVE  rec.code \in Nat /\ rec.type \in Types
<1>1. Header.kind = "header" /\ Torn.kind = "torn"
    BY ZenonT(30) DEF Header, Torn
<1>2. rec # Header /\ rec # Torn
    BY <1>1
<1>3. rec \in [kind : {"map", "object"}, code : Nat, type : Types]
    BY <1>2, ZenonT(30) DEF Records
<1> QED BY <1>3

(* The shards of the process have records.                                  *)
LEMMA ShardRecords ==
    ASSUME TInv, NEW s \in boot .. (nextShard - 1)
    PROVE  s \in Shards /\ s \in Nat /\ recs[s] \in Seq(Records) /\
           \A i \in DOMAIN recs[s] : recs[s][i] \in Records
<1>1. /\ nextShard \in 1 .. (MaxShards + 1) /\ boot \in 1 .. MaxShards
      /\ recs \in [Shards -> Seq(Records)] /\ MaxShards \in Nat
    BY SinkAssumption, ZenonT(30) DEF TInv, TypeOK
<1>2. s \in Shards /\ s \in Nat
    BY <1>1, SMT DEF Shards
<1>3. PICK rs \in Seq(Records) : rs = recs[s]
    BY <1>1, <1>2, ZenonT(30)
<1>4. \A i \in DOMAIN rs : rs[i] \in Records
    BY SMT
<1> QED BY <1>2, <1>3, <1>4, ZenonT(30)

(* A code that is in use keeps its type.                                    *)
LEMMA CodedStays ==
    ASSUME \A t \in Types : typeCodes[t] # 0 => typeCodes'[t] = typeCodes[t],
           NEW rec \in Records, Coded(rec)
    PROVE  rec.kind \in {"map", "object"} => rec.code # 0 /\ typeCodes'[rec.type] = rec.code
    BY RecordFields, ZenonT(30) DEF Coded

(* What two shards have of each other changes only with them.               *)
LEMMA KeptSame ==
    ASSUME NEW r, NEW s, recs'[r] = recs[r], recs'[s] = recs[s], Kept(r, s)
    PROVE  Kept(r, s)'
<1>1. Unexplained(s)' = Unexplained(s)
    BY ZenonT(30) DEF Unexplained, typeByCode
<1> QED BY <1>1, ZenonT(30) DEF Kept

(* In terms of two shards.                                                  *)
LEMMA KeptByPairs ==
    /\ RotationKeepsMappings <=>
          \A r, s \in boot .. (nextShard - 1) : r < s /\ s \in whole => Kept(r, s)
    /\ RotationKeepsMappings' <=>
          \A r, s \in boot' .. (nextShard' - 1) : r < s /\ s \in whole' => Kept(r, s)'
<1>1. RotationKeepsMappings <=>
          \A r, s \in boot .. (nextShard - 1) : r < s /\ s \in whole => Kept(r, s)
    BY DEF RotationKeepsMappings, Kept
<1>2. RotationKeepsMappings' <=>
          \A r, s \in boot' .. (nextShard' - 1) : r < s /\ s \in whole' => Kept(r, s)'
    BY DEF RotationKeepsMappings, Kept
<1> QED BY <1>1, <1>2, ZenonT(30)

(* A step that writes nothing.                                              *)
LEMMA MapFrame ==
    ASSUME TInv, MapInv, recs' = recs, nextShard' = nextShard, whole' = whole, boot' = boot,
           main' # "down" => main # "down" /\ currentShard' = currentShard,
           main' # "down" => \A t \in Types : typeCodes[t] # 0 => typeCodes'[t] = typeCodes[t]
    PROVE  MapInv'
<1>1. RotationKeepsMappings'
  <2>1. \A r, s : Kept(r, s) => Kept(r, s)'
      BY KeptSame, ZenonT(30)
  <2>2. \A r, s \in boot .. (nextShard - 1) : r < s /\ s \in whole => Kept(r, s)
      BY KeptByPairs, ZenonT(30) DEF MapInv
  <2> QED BY <2>1, <2>2, KeptByPairs, ZenonT(30)
<1>2. ASSUME main' # "down" PROVE LastIsCurrent' /\ CurrentMaps'
    BY <1>2, ZenonT(30) DEF MapInv, LastIsCurrent, CurrentMaps
<1>3. ASSUME main' # "down", NEW s \in boot .. (nextShard - 1), NEW i \in DOMAIN recs[s]
      PROVE  recs[s][i].kind \in {"map", "object"} =>
                recs[s][i].code # 0 /\ typeCodes'[recs[s][i].type] = recs[s][i].code
  <2>1. recs[s][i] \in Records
      BY ShardRecords, ZenonT(30)
  <2>2. Coded(recs[s][i])
      BY <1>3, ZenonT(30) DEF MapInv, AllCoded
  <2> QED BY <1>3, <2>1, <2>2, CodedStays, ZenonT(30)
<1>4. main' # "down" => AllCoded'
    BY <1>3, ZenonT(30) DEF AllCoded, Coded
<1> QED BY <1>1, <1>2, <1>4, ZenonT(30) DEF MapInv

(* A step that gives no code and begins no request.                         *)
LEMMA CodesFrame ==
    ASSUME CodesInv, UNCHANGED codeVars,
           \A r \in Requests : req'[r].at \in {"mapping", "object"} =>
               /\ req[r].at \in {"mapping", "object"}
               /\ req'[r].code = req[r].code /\ req'[r].type = req[r].type
    PROVE  CodesInv'
    BY ZenonT(30) DEF CodesInv, OneType, codeVars

(* Records with the same code have the same type.                           *)
LEMMA SameType ==
    ASSUME OneType, NEW a \in Records, NEW b \in Records, Coded(a), Coded(b),
           a.kind \in {"map", "object"}, b.kind \in {"map", "object"}, a.code = b.code
    PROVE  a.type = b.type
<1>1. a.type \in Types /\ b.type \in Types
    BY RecordFields, ZenonT(30)
<1> QED BY <1>1, ZenonT(30) DEF Coded, OneType

(* A record is written to the current shard, whose code is not given to     *)
(* another type.  If it is an object whose code an earlier shard uses, the  *)
(* current shard maps it.                                                   *)
LEMMA MapWrite ==
    ASSUME TInv, CodesInv, MapInv, main # "down", currentShard # 0, NEW x \in Records, Coded(x),
           recs' = [recs EXCEPT ![currentShard] = Append(@, x)],
           nextShard' = nextShard, whole' = whole, boot' = boot,
           currentShard' = currentShard, typeCodes' = typeCodes
    PROVE  MapInv'
<1>1. LastIsCurrent /\ AllCoded /\ CurrentMaps /\ RotationKeepsMappings /\ OneType
    BY ZenonT(30) DEF MapInv, CodesInv
<1>2. PICK c \in Nat : /\ c = currentShard /\ c \in boot .. (nextShard - 1) /\ c \in Shards
                        /\ \A s \in boot .. (nextShard - 1) : s <= c
  <2>1. currentShard \in Nat /\ boot \in Nat /\ nextShard \in Nat
    <3>1. currentShard \in 0 .. MaxShards /\ MaxShards \in Nat
        BY SinkAssumption, ZenonT(30) DEF TInv, TypeOK
    <3>2. currentShard \in Nat
        BY <3>1, SMT
    <3> QED BY <3>2, ShardNumbers, ZenonT(30)
  <2>2. boot <= currentShard /\ currentShard + 1 = nextShard
      BY <1>1, ZenonT(30) DEF LastIsCurrent
  <2>3. /\ currentShard \in boot .. (nextShard - 1)
        /\ \A s \in boot .. (nextShard - 1) : s <= currentShard
      BY <2>1, <2>2, SMT
  <2>4. currentShard \in Shards
      BY <2>3, ShardRecords, ZenonT(30)
  <2> QED BY <2>1, <2>3, <2>4, ZenonT(30)
<1>3. PICK rs \in Seq(Records) : rs = recs[c]
    BY <1>2, ShardRecords, ZenonT(30)
<1>4. PICK w \in Seq(Records), n \in Nat :
         /\ w = Append(rs, x) /\ n = Len(rs) /\ DOMAIN rs = 1 .. n /\ DOMAIN w = 1 .. n + 1
         /\ w[n + 1] = x /\ \A k \in 1 .. n : w[k] = rs[k]
    BY RecordAppended, ZenonT(30)
<1>5. recs'[c] = w /\ \A s \in Shards : s # c => recs'[s] = recs[s]
  <2>1. recs \in [Shards -> Seq(Records)]
      BY ZenonT(30) DEF TInv, TypeOK
  <2> QED BY <1>2, <1>3, <1>4, <2>1, ZenonT(30)
<1>6. DOMAIN w = DOMAIN rs \cup {n + 1} /\ n + 1 \notin DOMAIN rs
    BY <1>4, SMT
<1>7. \A s \in boot .. (nextShard - 1) : s \in Shards
    BY ShardRecords, ZenonT(30)
<1>8. AllCoded'
  <2>1. ASSUME NEW s \in boot .. (nextShard - 1), NEW i \in DOMAIN recs'[s]
        PROVE  Coded(recs'[s][i])
    <3>1. CASE s # c
        BY <1>1, <1>5, <1>7, <2>1, <3>1, ZenonT(30) DEF AllCoded
    <3>2. CASE s = c
        BY <1>1, <1>2, <1>3, <1>4, <1>5, <1>6, <2>1, <3>2, ZenonT(30) DEF AllCoded
    <3> QED BY <3>1, <3>2
  <2> QED BY <2>1, ZenonT(30) DEF AllCoded, Coded
<1>9. \A r \in boot .. (c - 1) : r \in boot .. (nextShard - 1) /\ r # c /\ r \in Shards
  <2>1. boot \in Nat /\ nextShard \in Nat
      BY ShardNumbers, ZenonT(30)
  <2>2. \A r \in boot .. (c - 1) : r \in boot .. (nextShard - 1) /\ r # c
      BY <1>2, <2>1, SMT
  <2> QED BY <1>7, <2>2, ZenonT(30)
<1>10. ASSUME NEW r \in boot .. (nextShard - 1), r # c, NEW i \in DOMAIN recs[r],
              recs[r][i].kind \in {"map", "object"}, x.kind \in {"map", "object"},
              recs[r][i].code = x.code
       PROVE  recs[r][i].type = x.type
  <2>1. recs[r][i] \in Records /\ Coded(recs[r][i])
      BY <1>1, <1>10, ShardRecords, ZenonT(30) DEF AllCoded
  <2> QED BY <1>1, <1>10, <2>1, SameType, ZenonT(30)
<1>11. ASSUME c \in whole, NEW r \in boot .. (c - 1), NEW i \in DOMAIN recs[r],
              recs[r][i].kind \in {"map", "object"}
       PROVE  Settled(rs, recs[r][i].code, recs[r][i].type)
    BY <1>1, <1>2, <1>3, <1>11, ZenonT(30) DEF CurrentMaps
<1>12. ASSUME c \in whole, NEW r \in boot .. (c - 1), NEW i \in DOMAIN recs[r],
              recs[r][i].kind \in {"map", "object"}
       PROVE  Settled(w, recs[r][i].code, recs[r][i].type)
  <2>1. PICK d, t : d = recs[r][i].code /\ t = recs[r][i].type
      BY ZenonT(30)
  <2>2. Settled(rs, d, t)
      BY <1>11, <1>12, <2>1, ZenonT(30)
  <2>3. ASSUME x.kind = "map", x.code = d PROVE x = Mapping(d, t)
    <3>1. x.type = t
        BY <1>9, <1>10, <1>12, <2>1, <2>3, ZenonT(30)
    <3>2. x \in [kind : {"map", "object"}, code : Nat, type : Types]
      <4>1. Header.kind = "header" /\ Torn.kind = "torn"
          BY ZenonT(30) DEF Header, Torn
      <4>2. x # Header /\ x # Torn
          BY <2>3, <4>1
      <4> QED BY <4>2, ZenonT(30) DEF Records
    <3> QED BY <2>3, <3>1, <3>2 DEF Mapping
  <2>4. Settled(Append(rs, x), d, t)
      BY <2>2, <2>3, AppendSettled, ZenonT(30)
  <2> QED BY <1>4, <2>1, <2>4, ZenonT(30)
<1>13. CurrentMaps'
  <2>1. ASSUME currentShard' \in whole', NEW r \in boot' .. (currentShard' - 1),
               NEW i \in DOMAIN recs'[r], recs'[r][i].kind \in {"map", "object"}
        PROVE  Settled(recs'[currentShard'], recs'[r][i].code, recs'[r][i].type)
    <3>1. c \in whole /\ r \in boot .. (c - 1) /\ currentShard' = c
        BY <1>2, <2>1, ZenonT(30)
    <3>2. recs'[r] = recs[r]
        BY <1>5, <1>9, <3>1, ZenonT(30)
    <3> QED BY <1>5, <1>12, <2>1, <3>1, <3>2, ZenonT(30)
  <2> QED BY <2>1, ZenonT(30) DEF CurrentMaps, Settled
<1>14. \A r, s \in boot .. (nextShard - 1) : r < s /\ s \in whole => Kept(r, s)
    BY <1>1, KeptByPairs, ZenonT(30)
<1>15. RotationKeepsMappings'
  <2>1. ASSUME NEW r \in boot .. (nextShard - 1), NEW s \in boot .. (nextShard - 1),
               r < s, s \in whole
        PROVE  Kept(r, s)'
    <3>1. r # c /\ recs'[r] = recs[r] /\ r \in Shards /\ r \in Nat /\ Kept(r, s)
      <4>1. r \in Nat /\ s \in Nat
          BY ShardRecords, ZenonT(30)
      <4>2. s <= c
          BY <1>2, ZenonT(30)
      <4>3. r # c
          BY <2>1, <4>1, <4>2, SMT
      <4> QED BY <1>5, <1>7, <1>14, <2>1, <4>1, <4>3, ZenonT(30)
    <3>2. CASE s # c
      <4>1. recs'[s] = recs[s]
          BY <1>5, <1>7, <3>2, ZenonT(30)
      <4> QED BY <3>1, <4>1, KeptSame, ZenonT(30)
    <3>3. CASE s = c
      <4>1. r \in boot .. (c - 1) /\ c \in whole
        <5>1. boot \in Nat
            BY ShardNumbers, ZenonT(30)
        <5> QED BY <2>1, <3>1, <3>3, <5>1, SMT
      <4>2. ASSUME NEW i \in DOMAIN recs[r], NEW j \in Unexplained(s)',
                   recs[r][i].kind \in {"map", "object"}, recs[r][i].code = recs'[s][j].code
            PROVE  FALSE
        <5>1. /\ j \in DOMAIN w /\ w[j].kind = "object" /\ recs'[s] = w
              /\ ~typeByCode(w, j, w[j].type)
            BY <1>5, <3>3, <4>2, ZenonT(30) DEF Unexplained, typeByCode
        <5>2. CASE j \in DOMAIN rs
          <6>1. w[j] = rs[j]
              BY <1>4, <5>2, ZenonT(30)
          <6>2. PICK t : t = rs[j].type
              BY ZenonT(30)
          <6>3. ~typeByCode(w, j, t)
              BY <5>1, <6>1, <6>2, ZenonT(30)
          <6>4. ~typeByCode(rs, j, t)
              BY <1>4, <5>2, <6>3, AppendReads, ZenonT(30)
          <6>5. j \in Unexplained(s)
              BY <1>3, <3>3, <5>1, <5>2, <6>1, <6>2, <6>4, ZenonT(30) DEF Unexplained
          <6>6. recs[r][i].code # recs[s][j].code
              BY <3>1, <4>2, <6>5, ZenonT(30) DEF Kept
          <6> QED BY <1>3, <3>3, <4>2, <5>1, <6>1, <6>6, ZenonT(30)
        <5>3. CASE j = n + 1
          <6>1. w[j] = x
              BY <1>4, <5>3, ZenonT(30)
          <6>2. x.kind = "object" /\ recs[r][i].code = x.code
              BY <4>2, <5>1, <6>1, ZenonT(30)
          <6>3. recs[r][i].type = x.type
              BY <1>10, <3>1, <4>2, <6>2, ZenonT(30)
          <6>4. Settled(rs, x.code, x.type)
              BY <1>11, <4>1, <4>2, <6>2, <6>3, ZenonT(30)
          <6>5. typeByCode(Append(rs, x), Len(rs) + 1, x.type)
              BY <6>4, AppendExplains, ZenonT(30)
          <6> QED BY <1>4, <5>1, <5>3, <6>1, <6>5, ZenonT(30)
        <5> QED BY <1>6, <5>1, <5>2, <5>3, ZenonT(30)
      <4> QED BY <3>1, <4>2, ZenonT(30) DEF Kept
    <3> QED BY <3>2, <3>3
  <2> QED BY <2>1, KeptByPairs, ZenonT(30)
<1>16. LastIsCurrent'
    BY <1>1, ZenonT(30) DEF LastIsCurrent
<1> QED BY <1>8, <1>13, <1>15, <1>16, ZenonT(30) DEF MapInv

(* rotateShard begins a new shard: no object is in it, and if it is         *)
(* complete it maps the codes of the shards before it.                      *)
LEMMA MapCreate ==
    ASSUME TInv, WatchInv, CodesInv, MapInv, main # "down", NEW fresh \in FreshShards,
           CreateShard(fresh), currentShard' = nextShard, boot' = boot, typeCodes' = typeCodes
    PROVE  MapInv'
<1>1. LastIsCurrent /\ AllCoded /\ RotationKeepsMappings /\ OneType
    BY ZenonT(30) DEF MapInv, CodesInv
<1>2. /\ nextShard <= MaxShards /\ recs' = [recs EXCEPT ![nextShard] = fresh.recs]
      /\ nextShard' = nextShard + 1
      /\ whole' = IF fresh.ok THEN whole \cup {nextShard} ELSE whole
    BY ZenonT(30) DEF CreateShard
<1>3. PICK c \in Nat : /\ c = nextShard /\ c \in Shards /\ boot \in Nat /\ boot <= c
                        /\ boot .. (nextShard' - 1) = boot .. (c - 1) \cup {c}
  <2>1. nextShard \in Nat /\ boot \in Nat /\ nextShard \in 1 .. (MaxShards + 1) /\ MaxShards \in Nat
      BY ShardNumbers, SinkAssumption, ZenonT(30) DEF TInv, TypeOK
  <2>2. boot <= currentShard /\ currentShard + 1 = nextShard /\ currentShard \in 0 .. MaxShards
      BY <1>1, ZenonT(30) DEF LastIsCurrent, TInv, TypeOK
  <2>3. boot <= nextShard /\ nextShard \in Shards
      BY <1>2, <2>1, <2>2, SMT DEF Shards
  <2>4. boot .. (nextShard' - 1) = boot .. (nextShard - 1) \cup {nextShard}
      BY <1>2, <2>1, <2>3, SMT
  <2> QED BY <2>1, <2>3, <2>4, ZenonT(30)
<1>4. \A s \in boot .. (c - 1) : s \in Shards /\ s # c /\ s < c
  <2>1. \A s \in boot .. (c - 1) : s # c /\ s < c
      BY <1>3, SMT
  <2> QED BY <1>3, <2>1, ShardRecords, ZenonT(30)
<1>5. recs'[c] = fresh.recs /\ \A s \in boot .. (c - 1) : recs'[s] = recs[s]
  <2>1. recs \in [Shards -> Seq(Records)]
      BY ZenonT(30) DEF TInv, TypeOK
  <2> QED BY <1>2, <1>3, <1>4, <2>1, ZenonT(30)
<1>6. c \notin whole
  <2>1. \A s \in whole : s < nextShard
      BY ZenonT(30) DEF WatchInv
  <2>2. ~(c < c)
      BY SMT
  <2> QED BY <1>3, <2>1, <2>2, ZenonT(30)
<1>7. typeCodes \in [Types -> Nat]
    BY ZenonT(30) DEF TInv, TypeOK
<1>8. \A i \in DOMAIN fresh.recs : fresh.recs[i].kind # "object" /\ Coded(fresh.recs[i])
    BY <1>7, FreshCoded, ZenonT(30)
<1>9. LastIsCurrent'
    BY <1>2, <1>3, ZenonT(30) DEF LastIsCurrent
<1>10. AllCoded'
  <2>1. ASSUME NEW s \in boot .. (nextShard' - 1), NEW i \in DOMAIN recs'[s]
        PROVE  Coded(recs'[s][i])
    <3>1. CASE s = c
        BY <1>5, <1>8, <2>1, <3>1, ZenonT(30)
    <3>2. CASE s \in boot .. (c - 1)
        BY <1>1, <1>3, <1>5, <2>1, <3>2, ZenonT(30) DEF AllCoded
    <3> QED BY <1>3, <2>1, <3>1, <3>2, ZenonT(30)
  <2> QED BY <2>1, ZenonT(30) DEF AllCoded, Coded
<1>11. CurrentMaps'
  <2>1. ASSUME currentShard' \in whole', NEW r \in boot' .. (currentShard' - 1),
               NEW i \in DOMAIN recs'[r], recs'[r][i].kind \in {"map", "object"}
        PROVE  Settled(recs'[currentShard'], recs'[r][i].code, recs'[r][i].type)
    <3>1. fresh.ok /\ r \in boot .. (c - 1) /\ currentShard' = c /\ recs'[r] = recs[r]
        BY <1>2, <1>3, <1>5, <1>6, <2>1, ZenonT(30)
    <3>2. recs[r][i] \in Records /\ Coded(recs[r][i]) /\ recs[r][i].kind \in {"map", "object"}
        BY <1>1, <1>3, <2>1, <3>1, ShardRecords, ZenonT(30) DEF AllCoded
    <3>3. PICK d \in Nat, t \in Types : d = recs[r][i].code /\ t = recs[r][i].type
        BY <3>2, RecordFields, ZenonT(30)
    <3>4. d # 0 /\ typeCodes[t] = d
        BY <3>2, <3>3, ZenonT(30) DEF Coded
    <3>5. t \in Known
        BY <3>4, ZenonT(30) DEF Known
    <3>6. Settled(fresh.recs, typeCodes[t], t)
        BY <1>1, <1>7, <3>1, <3>5, FreshMaps, ZenonT(30)
    <3> QED BY <1>5, <3>1, <3>3, <3>4, <3>6, ZenonT(30)
  <2> QED BY <2>1, ZenonT(30) DEF CurrentMaps, Settled
<1>12. RotationKeepsMappings'
  <2>1. \A r, s \in boot .. (nextShard - 1) : r < s /\ s \in whole => Kept(r, s)
      BY <1>1, KeptByPairs, ZenonT(30)
  <2>2. Unexplained(c)' = {}
      BY <1>5, <1>8, ZenonT(30) DEF Unexplained
  <2>3. ASSUME NEW r \in boot .. (nextShard' - 1), NEW s \in boot .. (nextShard' - 1),
               r < s, s \in whole'
        PROVE  Kept(r, s)'
    <3>1. CASE s = c
        BY <2>2, <3>1, ZenonT(30) DEF Kept
    <3>2. CASE s # c
      <4>1. s \in boot .. (c - 1)
          BY <1>3, <2>3, <3>2, ZenonT(30)
      <4>2. r # c
        <5>1. \A a \in Nat : ~(c < a /\ a < c)
            BY SMT
        <5>2. s \in Nat /\ s < c
            BY <1>3, <1>4, <4>1, ShardRecords, ZenonT(30)
        <5> QED BY <2>3, <5>1, <5>2, ZenonT(30)
      <4>3. r \in boot .. (c - 1)
          BY <1>3, <2>3, <4>2, ZenonT(30)
      <4>4. s \in whole
          BY <1>2, <1>3, <2>3, <3>2, ZenonT(30)
      <4>5. recs'[r] = recs[r] /\ recs'[s] = recs[s]
          BY <1>5, <4>1, <4>3, ZenonT(30)
      <4>6. Kept(r, s)
          BY <1>3, <2>1, <2>3, <4>1, <4>3, <4>4, ZenonT(30)
      <4> QED BY <4>5, <4>6, KeptSame, ZenonT(30)
    <3> QED BY <3>1, <3>2
  <2> QED BY <2>3, KeptByPairs, ZenonT(30)
<1> QED BY <1>9, <1>10, <1>11, <1>12, ZenonT(30) DEF MapInv

(* A process that starts has no shard before its own; one that fails to     *)
(* start leaves a shard that is not complete.                               *)
LEMMA MapStart ==
    ASSUME TInv, WatchInv, CodesInv, MapInv, NewWriter PROVE MapInv'
<1>1. PICK fresh \in FreshShards :
         /\ CreateShard(fresh)
         /\ \/ ~fresh.ok /\ UNCHANGED <<main, fileVars, queue, bootVars>>
            \/ fresh.ok /\ currentShard' = nextShard /\ boot' = nextShard
    BY ZenonT(30) DEF NewWriter
<1>2. main = "down" /\ typeCodes' = typeCodes
    BY ZenonT(30) DEF NewWriter, codeVars
<1>3. /\ nextShard <= MaxShards /\ recs' = [recs EXCEPT ![nextShard] = fresh.recs]
      /\ nextShard' = nextShard + 1
      /\ whole' = IF fresh.ok THEN whole \cup {nextShard} ELSE whole
    BY <1>1, ZenonT(30) DEF CreateShard
<1>4. /\ nextShard \in Nat /\ boot \in Nat /\ nextShard \in Shards
      /\ recs \in [Shards -> Seq(Records)] /\ typeCodes \in [Types -> Nat]
  <2>1. nextShard \in 1 .. (MaxShards + 1) /\ MaxShards \in Nat
      BY SinkAssumption, ZenonT(30) DEF TInv, TypeOK
  <2>2. nextShard \in Shards
      BY <1>3, <2>1, SMT DEF Shards
  <2> QED BY <2>2, ShardNumbers, ZenonT(30) DEF TInv, TypeOK
<1>5. PICK c \in Nat : c = nextShard
    BY <1>4, ZenonT(30)
<1>6. CASE ~fresh.ok
  <2>1. main' = "down" /\ boot' = boot /\ whole' = whole
      BY <1>1, <1>2, <1>3, <1>6, ZenonT(30) DEF bootVars
  <2>2. \A r, s \in boot .. (nextShard - 1) : r < s /\ s \in whole => Kept(r, s)
      BY KeptByPairs, ZenonT(30) DEF MapInv
  <2>3. ASSUME NEW r \in boot .. (nextShard' - 1), NEW s \in boot .. (nextShard' - 1),
               r < s, s \in whole
        PROVE  Kept(r, s)'
    <3>1. s < c
        BY <1>5, <2>3, ZenonT(30) DEF WatchInv
    <3>2. /\ r \in boot .. (nextShard - 1) /\ s \in boot .. (nextShard - 1)
          /\ r # nextShard /\ s # nextShard
        BY <1>3, <1>4, <1>5, <2>3, <3>1, SMT
    <3>3. recs'[r] = recs[r] /\ recs'[s] = recs[s]
        BY <1>3, <1>4, <3>2, ShardRecords, ZenonT(30)
    <3>4. Kept(r, s)
        BY <2>2, <2>3, <3>2, ZenonT(30)
    <3> QED BY <3>3, <3>4, KeptSame, ZenonT(30)
  <2> QED BY <2>1, <2>3, KeptByPairs, ZenonT(30) DEF MapInv
<1>7. CASE fresh.ok
  <2>1. boot' = c /\ currentShard' = c /\ nextShard' = c + 1
      BY <1>1, <1>3, <1>5, <1>7, ZenonT(30)
  <2>2. boot' .. (nextShard' - 1) = {c} /\ boot' .. (currentShard' - 1) = {} /\ c <= c /\ ~(c < c)
      BY <2>1, SMT
  <2>3. recs'[c] = fresh.recs
      BY <1>3, <1>4, <1>5, ZenonT(30)
  <2>4. \A i \in DOMAIN fresh.recs : Coded(fresh.recs[i])
      BY <1>4, FreshCoded, ZenonT(30)
  <2>5. AllCoded'
      BY <1>2, <2>2, <2>3, <2>4, ZenonT(30) DEF AllCoded, Coded
  <2>6. CurrentMaps'
      BY <2>2, ZenonT(30) DEF CurrentMaps
  <2>7. LastIsCurrent'
      BY <2>1, <2>2, ZenonT(30) DEF LastIsCurrent
  <2>8. RotationKeepsMappings'
      BY <2>2, KeptByPairs, ZenonT(30)
  <2> QED BY <2>5, <2>6, <2>7, <2>8, ZenonT(30) DEF MapInv
<1> QED BY <1>6, <1>7

(* The record of a request, or what is left of it, is written.              *)
LEMMA MapWrites ==
    ASSUME TInv, CodesInv, MapInv, NEW rec \in Records, Coded(rec), NEW ok, WriteRecord(rec, ok),
           nextShard' = nextShard, whole' = whole, boot' = boot, main' = main,
           currentShard' = currentShard, typeCodes' = typeCodes
    PROVE  MapInv'
<1>1. Torn \in Records /\ Coded(Torn)
  <2>1. Torn.kind = "torn"
      BY ZenonT(30) DEF Torn
  <2>2. Coded(Torn)
      BY <2>1 DEF Coded
  <2> QED BY <2>2, ZenonT(30) DEF Records
<1>2. f = "open" => main # "down" /\ currentShard # 0
  <2>1. (main = "down" => f = "nil") /\ (f = "open" => currentShard # 0)
      BY ZenonT(30) DEF TInv
  <2> QED BY <2>1, ZenonT(30)
<1>3. CASE recs' = recs
    BY <1>3, MapFrame, ZenonT(30)
<1>4. ASSUME f = "open", recs' = [recs EXCEPT ![currentShard] = Append(@, rec)] PROVE MapInv'
    BY <1>2, <1>4, MapWrite, ZenonT(30)
<1>5. ASSUME f = "open", recs' = [recs EXCEPT ![currentShard] = Append(@, Torn)] PROVE MapInv'
    BY <1>1, <1>2, <1>5, MapWrite, ZenonT(30)
<1> QED BY <1>3, <1>4, <1>5, ZenonT(30) DEF WriteRecord

(* The codes and the requests under way.                                    *)
LEMMA CodesWrite ==
    ASSUME TInv, CodesInv, NEW r \in Requests, WriteMapping(r) \/ WriteData(r)
    PROVE  CodesInv'
<1>1. UNCHANGED codeVars
    BY ZenonT(30) DEF WriteMapping, WriteData
<1>2. req \in [Requests -> {NoRequest} \cup
                  [at : {"mapping", "object"}, type : Types, code : Nat]]
    BY ZenonT(30) DEF TInv, TypeOK
<1>3. PICK new : /\ req' = [req EXCEPT ![r] = new]
                 /\ \/ new = NoRequest
                    \/ /\ req[r].at = "mapping"
                       /\ new = [at |-> "object", type |-> req[r].type, code |-> req[r].code]
    BY ZenonT(30) DEF WriteMapping, WriteData
<1>4. \A q \in Requests : req'[q] = IF q = r THEN new ELSE req[q]
    BY <1>2, <1>3, ZenonT(30)
<1>5. NoRequest.at = "idle"
    BY ZenonT(30) DEF NoRequest
<1>6. ASSUME new.at \in {"mapping", "object"}
      PROVE  /\ req[r].at \in {"mapping", "object"}
             /\ new.code = req[r].code /\ new.type = req[r].type
  <2>1. new # NoRequest
      BY <1>5, <1>6
  <2>2. /\ req[r].at = "mapping"
        /\ new = [at |-> "object", type |-> req[r].type, code |-> req[r].code]
      BY <1>3, <2>1, ZenonT(30)
  <2> QED BY <2>2, ZenonT(30)
<1>7. ASSUME NEW q \in Requests, req'[q].at \in {"mapping", "object"}
      PROVE  /\ req[q].at \in {"mapping", "object"}
             /\ req'[q].code = req[q].code /\ req'[q].type = req[q].type
  <2>1. CASE q = r
      BY <1>4, <1>6, <1>7, <2>1, ZenonT(30)
  <2>2. CASE q # r
    <3>1. req'[q] = req[q]
        BY <1>4, <2>2, ZenonT(30)
    <3> QED BY <1>7, <3>1, ZenonT(30)
  <2> QED BY <2>1, <2>2
<1> QED BY <1>1, <1>7, CodesFrame, ZenonT(30)

(* codeForType: a new code is larger than those given before.               *)
LEMMA CodesGiven ==
    ASSUME TInv, CodesInv, NEW r \in Requests, CodeForType(r)
    PROVE  /\ CodesInv'
           /\ \A t \in Types : typeCodes[t] # 0 => typeCodes'[t] = typeCodes[t]
<1>1. /\ req \in [Requests -> {NoRequest} \cup
                     [at : {"mapping", "object"}, type : Types, code : Nat]]
      /\ typeCodes \in [Types -> Nat] /\ nextTypeCode \in Nat
    BY ZenonT(30) DEF TInv, TypeOK
<1>2. /\ nextTypeCode > 0 /\ OneType
      /\ \A t \in Types : typeCodes[t] # 0 => typeCodes[t] < nextTypeCode
      /\ \A q \in Requests : req[q].at \in {"mapping", "object"} =>
            req[q].code # 0 /\ typeCodes[req[q].type] = req[q].code
    BY ZenonT(30) DEF CodesInv
<1>3. PICK t \in Types, a \in {"mapping", "object"}, d \in Nat :
         /\ req' = [req EXCEPT ![r] = [at |-> a, type |-> t, code |-> d]]
         /\ \/ typeCodes[t] # 0 /\ d = typeCodes[t] /\ UNCHANGED codeVars
            \/ /\ typeCodes[t] = 0 /\ d = nextTypeCode
               /\ typeCodes' = [typeCodes EXCEPT ![t] = nextTypeCode]
               /\ nextTypeCode' = nextTypeCode + 1
    BY <1>1, ZenonT(30) DEF CodeForType
<1>4. \A q \in Requests : q # r => req'[q] = req[q]
    BY <1>1, <1>3, ZenonT(30)
<1>5. req'[r].code = d /\ req'[r].type = t
  <2>1. req'[r] = [at |-> a, type |-> t, code |-> d]
      BY <1>1, <1>3, ZenonT(30)
  <2> QED BY <2>1
<1>6. \A q \in Requests : req[q].at \in {"mapping", "object"} => req[q].type \in Types
  <2>1. NoRequest.at = "idle"
      BY ZenonT(30) DEF NoRequest
  <2>2. ASSUME NEW q \in Requests, req[q].at \in {"mapping", "object"} PROVE req[q].type \in Types
    <3>1. req[q] # NoRequest
        BY <2>1, <2>2
    <3>2. req[q] \in [at : {"mapping", "object"}, type : Types, code : Nat]
        BY <1>1, <3>1, ZenonT(30)
    <3> QED BY <3>2
  <2> QED BY <2>2, ZenonT(30)
<1>7. CASE typeCodes[t] # 0 /\ d = typeCodes[t] /\ UNCHANGED codeVars
  <2>1. typeCodes' = typeCodes /\ nextTypeCode' = nextTypeCode
      BY <1>7, ZenonT(30) DEF codeVars
  <2>2. ASSUME NEW q \in Requests, req'[q].at \in {"mapping", "object"}
        PROVE  req'[q].code # 0 /\ typeCodes'[req'[q].type] = req'[q].code
    <3>1. CASE q = r
        BY <1>5, <1>7, <2>1, <3>1, ZenonT(30)
    <3>2. CASE q # r
      <4>1. req'[q] = req[q]
          BY <1>4, <3>2, ZenonT(30)
      <4> QED BY <1>2, <2>1, <2>2, <4>1, ZenonT(30)
    <3> QED BY <3>1, <3>2
  <2> QED BY <1>2, <2>1, <2>2, ZenonT(30) DEF CodesInv, OneType
<1>8. CASE /\ typeCodes[t] = 0 /\ d = nextTypeCode
           /\ typeCodes' = [typeCodes EXCEPT ![t] = nextTypeCode]
           /\ nextTypeCode' = nextTypeCode + 1
  <2>1. /\ typeCodes'[t] = d /\ \A u \in Types : u # t => typeCodes'[u] = typeCodes[u]
        /\ typeCodes[t] = 0
      BY <1>1, <1>8, ZenonT(30)
  <2>2. d # 0 /\ nextTypeCode' > 0 /\ nextTypeCode' = d + 1 /\ d < d + 1
      BY <1>1, <1>2, <1>8, SMT
  <2>3. \A u \in Types : typeCodes[u] # 0 =>
           typeCodes[u] < d /\ typeCodes[u] # d /\ typeCodes[u] < d + 1
    <3>1. \A n \in Nat : n < d => n # d /\ n < d + 1
        BY SMT
    <3>2. \A u \in Types : typeCodes[u] \in Nat
        BY <1>1, ZenonT(30)
    <3> QED BY <1>2, <1>8, <3>1, <3>2, ZenonT(30)
  <2>4. \A u \in Types : typeCodes'[u] # 0 => typeCodes'[u] < nextTypeCode'
      BY <2>1, <2>2, <2>3, ZenonT(30)
  <2>5. OneType'
    <3>1. ASSUME NEW u \in Types, NEW v \in Types, typeCodes'[u] # 0, typeCodes'[u] = typeCodes'[v]
          PROVE  u = v
        BY <1>2, <2>1, <2>3, <3>1, ZenonT(30) DEF OneType
    <3> QED BY <3>1, ZenonT(30) DEF OneType
  <2>6. \A u \in Types : typeCodes[u] # 0 => typeCodes'[u] = typeCodes[u]
      BY <2>1, ZenonT(30)
  <2>7. ASSUME NEW q \in Requests, req'[q].at \in {"mapping", "object"}
        PROVE  req'[q].code # 0 /\ typeCodes'[req'[q].type] = req'[q].code
    <3>1. CASE q = r
        BY <1>5, <2>1, <2>2, <3>1, ZenonT(30)
    <3>2. CASE q # r
      <4>1. req'[q] = req[q]
          BY <1>4, <3>2, ZenonT(30)
      <4>2. /\ req[q].code # 0 /\ typeCodes[req[q].type] = req[q].code /\ req[q].type \in Types
          BY <1>2, <1>6, <2>7, <4>1, ZenonT(30)
      <4> QED BY <2>6, <4>1, <4>2, ZenonT(30)
    <3> QED BY <3>1, <3>2
  <2> QED BY <2>2, <2>4, <2>5, <2>6, <2>7, ZenonT(30) DEF CodesInv
<1> QED BY <1>3, <1>7, <1>8

(* The step of the invariant.                                               *)
LEMMA MapStep ==
    TInv /\ TInv' /\ WatchInv /\ CodesInv /\ MapInv /\ [Next]_vars => CodesInv' /\ MapInv'
<1> SUFFICES ASSUME TInv, TInv', WatchInv, CodesInv, MapInv, [Next]_vars
             PROVE  CodesInv' /\ MapInv'
    OBVIOUS
<1>1. ASSUME UNCHANGED <<codeVars, req>> PROVE CodesInv'
    BY <1>1, CodesFrame, ZenonT(30)
<1>2. ASSUME recs' = recs, nextShard' = nextShard, whole' = whole, boot' = boot,
             currentShard' = currentShard, UNCHANGED <<codeVars, req>>,
             main' = "down" \/ main # "down" \/ main' = main
      PROVE  CodesInv' /\ MapInv'
  <2>1. typeCodes' = typeCodes
      BY <1>2, ZenonT(30) DEF codeVars
  <2> QED BY <1>1, <1>2, <2>1, MapFrame, ZenonT(30)
<1>3. ASSUME UNCHANGED <<diskVars, main, fileVars, codeVars, req, bootVars>>
      PROVE  CodesInv' /\ MapInv'
    BY <1>2, <1>3, ZenonT(30) DEF diskVars, fileVars, bootVars
<1>4. ASSUME NEW k \in Workers, Worker(k) PROVE CodesInv' /\ MapInv'
  <2>1. UNCHANGED <<diskVars, main, fileVars, codeVars, req, bootVars>>
      BY <1>4, ZenonT(30)
         DEF Worker, PopTask, WorkerExits, TryUpload, UploadFails, AbortRetry, StartSweep, taskFrame
  <2> QED BY <1>3, <2>1, ZenonT(30)
<1>5. ASSUME StartSweep("ticker") PROVE CodesInv' /\ MapInv'
    BY <1>3, <1>5, ZenonT(30) DEF StartSweep
<1>6. ASSUME Sweep PROVE CodesInv' /\ MapInv'
  <2>1. UNCHANGED sweepFrame
      BY <1>6, ZenonT(30) DEF Sweep, VisitShard, RemoveShard, EndSweep
  <2> QED BY <1>2, <2>1, ZenonT(30) DEF sweepFrame, fileVars, bootVars
<1>7. ASSUME CloseFile \/ CloseRunner PROVE CodesInv' /\ MapInv'
  <2>1. UNCHANGED closeFrame /\ main # "down"
      BY <1>7, ZenonT(30) DEF CloseFile, CloseRunner
  <2> QED BY <1>2, <2>1, ZenonT(30) DEF closeFrame, diskVars, bootVars
<1>8. ASSUME Exit \/ Crash PROVE CodesInv' /\ MapInv'
  <2>1. Gone
      BY <1>8, ZenonT(30) DEF Exit, Crash
  <2>2. /\ main' = "down" /\ typeCodes' = [t \in Types |-> 0] /\ nextTypeCode' = FirstCode
        /\ req' = [r \in Requests |-> NoRequest]
        /\ recs' = recs /\ nextShard' = nextShard /\ whole' = whole /\ boot' = boot
      BY <2>1, ZenonT(30) DEF Gone, diskVars, bootVars
  <2>3. MapInv'
      BY <2>2, MapFrame, ZenonT(30)
  <2>4. nextTypeCode' > 0
      BY <2>2 DEF FirstCode
  <2>5. NoRequest.at = "idle"
      BY ZenonT(30) DEF NoRequest
  <2>6. \A r \in Requests : req'[r].at = "idle"
      BY <2>2, <2>5, ZenonT(30)
  <2>7. \A t \in Types : typeCodes'[t] = 0
      BY <2>2, ZenonT(30)
  <2>8. CodesInv'
      BY <2>4, <2>6, <2>7, ZenonT(30) DEF CodesInv, OneType
  <2> QED BY <2>3, <2>8
<1>9. ASSUME NewWriter PROVE CodesInv' /\ MapInv'
  <2>1. UNCHANGED <<codeVars, req>>
      BY <1>9, ZenonT(30) DEF NewWriter
  <2> QED BY <1>1, <1>9, <2>1, MapStart, ZenonT(30)
<1>10. ASSUME Tick PROVE CodesInv' /\ MapInv'
  <2>1. main # "down" /\ rotateShard /\ UNCHANGED <<main, codeVars, req, bootVars>>
      BY <1>10, ZenonT(30) DEF Tick
  <2>2. ASSUME UNCHANGED <<diskVars, currentShard>> PROVE CodesInv' /\ MapInv'
      BY <1>2, <2>1, <2>2, ZenonT(30) DEF diskVars, bootVars
  <2>3. ASSUME NEW fresh \in FreshShards, CreateShard(fresh), currentShard' = nextShard
        PROVE  CodesInv' /\ MapInv'
    <3>1. typeCodes' = typeCodes /\ boot' = boot
        BY <2>1, ZenonT(30) DEF codeVars, bootVars
    <3> QED BY <1>1, <2>1, <2>3, <3>1, MapCreate, ZenonT(30)
  <2> QED BY <2>1, <2>2, <2>3, ZenonT(30) DEF rotateShard, fileVars
<1>11. ASSUME NEW r \in Requests, CodeForType(r) PROVE CodesInv' /\ MapInv'
  <2>1. UNCHANGED <<diskVars, main, fileVars, bootVars>>
      BY <1>11, ZenonT(30) DEF CodeForType
  <2> QED BY <1>11, <2>1, CodesGiven, MapFrame, ZenonT(30) DEF diskVars, fileVars, bootVars
<1>12. ASSUME NEW r \in Requests, WriteMapping(r) \/ WriteData(r) PROVE CodesInv' /\ MapInv'
  <2>1. UNCHANGED <<nextShard, whole, main, fileVars, codeVars, bootVars>>
      BY <1>12, ZenonT(30) DEF WriteMapping, WriteData
  <2>2. PICK k \in {"map", "object"}, ok \in BOOLEAN :
           /\ WriteRecord([kind |-> k, code |-> req[r].code, type |-> req[r].type], ok)
           /\ req[r].at \in {"mapping", "object"}
      BY <1>12, ZenonT(30) DEF WriteMapping, WriteData, Mapping, Object
  <2>3. PICK c \in Nat, t \in Types : /\ c = req[r].code /\ t = req[r].type
                                        /\ c # 0 /\ typeCodes[t] = c
    <3>1. NoRequest.at = "idle"
        BY ZenonT(30) DEF NoRequest
    <3>2. req[r] # NoRequest
        BY <2>2, <3>1
    <3>3. req[r] \in [at : {"mapping", "object"}, type : Types, code : Nat]
        BY <3>2, ZenonT(30) DEF TInv, TypeOK
    <3>4. req[r].code \in Nat /\ req[r].type \in Types
        BY <3>3
    <3>5. req[r].code # 0 /\ typeCodes[req[r].type] = req[r].code
        BY <2>2, ZenonT(30) DEF CodesInv
    <3> QED BY <3>4, <3>5, ZenonT(30)
  <2>4. PICK rec : rec = [kind |-> k, code |-> c, type |-> t]
      BY ZenonT(30)
  <2>5. rec \in Records
    <3>1. rec \in [kind : {"map", "object"}, code : Nat, type : Types]
        BY <2>4
    <3> QED BY <3>1, ZenonT(30) DEF Records
  <2>6. rec.code = c /\ rec.type = t
      BY <2>4
  <2>7. Coded(rec)
      BY <2>3, <2>6, ZenonT(30) DEF Coded
  <2>8. WriteRecord(rec, ok)
      BY <2>2, <2>3, <2>4, ZenonT(30)
  <2>9. /\ nextShard' = nextShard /\ whole' = whole /\ boot' = boot /\ main' = main
        /\ currentShard' = currentShard /\ typeCodes' = typeCodes
      BY <2>1, ZenonT(30) DEF fileVars, codeVars, bootVars
  <2>10. MapInv'
      BY <2>5, <2>7, <2>8, <2>9, MapWrites, ZenonT(30)
  <2> QED BY <1>12, <2>10, CodesWrite, ZenonT(30)
<1>13. ASSUME UNCHANGED vars PROVE CodesInv' /\ MapInv'
    BY <1>3, <1>13, ZenonT(30) DEF vars
<1> QED BY <1>4, <1>5, <1>6, <1>7, <1>8, <1>9, <1>10, <1>11, <1>12, <1>13, ZenonT(30)
        DEF Next, Close

(* rotateShard repeats the mappings: in a shard it completed, no object is  *)
(* unexplained whose code an earlier shard of the process uses, whatever    *)
(* requests codeForType and WriteObject have under way at a rotation and    *)
(* whichever writes fail.                                                   *)
THEOREM MappingsRepeated == Spec => []RotationKeepsMappings
<1>1. Init => CodesInv /\ MapInv
  <2> SUFFICES ASSUME Init PROVE CodesInv /\ MapInv
      OBVIOUS
  <2>1. /\ main = "down" /\ whole = {} /\ typeCodes = [t \in Types |-> 0]
        /\ nextTypeCode = FirstCode /\ req = [r \in Requests |-> NoRequest]
      BY ZenonT(30) DEF Init
  <2>2. nextTypeCode > 0
      BY <2>1 DEF FirstCode
  <2>3. NoRequest.at = "idle"
      BY ZenonT(30) DEF NoRequest
  <2>4. \A r \in Requests : req[r].at = "idle"
      BY <2>1, <2>3, ZenonT(30)
  <2>5. \A t \in Types : typeCodes[t] = 0
      BY <2>1, ZenonT(30)
  <2>6. CodesInv
      BY <2>2, <2>4, <2>5, ZenonT(30) DEF CodesInv, OneType
  <2>7. RotationKeepsMappings
      BY <2>1, ZenonT(30) DEF RotationKeepsMappings
  <2> QED BY <2>1, <2>6, <2>7, ZenonT(30) DEF MapInv
<1>2. MapInv => RotationKeepsMappings
    BY ZenonT(30) DEF MapInv
<1>3. Init => WatchInv
    BY InitWatch
<1> QED BY InitType, StepType, InitInv, StepInv, WatchStep, MapStep, <1>1, <1>2, <1>3, PTL DEF Spec

-----------------------------------------------------------------------------
(* The compactor.                                                           *)

(* What a run holds in each of its steps: only shards that are in the       *)
(* bucket, and, once they are parsed, the rows the sink's reader would      *)
(* find in a sound shard; a partition that is not left has been written.    *)
RunOK ==
    /\ run.at \in {"idle", "listed", "selected", "write"}
    /\ run.at = "idle" => run = NoRun
    /\ run.at = "listed" =>
          /\ run.shards \subseteq RawShards
          /\ \A s \in run.shards : raw[s] # NoShard
    /\ run.at \in {"selected", "write"} =>
          /\ run.keys \subseteq RawShards
          /\ \A s \in run.keys : raw[s] # NoShard
    /\ run.at = "write" =>
          \A s \in run.keys :
              /\ run.rows[s] \subseteq Types
              /\ Sound(raw[s]) =>
                    \A i \in Query(raw[s]) : raw[s][i].type \in run.rows[s]
              /\ \A t \in run.rows[s] : t \in run.left \/ parquet[s][t] > 0

(* The inductive invariant behind MarkedShardsWritten.                      *)
CompactorInv ==
    /\ raw \in [RawShards -> Contents \cup {NoShard}]
    /\ markers \subseteq RawShards
    /\ parquet \in [RawShards -> [Types -> Nat]]
    /\ RunOK
    /\ \A s \in markers : raw[s] # NoShard
    /\ MarkedShardsWritten

(* A sound shard parses to what the sink's own reader finds in it.          *)
LEMMA SoundParses ==
    ASSUME NEW rs \in Seq(Records), Sound(rs), NEW parsed \in parseShard(rs)
    PROVE  parsed = Query(rs)
<1>1. ~(\E i \in DOMAIN rs : rs[i] = Torn /\ i < Len(rs))
  <2> SUFFICES ASSUME NEW i \in DOMAIN rs, rs[i] = Torn, i < Len(rs)
               PROVE  FALSE
      OBVIOUS
  <2>1. rs # <<>> /\ i \in 1 .. (Len(rs) - 1)
      OBVIOUS
  <2> QED BY <2>1, ZenonT(30) DEF Sound
<1>2. ~(rs # <<>> /\ rs[1] # Header)
    BY ZenonT(30) DEF Sound
<1> QED BY <1>1, <1>2, ZenonT(30) DEF parseShard, Query

(* A copy is only ever added.                                               *)
LEMMA PartsGrow ==
    ASSUME parquet \in [RawShards -> [Types -> Nat]],
           NEW t \in Types, WritePartition(t)
    PROVE  /\ parquet' \in [RawShards -> [Types -> Nat]]
           /\ \A s \in RawShards, u \in Types :
                 /\ parquet[s][u] \in Nat
                 /\ parquet'[s][u] \in Nat
                 /\ parquet'[s][u] >= parquet[s][u]
           /\ \A s \in run.keys \cap RawShards :
                 t \in run.rows[s] => parquet'[s][t] > 0
<1>1. \A s \in RawShards, u \in Types : parquet[s][u] \in Nat
    BY ZenonT(30)
<1>2. parquet' \in [RawShards -> [Types -> Nat]]
    BY <1>1 DEF WritePartition
<1>3. \A s \in RawShards, u \in Types :
         parquet'[s][u] \in Nat /\ parquet'[s][u] >= parquet[s][u]
    BY <1>1 DEF WritePartition
<1>4. \A s \in run.keys \cap RawShards :
         t \in run.rows[s] => parquet'[s][t] > 0
    BY <1>1 DEF WritePartition
<1> QED BY <1>1, <1>2, <1>3, <1>4, ZenonT(30)

(* Nothing is written or marked at first.                                   *)
LEMMA CompactorInitInv == CompactorInit => CompactorInv
BY DEF CompactorInit, CompactorInv, RunOK, NoRun, MarkedShardsWritten

(* Every step of the sinks, of a run and of a failure preserves it.         *)
LEMMA CompactorStepInv ==
    CompactorInv /\ [CompactorNext]_compactorVars => CompactorInv'
<1> SUFFICES ASSUME CompactorInv, [CompactorNext]_compactorVars PROVE CompactorInv'
    BY ZenonT(30)
<1> USE CompactorAssumption
<1>1. ASSUME NEW x \in RawShards, ShardArrives(x) PROVE CompactorInv'
  <2>1. PICK rs \in Contents : raw' = [raw EXCEPT ![x] = rs]
      BY <1>1, ZenonT(30) DEF ShardArrives
  <2>2. /\ raw' \in [RawShards -> Contents \cup {NoShard}]
        /\ \A s \in RawShards : raw[s] # NoShard => raw'[s] = raw[s]
      BY <1>1, <2>1, ZenonT(30) DEF ShardArrives, CompactorInv
  <2>3. UNCHANGED <<markers, parquet, run>>
      BY <1>1, ZenonT(30) DEF ShardArrives
  <2>4. RunOK'
    <3>1. run.at = "listed" => \A s \in run.shards : raw'[s] = raw[s]
        BY <2>2, ZenonT(30) DEF CompactorInv, RunOK
    <3>2. run.at \in {"selected", "write"} =>
             \A s \in run.keys : raw'[s] = raw[s]
        BY <2>2, ZenonT(30) DEF CompactorInv, RunOK
    <3> QED BY <2>3, <3>1, <3>2, ZenonT(30) DEF CompactorInv, RunOK
  <2>5. \A s \in markers : raw'[s] = raw[s] /\ raw'[s] # NoShard
      BY <2>2, ZenonT(30) DEF CompactorInv
  <2>6. MarkedShardsWritten'
      BY <2>3, <2>5, ZenonT(30) DEF CompactorInv, MarkedShardsWritten, Written
  <2> QED BY <2>2, <2>3, <2>4, <2>5, <2>6, ZenonT(30) DEF CompactorInv
<1>2. ASSUME ListRaw PROVE CompactorInv'
  <2>1. UNCHANGED <<raw, markers, parquet>>
      BY <1>2, ZenonT(30) DEF ListRaw
  <2>2. RunOK'
      BY <1>2, <2>1, ZenonT(30) DEF ListRaw, RunOK, NoRun
  <2> QED BY <2>1, <2>2, ZenonT(30) DEF CompactorInv, MarkedShardsWritten, Written
<1>3. ASSUME Select PROVE CompactorInv'
  <2>1. UNCHANGED <<raw, markers, parquet>>
      BY <1>3, ZenonT(30) DEF Select
  <2>2. PICK settled \in SUBSET run.shards :
           run' = IF settled \ markers = {} THEN NoRun
                  ELSE [at |-> "selected",
                        keys |-> FirstOf(settled \ markers, MaxShardsPerRun)]
      BY <1>3, ZenonT(30) DEF Select
  <2>3. FirstOf(settled \ markers, MaxShardsPerRun) \subseteq run.shards
      BY ZenonT(30) DEF FirstOf
  <2>4. run.shards \subseteq RawShards /\ \A s \in run.shards : raw[s] # NoShard
      BY <1>3, ZenonT(30) DEF Select, CompactorInv, RunOK
  <2>5. RunOK'
      BY <2>1, <2>2, <2>3, <2>4, ZenonT(30) DEF RunOK, NoRun
  <2> QED BY <2>1, <2>5, ZenonT(30) DEF CompactorInv, MarkedShardsWritten, Written
<1>4. ASSUME Parse PROVE CompactorInv'
  <2>1. UNCHANGED <<raw, markers, parquet>>
      BY <1>4, ZenonT(30) DEF Parse
  <2>2. PICK rows \in [run.keys -> SUBSET Types] :
           /\ \A s \in run.keys :
                 \E parsed \in parseShard(raw[s]) :
                     rows[s] = RowsOf(raw[s], parsed)
           /\ run' = [at |-> "write", keys |-> run.keys, rows |-> rows,
                      left |-> UNION {rows[s] : s \in run.keys}]
      BY <1>4, ZenonT(30) DEF Parse
  <2>3. run.keys \subseteq RawShards /\ \A s \in run.keys : raw[s] # NoShard
      BY <1>4, ZenonT(30) DEF Parse, CompactorInv, RunOK
  <2>4. ASSUME NEW s \in run.keys, Sound(raw[s])
        PROVE  \A i \in Query(raw[s]) : raw[s][i].type \in rows[s]
    <3>1. PICK parsed \in parseShard(raw[s]) : rows[s] = RowsOf(raw[s], parsed)
        BY <2>2, ZenonT(30)
    <3>2. raw[s] \in Seq(Records)
        BY <2>3, ZenonT(30) DEF CompactorInv
    <3>3. parsed = Query(raw[s])
        BY <2>4, <3>2, SoundParses, ZenonT(30)
    <3> QED BY <3>1, <3>3, ZenonT(30) DEF RowsOf
  <2>5. \A s \in run.keys :
           /\ rows[s] \subseteq Types
           /\ \A t \in rows[s] : t \in UNION {rows[r] : r \in run.keys}
      BY ZenonT(30)
  <2>6. RunOK'
      BY <2>1, <2>2, <2>3, <2>4, <2>5, ZenonT(30) DEF RunOK
  <2> QED BY <2>1, <2>6, ZenonT(30) DEF CompactorInv, MarkedShardsWritten, Written
<1>5. ASSUME NEW t \in Types, WritePartition(t) PROVE CompactorInv'
  <2>1. /\ parquet' \in [RawShards -> [Types -> Nat]]
        /\ \A s \in RawShards, u \in Types :
              /\ parquet[s][u] \in Nat
              /\ parquet'[s][u] \in Nat
              /\ parquet'[s][u] >= parquet[s][u]
        /\ \A s \in run.keys \cap RawShards :
              t \in run.rows[s] => parquet'[s][t] > 0
      BY <1>5, PartsGrow, ZenonT(30) DEF CompactorInv
  <2>2. UNCHANGED <<raw, markers>> /\ run.at = "write"
      BY <1>5, ZenonT(30) DEF WritePartition
  <2>3. run' = [at |-> "write", keys |-> run.keys, rows |-> run.rows,
                left |-> run.left \ {t}]
      BY <1>5, ZenonT(30) DEF WritePartition
  <2>4. ASSUME NEW s \in run.keys, NEW u \in run.rows[s]
        PROVE  u \in run.left \ {t} \/ parquet'[s][u] > 0
    <3>1. s \in RawShards /\ u \in Types /\ (u \in run.left \/ parquet[s][u] > 0)
        BY <2>2, ZenonT(30) DEF CompactorInv, RunOK
    <3>2. CASE u = t
        BY <2>1, <3>1, <3>2, ZenonT(30)
    <3>3. CASE u # t /\ u \in run.left
        BY <3>3, ZenonT(30)
    <3>4. CASE parquet[s][u] > 0
        BY <2>1, <3>1, <3>4, SMTT(30)
    <3> QED BY <3>1, <3>2, <3>3, <3>4, ZenonT(30)
  <2>5. RunOK'
      BY <2>2, <2>3, <2>4, ZenonT(30) DEF CompactorInv, RunOK
  <2>6. MarkedShardsWritten'
    <3> SUFFICES ASSUME NEW s \in markers, Sound(raw[s]),
                        NEW i \in Query(raw[s])
                 PROVE  parquet'[s][raw[s][i].type] > 0
        BY <2>2, ZenonT(30) DEF MarkedShardsWritten, Written
    <3>1. parquet[s][raw[s][i].type] > 0
        BY ZenonT(30) DEF CompactorInv, MarkedShardsWritten, Written
    <3>2. s \in RawShards /\ raw[s] \in Seq(Records)
        BY ZenonT(30) DEF CompactorInv
    <3>3. raw[s][i].type \in Types
        BY <3>2, SMTT(30) DEF Query, Decoded, Records, Header, Torn
    <3> QED BY <2>1, <3>1, <3>2, <3>3, SMTT(30)
  <2> QED BY <2>1, <2>2, <2>5, <2>6, ZenonT(30) DEF CompactorInv
<1>6. ASSUME WriteMarker PROVE CompactorInv'
  <2>1. UNCHANGED <<raw, parquet>> /\ run.at = "write" /\ run.left = {}
      BY <1>6, ZenonT(30) DEF WriteMarker
  <2>2. PICK s \in run.keys :
           /\ markers' = markers \cup {s}
           /\ run' = IF run.keys = {s} THEN NoRun
                     ELSE [at |-> "write", keys |-> run.keys \ {s},
                           rows |-> run.rows, left |-> run.left]
      BY <1>6, ZenonT(30) DEF WriteMarker
  <2>3. s \in RawShards /\ raw[s] # NoShard
      BY <2>1, ZenonT(30) DEF CompactorInv, RunOK
  <2>4. Sound(raw[s]) => Written(s)
      BY <2>1, ZenonT(30) DEF CompactorInv, RunOK, Written
  <2>5. MarkedShardsWritten'
      BY <2>1, <2>2, <2>4, ZenonT(30) DEF CompactorInv, MarkedShardsWritten, Written
  <2>6. RunOK'
      BY <2>1, <2>2, ZenonT(30) DEF CompactorInv, RunOK, NoRun
  <2> QED BY <2>1, <2>2, <2>3, <2>5, <2>6, ZenonT(30) DEF CompactorInv
<1>7. ASSUME RunFails PROVE CompactorInv'
  <2>1. UNCHANGED <<raw, markers, parquet>> /\ run' = NoRun
      BY <1>7, ZenonT(30) DEF RunFails
  <2>2. RunOK'
      BY <2>1, ZenonT(30) DEF RunOK, NoRun
  <2> QED BY <2>1, <2>2, ZenonT(30) DEF CompactorInv, MarkedShardsWritten, Written
<1>8. ASSUME UNCHANGED compactorVars PROVE CompactorInv'
    BY <1>8, ZenonT(30) DEF compactorVars, CompactorInv, RunOK, MarkedShardsWritten, Written
<1> QED BY <1>1, <1>2, <1>3, <1>4, <1>5, <1>6, <1>7, <1>8, ZenonT(30)
    DEF CompactorNext, RunStep

(* The marker of a sound shard commits, for any shards and contents: Compact *)
(* writes it only after every partition of the shard's run was written.     *)
THEOREM MarkersCommit == CompactorSpec => []MarkedShardsWritten
<1>1. CompactorInv => MarkedShardsWritten
    BY ZenonT(30) DEF CompactorInv
<1> QED BY CompactorInitInv, CompactorStepInv, <1>1, PTL
    DEF CompactorSpec

-----------------------------------------------------------------------------
(* A run works on unmarked shards; until a run fails, the rows that are in  *)
(* the parts are of marked shards, or of partitions the run has done.       *)
OnceInv ==
    /\ failedRuns \in Nat
    /\ run.at \in {"selected", "write"} => run.keys \cap markers = {}
    /\ failedRuns = 0 =>
          \A s \in RawShards, t \in Types :
              /\ parquet[s][t] < 2
              /\ parquet[s][t] > 0 =>
                    \/ s \in markers
                    \/ run.at = "write" /\ s \in run.keys /\ t \notin run.left

(* Every step preserves it, given CompactorInv.                             *)
LEMMA StepOnce ==
    CompactorInv /\ OnceInv /\ [CompactorNext]_compactorVars => OnceInv'
<1> SUFFICES ASSUME CompactorInv, OnceInv, [CompactorNext]_compactorVars
             PROVE  OnceInv'
    BY ZenonT(30)
<1>1. ASSUME NEW x \in RawShards, ShardArrives(x) PROVE OnceInv'
    BY <1>1, ZenonT(30) DEF ShardArrives, OnceInv
<1>2. ASSUME ListRaw PROVE OnceInv'
    BY <1>2, ZenonT(30) DEF ListRaw, OnceInv, NoRun
<1>3. ASSUME Select PROVE OnceInv'
  <2>1. UNCHANGED <<raw, markers, parquet, failedRuns>> /\ run.at = "listed"
      BY <1>3, ZenonT(30) DEF Select
  <2>2. PICK settled \in SUBSET run.shards :
           run' = IF settled \ markers = {} THEN NoRun
                  ELSE [at |-> "selected",
                        keys |-> FirstOf(settled \ markers, MaxShardsPerRun)]
      BY <1>3, ZenonT(30) DEF Select
  <2>3. FirstOf(settled \ markers, MaxShardsPerRun) \cap markers = {}
      BY ZenonT(30) DEF FirstOf
  <2> QED BY <2>1, <2>2, <2>3, ZenonT(30) DEF OnceInv, NoRun
<1>4. ASSUME Parse PROVE OnceInv'
    BY <1>4 DEF Parse, OnceInv
<1>5. ASSUME NEW t \in Types, WritePartition(t) PROVE OnceInv'
  <2>1. UNCHANGED <<raw, markers, failedRuns>> /\ run.at = "write" /\ t \in run.left
      BY <1>5, ZenonT(30) DEF WritePartition
  <2>2. run' = [at |-> "write", keys |-> run.keys, rows |-> run.rows,
                left |-> run.left \ {t}]
      BY <1>5, ZenonT(30) DEF WritePartition
  <2>3. ASSUME NEW s \in RawShards, NEW u \in Types, failedRuns = 0
        PROVE  /\ parquet'[s][u] < 2
               /\ parquet'[s][u] > 0 =>
                     \/ s \in markers
                     \/ s \in run.keys /\ u \notin run.left \ {t}
    <3>1. parquet[s][u] \in Nat /\ parquet[s][u] < 2
        BY <2>3, ZenonT(30) DEF CompactorInv, OnceInv
    <3>2. parquet'[s][u] = IF /\ u = t
                              /\ s \in run.keys
                              /\ t \in run.rows[s]
                              /\ parquet[s][u] < 2
                           THEN parquet[s][u] + 1
                           ELSE parquet[s][u]
        BY <1>5, ZenonT(30) DEF WritePartition
    <3>3. parquet[s][u] > 0 =>
             s \in markers \/ (s \in run.keys /\ u \notin run.left)
        BY <2>1, <2>3, ZenonT(30) DEF OnceInv
    <3>4. run.keys \cap markers = {}
        BY <2>1, ZenonT(30) DEF OnceInv
    <3>5. ASSUME u = t, s \in run.keys PROVE parquet[s][u] = 0
        BY <2>1, <3>1, <3>3, <3>4, <3>5, SMTT(30)
    <3> QED BY <3>1, <3>2, <3>3, <3>5
  <2> QED BY <2>1, <2>2, <2>3, ZenonT(30) DEF OnceInv
<1>6. ASSUME WriteMarker PROVE OnceInv'
  <2>1. UNCHANGED <<raw, parquet, failedRuns>> /\ run.at = "write"
      BY <1>6, ZenonT(30) DEF WriteMarker
  <2>2. PICK s \in run.keys :
           /\ markers' = markers \cup {s}
           /\ run' = IF run.keys = {s} THEN NoRun
                     ELSE [at |-> "write", keys |-> run.keys \ {s},
                           rows |-> run.rows, left |-> run.left]
      BY <1>6, ZenonT(30) DEF WriteMarker
  <2>3. run'.at = "idle" \/ (run'.at = "write" /\ run'.keys = run.keys \ {s})
      BY <2>2, ZenonT(30) DEF NoRun
  <2>4. run'.at = "idle" => run.keys = {s}
      BY <2>2, ZenonT(30) DEF NoRun
  <2>5. run'.at = "write" => run'.left = run.left
      BY <2>2, ZenonT(30) DEF NoRun
  <2>6. run'.at \in {"selected", "write"} => run'.keys \cap markers' = {}
      BY <2>1, <2>2, <2>3, ZenonT(30) DEF OnceInv
  <2> QED BY <2>1, <2>2, <2>3, <2>4, <2>5, <2>6, ZenonT(30) DEF OnceInv
<1>7. ASSUME RunFails PROVE OnceInv'
    BY <1>7 DEF RunFails, OnceInv, NoRun
<1>8. ASSUME UNCHANGED compactorVars PROVE OnceInv'
    BY <1>8, ZenonT(30) DEF compactorVars, OnceInv
<1> QED BY <1>1, <1>2, <1>3, <1>4, <1>5, <1>6, <1>7, <1>8, ZenonT(30)
    DEF CompactorNext, RunStep

(* Until a run fails no row is in the Parquet parts twice: Compact takes up *)
(* only shards without a marker and writes each partition of a run once.    *)
THEOREM RowsOnce == CompactorSpec => []RowsOnceWithoutFailure
<1>1. CompactorInit => OnceInv
    BY SMTT(30) DEF CompactorInit, OnceInv, NoRun
<1>2. OnceInv => RowsOnceWithoutFailure
    BY ZenonT(30) DEF OnceInv, RowsOnceWithoutFailure
<1> QED BY CompactorInitInv, CompactorStepInv, StepOnce, <1>1, <1>2, PTL
    DEF CompactorSpec
=============================================================================
