----------------------------- MODULE SinkWriter -----------------------------
(***************************************************************************)
(* The OpenTelemetry sink (cmd/opentelemetry-sink/writer.go) with its      *)
(* upload workers (pkg/async): request handlers append objects to the      *)
(* current shard under type codes that are assigned on first use, a ticker *)
(* rotates the shard, closed shards are uploaded by a pool of workers, and *)
(* a sweep removes the local copy of what is old enough and archived.  The *)
(* process may be stopped or killed, and finds its shards again.           *)
(***************************************************************************)
EXTENDS ArchiveStore, FiniteSets

CONSTANTS Requests,     \* the handlers of the OTLP endpoints
          Workers,      \* the workers of the uploader
          MaxWrites,    \* bound: objects ever sent to the sink
          Budget,       \* bound: shards, objects and failures together
          MaxSweeps     \* bound: sweeps of the ticker that wait for their turn

ASSUME SinkAssumption ==
    /\ MaxShards \in Nat \ {0}
    /\ IsFiniteSet(Types)
    /\ "ticker" \notin Workers
    /\ NoObject \notin Seq(Records)

VARIABLES
    recs,           \* what was written to each shard, also once removed
    local,          \* the shards that are on the sink's disk
    nextShard,      \* the next name: time goes on over restarts
    main,           \* "down", "serving", and the steps of Close
    f,              \* Writer.f: "open", "closed" or "nil"
    currentShard,   \* Writer.currentShard
    typeCodes,      \* Writer.typeCodes, 0 where it has no entry
    nextTypeCode,   \* Writer.nextTypeCode
    req,            \* the handlers, in WriteObject
    queue,          \* TaskRunner.queue: shards to upload
    task,           \* the workers, in processUploadWithRetry
    sweeps,         \* cleanups the ticker started that wait for cleanupMutex
    sweep,          \* the cleanup that holds cleanupMutex
    writes,         \* objects sent so far
    boot,           \* history: the first shard of the running process
    caughtUp,       \* history: whether it could list the shards before
    whole           \* history: the shards rotateShard completed

diskVars == <<recs, local, nextShard, whole>>
fileVars == <<f, currentShard>>
codeVars == <<typeCodes, nextTypeCode>>
bootVars == <<boot, caughtUp>>
vars == <<storeVars, diskVars, main, fileVars, codeVars, req, queue, task,
          sweeps, sweep, writes, bootVars>>

FirstCode == 32

NoRequest == [at |-> "idle"]
NoTask == [at |-> "idle"]
NoSweep == [at |-> "idle"]

(* stopChan is closed; TaskRunner.stopped and Queue.closed are set.         *)
Stopping == main \in {"closing", "draining"}
RunnerStopped == main = "draining"

WithinBudget == nextShard' + writes' + faults' <= Budget + 1

-----------------------------------------------------------------------------
(* The shard that is open, and its rotation.                                *)

(* The orders in which a map may be iterated.                               *)
Listings(S) ==
    {q \in [1 .. Cardinality(S) -> S] :
        \A i, j \in DOMAIN q : q[i] = q[j] => i = j}

(* Mutant of FreshShards: the known codes are not repeated.                 *)
FreshShardsBare ==
    {[ok |-> TRUE, recs |-> <<Header>>]} \cup
    {[ok |-> FALSE, recs |-> r] : r \in {<<>>, <<Torn>>}}

(* The mappings that are repeated in a new shard: of all the known codes,   *)
(* or of some, when a write fails.                                          *)
Repeated(S) ==
    {[i \in DOMAIN q |-> Mapping(typeCodes[q[i]], q[i])] : q \in Listings(S)}

Known == {t \in Types : typeCodes[t] # 0}

(* What a write that failed leaves in a new shard.                          *)
Broken ==
    LET some == UNION {Repeated(S) : S \in {{}} \cup (SUBSET Known \ {Known})}
    IN  {<<>>, <<Torn>>} \cup
        UNION {{<<Header>> \o q, <<Header>> \o q \o <<Torn>>} : q \in some}

(* What rotateShard may leave in a new shard: the header and the mappings   *)
(* of the known codes, or what was written before a write failed.           *)
FreshShards ==
    {[ok |-> TRUE, recs |-> <<Header>> \o q] : q \in Repeated(Known)} \cup
    {[ok |-> FALSE, recs |-> r] : r \in Broken}

(* os.OpenFile and the writes that follow it, of which the last one that    *)
(* was tried failed if the shard is not complete.                           *)
CreateShard(fresh) ==
    /\ nextShard <= MaxShards
    /\ recs' = [recs EXCEPT ![nextShard] = fresh.recs]
    /\ local' = local \cup {nextShard}
    /\ nextShard' = nextShard + 1
    /\ whole' = IF fresh.ok THEN whole \cup {nextShard} ELSE whole
    /\ ~fresh.ok => Fault

(* TaskRunner.Submit and Queue.Push.                                        *)
Submit(s) == queue' = IF RunnerStopped THEN queue ELSE Append(queue, s)

(* Mutant of rotateShard: the new shard is queued instead of the old one.   *)
rotateShardQueuesNew ==
    \/ /\ f = "closed"
       /\ UNCHANGED <<diskVars, fileVars, queue, faults>>
    \/ /\ f # "closed"
       /\ \E fresh \in FreshShards :
             /\ CreateShard(fresh)
             /\ fresh.ok => UNCHANGED faults
             /\ IF fresh.ok /\ f = "open"
                THEN Submit(nextShard)
                ELSE UNCHANGED queue
       /\ f' = "open"
       /\ currentShard' = nextShard

(* The file of the current shard is closed for good by the first failure    *)
(* to sync, close or open: every later rotation fails to sync it.  The old  *)
(* shard is handed to the uploader only at the end.                         *)
rotateShard ==
    \/ /\ f = "closed"
       /\ UNCHANGED <<diskVars, fileVars, queue, faults>>
    \/ /\ f # "closed"
       /\ Fault
       /\ f' = IF f = "open" THEN "closed" ELSE f
       /\ UNCHANGED <<diskVars, currentShard, queue>>
    \/ /\ f # "closed"
       /\ \E fresh \in FreshShards :
             /\ CreateShard(fresh)
             /\ fresh.ok => UNCHANGED faults
             /\ IF fresh.ok /\ f = "open"
                THEN Submit(currentShard)
                ELSE UNCHANGED queue
       /\ f' = "open"
       /\ currentShard' = nextShard

(* shardingLoop: a tick rotates and starts a cleanup, whatever came of the  *)
(* rotation.  A tick may still be served once stopChan is closed: when both *)
(* are ready the select takes either.                                       *)
Tick ==
    /\ main # "down"
    /\ sweeps < MaxSweeps
    /\ rotateShard
    /\ sweeps' = sweeps + 1
    /\ UNCHANGED <<main, codeVars, req, task, sweep, writes, bootVars, archived,
                   cache>>

-----------------------------------------------------------------------------
(* WriteObject: the code, its mapping when it is new, the object.           *)

(* codeForType publishes a new code before the mapping is written.          *)
CodeForType(r) ==
    /\ main # "down"
    /\ req[r] = NoRequest
    /\ writes < MaxWrites
    /\ writes' = writes + 1
    /\ \E t \in Types :
        \/ /\ typeCodes[t] # 0
           /\ req' = [req EXCEPT ![r] =
                        [at |-> "object", type |-> t, code |-> typeCodes[t]]]
           /\ UNCHANGED codeVars
        \/ /\ typeCodes[t] = 0
           /\ typeCodes' = [typeCodes EXCEPT ![t] = nextTypeCode]
           /\ nextTypeCode' = nextTypeCode + 1
           /\ req' = [req EXCEPT ![r] =
                        [at |-> "mapping", type |-> t, code |-> nextTypeCode]]
    /\ UNCHANGED <<storeVars, diskVars, main, fileVars, queue, task,
                   sweeps, sweep, bootVars>>

(* writeBytesWithTypeCodeLocked: the write of rec, and what it leaves of it *)
(* when it fails.                                                           *)
WriteRecord(rec, succeeds) ==
    \/ /\ f = "open"
       /\ succeeds
       /\ recs' = [recs EXCEPT ![currentShard] = Append(@, rec)]
       /\ UNCHANGED faults
    \/ /\ f = "open"
       /\ ~succeeds
       /\ Fault
       /\ recs' \in {recs,
                     [recs EXCEPT ![currentShard] = Append(@, Torn)]}
    \/ /\ f # "open"
       /\ ~succeeds
       /\ UNCHANGED <<recs, faults>>

WriteMapping(r) ==
    /\ req[r].at = "mapping"
    /\ \E ok \in BOOLEAN :
        /\ WriteRecord(Mapping(req[r].code, req[r].type), ok)
        /\ req' = [req EXCEPT ![r] =
                     IF ok THEN [at |-> "object", type |-> req[r].type,
                                 code |-> req[r].code]
                     ELSE NoRequest]
    /\ UNCHANGED <<local, nextShard, whole, main, fileVars, codeVars,
                   queue, task, sweeps, sweep, writes, bootVars, archived, cache>>

WriteData(r) ==
    /\ req[r].at = "object"
    /\ \E ok \in BOOLEAN :
        WriteRecord(Object(req[r].code, req[r].type), ok)
    /\ req' = [req EXCEPT ![r] = NoRequest]
    /\ UNCHANGED <<local, nextShard, whole, main, fileVars, codeVars,
                   queue, task, sweeps, sweep, writes, bootVars, archived, cache>>

-----------------------------------------------------------------------------
(* The upload workers.                                                      *)

taskFrame == <<diskVars, main, fileVars, codeVars, req, sweeps, writes,
               bootVars, faults>>

(* workerLoop and Queue.Pop; processUploadWithRetry looks for the file once *)
(* and passes over a shard that is gone.                                    *)
PopTask(k) ==
    /\ main # "down"
    /\ task[k] = NoTask
    /\ queue # <<>>
    /\ queue' = Tail(queue)
    /\ task' = IF Head(queue) \in local
               THEN [task EXCEPT ![k] = [at |-> "upload", shard |-> Head(queue)]]
               ELSE task
    /\ UNCHANGED <<taskFrame, sweep, archived, cache>>

WorkerExits(k) ==
    /\ task[k] = NoTask
    /\ queue = <<>>
    /\ RunnerStopped
    /\ task' = [task EXCEPT ![k] = [at |-> "exited"]]
    /\ UNCHANGED <<taskFrame, queue, sweep, archived, cache>>

(* A try of uploadShard: the first, or when the backoff is over, which the  *)
(* timer decides only if it fires before stopChan is closed.                *)
Tries(k) ==
    \/ task[k].at = "upload"
    \/ task[k].at = "backoff" /\ ~Stopping

TryUpload(k) ==
    /\ Tries(k)
    /\ task[k].shard \in local
    /\ Upload(task[k].shard, recs[task[k].shard], TRUE)
    /\ task' = [task EXCEPT ![k] = [at |-> "sweep"]]
    /\ UNCHANGED <<taskFrame, queue, sweep>>

(* Mutant of UploadFails: the task gives up.                                *)
UploadFailsGivesUp(k) ==
    /\ Tries(k)
    /\ task[k].shard \in local
    /\ Upload(task[k].shard, recs[task[k].shard], FALSE)
    /\ task' = [task EXCEPT ![k] = NoTask]
    /\ UNCHANGED <<taskFrame, queue, sweep>>

(* Any error starts a backoff, also that the file is gone by now.           *)
UploadFails(k) ==
    /\ Tries(k)
    /\ \/ /\ task[k].shard \in local
          /\ Upload(task[k].shard, recs[task[k].shard], FALSE)
       \/ /\ task[k].shard \notin local
          /\ UNCHANGED <<archived, cache>>
    /\ task' = [task EXCEPT ![k] = [at |-> "backoff", shard |-> task[k].shard]]
    /\ UNCHANGED <<taskFrame, queue, sweep>>

(* Mutant of AbortRetry: the retries go on when the sink is stopping.       *)
AbortRetryGoesOn(k) ==
    /\ task[k].at = "backoff"
    /\ Stopping
    /\ task' = [task EXCEPT ![k].at = "upload"]
    /\ UNCHANGED <<taskFrame, queue, sweep, archived, cache>>

(* The retry is abandoned: the shard remains on the disk.                   *)
AbortRetry(k) ==
    /\ task[k].at = "backoff"
    /\ Stopping
    /\ task' = [task EXCEPT ![k] = NoTask]
    /\ UNCHANGED <<taskFrame, queue, sweep, archived, cache>>

-----------------------------------------------------------------------------
(* runRetentionCleanup, by a worker after its upload or for the ticker.     *)

(* cleanupMutex is taken, and the current shard is read once, under         *)
(* fileMutex, before the directory is.                                      *)
StartSweep(by) ==
    /\ main # "down"
    /\ sweep = NoSweep
    /\ IF by \in Workers
       THEN /\ task[by].at = "sweep"
            /\ UNCHANGED sweeps
       ELSE /\ sweeps > 0
            /\ sweeps' = sweeps - 1
    /\ sweep' = [at |-> "walk", by |-> by, current |-> currentShard]
    /\ UNCHANGED <<storeVars, diskVars, main, fileVars, codeVars, req, queue,
                   task, writes, bootVars>>

sweepFrame == <<recs, nextShard, whole, main, fileVars, codeVars, req, queue,
                sweeps, writes, bootVars, faults>>

(* WalkDir comes to a shard of the directory that is not the current one it *)
(* knows of and is old enough (the clock is a free choice), and asks the    *)
(* archive for it.  Visits without a consequence are left out.              *)
VisitShard ==
    /\ sweep.at = "walk"
    /\ \E s \in local \ {sweep.current} :
        \/ /\ IsUploaded(s, recs[s], FALSE)
           /\ UNCHANGED sweep
        \/ /\ IsUploaded(s, recs[s], TRUE)
           /\ sweep' = [at |-> "remove", by |-> sweep.by,
                        current |-> sweep.current, shard |-> s]
    /\ UNCHANGED <<sweepFrame, local, task>>

(* os.Remove, which may fail.                                               *)
RemoveShard ==
    /\ sweep.at = "remove"
    /\ local' \in {local, local \ {sweep.shard}}
    /\ sweep' = [at |-> "walk", by |-> sweep.by, current |-> sweep.current]
    /\ UNCHANGED <<sweepFrame, task, archived, cache>>

EndSweep ==
    /\ sweep.at = "walk"
    /\ sweep' = NoSweep
    /\ task' = IF sweep.by \in Workers
               THEN [task EXCEPT ![sweep.by] = NoTask]
               ELSE task
    /\ UNCHANGED <<sweepFrame, local, archived, cache>>

-----------------------------------------------------------------------------
(* The process: NewWriter, Close and the ways it ends.                      *)

(* The shards of a directory in the order of their names.                   *)
InOrder(S) ==
    {q \in [1 .. Cardinality(S) -> S] :
        \A i, j \in DOMAIN q : i < j => q[i] < q[j]}

(* Mutant of enqueueCatchUp: the newest of the shards before is taken for   *)
(* the current one.                                                         *)
enqueueCatchUpSkips ==
    /\ \E q \in InOrder({s \in local : \E r \in local : s < r}) : queue' = q
    /\ caughtUp' = TRUE
    /\ UNCHANGED faults

(* enqueueCatchUp: every other shard of the directory is queued, if it can  *)
(* be read.                                                                 *)
enqueueCatchUp ==
    \/ /\ \E q \in InOrder(local) : queue' = q
       /\ caughtUp' = TRUE
       /\ UNCHANGED faults
    \/ /\ Fault
       /\ queue' = <<>>
       /\ caughtUp' = FALSE

(* NewWriter opens a shard and catches up, or leaves a broken shard behind  *)
(* and gives up.                                                            *)
NewWriter ==
    /\ main = "down"
    /\ \E fresh \in FreshShards :
        /\ CreateShard(fresh)
        /\ \/ /\ ~fresh.ok
              /\ UNCHANGED <<main, fileVars, queue, bootVars>>
           \/ /\ fresh.ok
              /\ enqueueCatchUp
              /\ main' = "serving"
              /\ f' = "open"
              /\ currentShard' = nextShard
              /\ boot' = nextShard
    /\ UNCHANGED <<codeVars, req, task, sweeps, sweep, writes, archived,
                   cache>>

closeFrame == <<storeVars, diskVars, currentShard, codeVars, req, task,
                sweeps, sweep, writes, bootVars>>

(* Close: stopChan is closed, then the file, whose shard is queued.         *)
CloseFile ==
    /\ main = "serving"
    /\ main' = "closing"
    /\ Submit(currentShard)
    /\ f' = "nil"
    /\ UNCHANGED closeFrame

(* TaskRunner.Close.                                                        *)
CloseRunner ==
    /\ main = "closing"
    /\ main' = "draining"
    /\ UNCHANGED <<closeFrame, f, queue>>

(* Nothing of the process is left but what is on the disk.                  *)
Gone ==
    /\ main' = "down"
    /\ f' = "nil"
    /\ currentShard' = 0
    /\ typeCodes' = [t \in Types |-> 0]
    /\ nextTypeCode' = FirstCode
    /\ req' = [r \in Requests |-> NoRequest]
    /\ queue' = <<>>
    /\ task' = [k \in Workers |-> NoTask]
    /\ sweeps' = 0
    /\ sweep' = NoSweep
    /\ cache' = NoCache
    /\ UNCHANGED <<diskVars, writes, bootVars, archived>>

(* main returns when the workers have; the process is killed.               *)
Exit ==
    /\ main = "draining"
    /\ \A k \in Workers : task[k].at = "exited"
    /\ Gone
    /\ UNCHANGED faults

Crash ==
    /\ main # "down"
    /\ Fault
    /\ Gone

-----------------------------------------------------------------------------
Init ==
    /\ recs = [s \in Shards |-> <<>>]
    /\ local = {}
    /\ nextShard = 1
    /\ main = "down"
    /\ f = "nil"
    /\ currentShard = 0
    /\ typeCodes = [t \in Types |-> 0]
    /\ nextTypeCode = FirstCode
    /\ req = [r \in Requests |-> NoRequest]
    /\ queue = <<>>
    /\ task = [k \in Workers |-> NoTask]
    /\ sweeps = 0
    /\ sweep = NoSweep
    /\ writes = 0
    /\ boot = 1
    /\ caughtUp = TRUE
    /\ whole = {}
    /\ archived = [s \in Shards |-> NoObject]
    /\ cache = NoCache
    /\ faults = 0

Worker(k) ==
    \/ PopTask(k)
    \/ WorkerExits(k)
    \/ TryUpload(k)
    \/ UploadFails(k)
    \/ AbortRetry(k)
    \/ StartSweep(k)

Sweep == VisitShard \/ RemoveShard \/ EndSweep

Close == CloseFile \/ CloseRunner \/ Exit

Next ==
    /\ \/ Tick
       \/ \E r \in Requests :
             CodeForType(r) \/ WriteMapping(r) \/ WriteData(r)
       \/ \E k \in Workers : Worker(k)
       \/ StartSweep("ticker")
       \/ Sweep
       \/ NewWriter
       \/ Close
       \/ Crash
    /\ WithinBudget

Spec == Init /\ [][Next]_vars

(* Goroutines run on, a walk of the directory ends, mutexes are fair, and   *)
(* the bucket accepts an upload that is tried again and again.  No request, *)
(* tick, start or stop has to come.                                         *)
Fairness ==
    /\ \A k \in Workers :
          /\ WF_vars(Worker(k))
          /\ SF_vars(TryUpload(k))
          /\ SF_vars(StartSweep(k))
    /\ WF_vars(RemoveShard)
    /\ SF_vars(EndSweep)
    /\ WF_vars(CloseRunner \/ Exit)

FairSpec == Spec /\ Fairness

-----------------------------------------------------------------------------
(* The type invariant.                                                      *)
TypeOK ==
    /\ recs \in [Shards -> Seq(Records)]
    /\ archived \in [Shards -> Seq(Records) \cup {NoObject}]
    /\ cache \in [Shards -> Int]
    /\ local \subseteq Shards
    /\ whole \subseteq Shards
    /\ nextShard \in 1 .. (MaxShards + 1)
    /\ boot \in 1 .. MaxShards
    /\ caughtUp \in BOOLEAN
    /\ currentShard \in 0 .. MaxShards
    /\ main \in {"down", "serving", "closing", "draining"}
    /\ f \in {"open", "closed", "nil"}
    /\ typeCodes \in [Types -> Nat]
    /\ nextTypeCode \in Nat
    /\ req \in [Requests ->
                   {NoRequest} \cup
                   [at : {"mapping", "object"}, type : Types, code : Nat]]
    /\ queue \in Seq(Shards)
    /\ task \in [Workers ->
                    {NoTask} \cup [at : {"sweep", "exited"}] \cup
                    [at : {"upload", "backoff"}, shard : Shards]]
    /\ sweeps \in Nat
    /\ sweep \in {NoSweep} \cup
                [at : {"walk"}, by : Workers \cup {"ticker"},
                 current : 0 .. MaxShards] \cup
                [at : {"remove"}, by : Workers \cup {"ticker"},
                 current : 0 .. MaxShards, shard : Shards]
    /\ writes \in Nat
    /\ faults \in Nat

(* An object of the bucket is the complete shard: no upload reads a shard   *)
(* that is still written to (rotateShard and Close queue it closed, the     *)
(* catch-up at startup passes over the current one).                        *)
ArchivedIsFinal ==
    \A s \in Shards : archived[s] # NoObject => archived[s] = recs[s]

(* An object of the bucket never changes, although a shard is uploaded    *)
(* again after a failure that was none, or by the next start: a reader such *)
(* as the compactor takes it for final.                                     *)
ObjectsNeverChange ==
    [][\A s \in Shards :
          archived[s] # NoObject => archived'[s] = archived[s]]_archived

(* runRetentionCleanup removes a local shard only when the archive has all  *)
(* of it, although it goes by a current shard it read earlier and by sizes  *)
(* it may have from the cache.                                              *)
RemovedOnlyIfArchived ==
    \A s \in Shards :
        s < nextShard /\ s \notin local => archived[s] = recs[s]

(* While the sink serves, a shard that is closed and not archived is queued *)
(* or with a worker, unless a rotation after it failed: rotateShard returns *)
(* before enqueueUpload then, and only the next start finds the shard, or   *)
(* it is from before a start that could not read the directory.             *)
NothingForgotten ==
    main = "serving" =>
        \A s \in local :
            \/ s = currentShard
            \/ archived[s] # NoObject
            \/ \E i \in DOMAIN queue : queue[i] = s
            \/ \E k \in Workers :
                  /\ task[k].at \in {"upload", "backoff"}
                  /\ task[k].shard = s
            \/ \E r \in boot .. (nextShard - 1) : s < r /\ r \notin whole
            \/ s < boot /\ ~caughtUp

(* Close returns, also when no upload succeeds any more.                    *)
CloseReturns == main = "closing" ~> main = "down"

(* A worker that retries an upload of a file that is gone.                  *)
Astray(k) == task[k].at = "backoff" /\ task[k].shard \notin local

(* A queued shard is archived while the sink serves, whatever fails in      *)
(* between, unless a worker has gone astray: processUploadWithRetry does    *)
(* not look for the file again, and its worker never comes back.            *)
QueuedShardsArchived ==
    \A s \in Shards :
        (main = "serving" /\ \E i \in DOMAIN queue : queue[i] = s)
            ~> \/ archived[s] # NoObject
               \/ main # "serving"
               \/ \E k \in Workers : Astray(k)

(* The objects of a shard whose type a reader does not know when it comes   *)
(* to them.                                                                 *)
Unexplained(s) ==
    {i \in DOMAIN recs[s] :
        /\ recs[s][i].kind = "object"
        /\ ~typeByCode(recs[s], i, recs[s][i].type)}

(* rotateShard repeats the mappings: in a shard it completed, no object is  *)
(* unexplained whose code was in use in an earlier shard of the process.    *)
RotationKeepsMappings ==
    \A r, s \in boot .. (nextShard - 1) :
        r < s /\ s \in whole =>
            \A i \in DOMAIN recs[r], j \in Unexplained(s) :
                recs[r][i].kind \in {"map", "object"} =>
                    recs[r][i].code # recs[s][j].code
=============================================================================
