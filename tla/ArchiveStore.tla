---------------------------- MODULE ArchiveStore ----------------------------
(***************************************************************************)
(* The archive bucket the sink uploads its shards to and the compactor     *)
(* reads them from, and the sink's access to it (pkg/store/archive.go): an *)
(* upload is skipped when the object is there with the same size, and      *)
(* sizes are remembered.  A shard is a number: its name is the time of its *)
(* creation.  The size of a shard is the number of its records.            *)
(***************************************************************************)
EXTENDS ShardFormat, Integers

CONSTANTS MaxShards,    \* bound: shards ever created
          NoObject,     \* the bucket has no object of that name
          MaxFaults     \* bound: failures of the disk, a bucket or a process

VARIABLES archived,     \* the bucket's raw/ objects
          cache,        \* ArchiveBucket.cache, -1 where it has no entry
          faults        \* failures so far

storeVars == <<archived, cache, faults>>

Shards == 1 .. MaxShards
Unknown == -1

NoCache == [s \in Shards |-> Unknown]

Fault ==
    /\ faults < MaxFaults
    /\ faults' = faults + 1

(* checkUploaded, as the set of its possible results: the cached size, or   *)
(* the object's attributes, which may be refused and are when there is no   *)
(* object.                                                                  *)
checkUploaded(s, size) ==
    IF cache[s] # Unknown
    THEN {[says |-> IF cache[s] = size THEN "yes" ELSE "no",
           cached |-> cache[s]]}
    ELSE {[says |-> "error", cached |-> Unknown]} \cup
         {[says |-> IF n = size THEN "yes" ELSE "no", cached |-> n] :
            n \in IF archived[s] = NoObject THEN {} ELSE {Len(archived[s])}}

(* ArchiveBucket.Upload of a shard that is on disk.  A write that reports a *)
(* failure, a deadline that passed, may have stored the object.             *)
Upload(s, data, succeeds) ==
    \E c \in checkUploaded(s, Len(data)) :
        \/ /\ c.says = "yes"
           /\ succeeds
           /\ cache' = [cache EXCEPT ![s] = c.cached]
           /\ UNCHANGED archived
        \/ /\ c.says # "yes"
           /\ succeeds
           /\ archived' = [archived EXCEPT ![s] = data]
           /\ cache' = [cache EXCEPT ![s] = Len(data)]
        \/ /\ c.says # "yes"
           /\ ~succeeds
           /\ archived' \in {archived, [archived EXCEPT ![s] = data]}
           /\ cache' = [cache EXCEPT ![s] = c.cached]

(* Mutant of IsUploaded: only an answer that denies it counts.              *)
IsUploadedOptimistic(s, data, answer) ==
    \E c \in checkUploaded(s, Len(data)) :
        /\ answer = (c.says # "no")
        /\ cache' = [cache EXCEPT ![s] = c.cached]
        /\ UNCHANGED archived

(* ArchiveBucket.IsUploaded of a shard that is on disk.                     *)
IsUploaded(s, data, answer) ==
    \E c \in checkUploaded(s, Len(data)) :
        /\ answer = (c.says = "yes")
        /\ cache' = [cache EXCEPT ![s] = c.cached]
        /\ UNCHANGED archived
=============================================================================
