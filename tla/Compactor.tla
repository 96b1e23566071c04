------------------------------ MODULE Compactor ------------------------------
(***************************************************************************)
(* The compactor (pkg/compactor, cmd/opentelemetry-compactor): a run lists *)
(* the raw shards and the markers, parses the shards that are settled and  *)
(* not marked, writes their rows as Parquet parts, one partition after the *)
(* other, and only then writes the markers.  A run may fail or be killed   *)
(* at any point; the next one starts over.  A partition is a signal here:  *)
(* the split by hour only makes more of them.                              *)
(*                                                                         *)
(* The sinks are the environment: a shard arrives once and complete, which *)
(* is what ArchivedIsFinal and its proof say of SinkWriter.                *)
(***************************************************************************)
EXTENDS ShardFormat, FiniteSets

CONSTANTS NoShard,          \* the bucket has no object of that name
          RawShards,        \* the shards, numbers in the order of their names
          Contents,         \* what the sinks leave in a shard
          MaxShardsPerRun,  \* Config.MaxShardsPerRun
          MaxFailedRuns     \* bound: runs that fail

ASSUME CompactorAssumption ==
    /\ RawShards \subseteq Nat
    /\ IsFiniteSet(RawShards)
    /\ Contents \subseteq Seq(Records)
    /\ NoShard \notin Contents
    /\ MaxShardsPerRun \in Nat \ {0}
    /\ MaxFailedRuns \in Nat

VARIABLES raw,          \* the objects under raw/
          markers,      \* the shards with an object under compacted/
          parquet,      \* copies of a shard's rows of a signal: 0, 1, 2 = more
          run,          \* the run of Compact that is under way
          failedRuns    \* runs that failed

compactorVars == <<raw, markers, parquet, run, failedRuns>>

NoRun == [at |-> "idle"]

(* A sink uploads a shard.                                                  *)
ShardArrives(s) ==
    /\ raw[s] = NoShard
    /\ \E rs \in Contents : raw' = [raw EXCEPT ![s] = rs]
    /\ UNCHANGED <<markers, parquet, run, failedRuns>>

(* The raw shards are listed, then the markers.                             *)
ListRaw ==
    /\ run = NoRun
    /\ run' = [at |-> "listed", shards |-> {s \in RawShards : raw[s] # NoShard}]
    /\ UNCHANGED <<raw, markers, parquet, failedRuns>>

(* The first n of S in the order of their names.                            *)
FirstOf(S, n) == {s \in S : Cardinality({r \in S : r < s}) < n}

(* Mutant of Select: the markers are not asked for.                         *)
SelectAll ==
    /\ run.at = "listed"
    /\ \E settled \in SUBSET run.shards :
        run' = IF settled = {} THEN NoRun
               ELSE [at |-> "selected", keys |-> FirstOf(settled, MaxShardsPerRun)]
    /\ UNCHANGED <<raw, markers, parquet, failedRuns>>

(* Mutant of Select: the list is cut before the marked shards are left out. *)
SelectCutsFirst ==
    /\ run.at = "listed"
    /\ \E settled \in SUBSET run.shards :
        LET eligible == (settled \cap FirstOf(run.shards, MaxShardsPerRun)) \ markers
        IN  run' = IF eligible = {} THEN NoRun
                   ELSE [at |-> "selected", keys |-> eligible]
    /\ UNCHANGED <<raw, markers, parquet, failedRuns>>

(* A shard is settled by the time in its name.  The keys sort by pod first, *)
(* so the settled ones may be any.  Nothing to do ends the run.             *)
Select ==
    /\ run.at = "listed"
    /\ \E settled \in SUBSET run.shards :
        LET eligible == settled \ markers
        IN  run' = IF eligible = {} THEN NoRun
                   ELSE [at |-> "selected",
                         keys |-> FirstOf(eligible, MaxShardsPerRun)]
    /\ UNCHANGED <<raw, markers, parquet, failedRuns>>

(* The shards are downloaded and parsed; one that does not parse is skipped *)
(* with a warning, and stays selected.                                      *)
Parse ==
    /\ run.at = "selected"
    /\ \E rows \in [run.keys -> SUBSET Types] :
        /\ \A s \in run.keys :
              \E parsed \in parseShard(raw[s]) :
                  rows[s] = RowsOf(raw[s], parsed)
        /\ run' = [at |-> "write", keys |-> run.keys, rows |-> rows,
                   left |-> UNION {rows[s] : s \in run.keys}]
    /\ UNCHANGED <<raw, markers, parquet, failedRuns>>

(* writePartitionData: the part has a name of its own, so rows that an      *)
(* earlier run wrote are there once more.  The signals are written in a     *)
(* fixed order and the hours of each in any: no order is assumed here.      *)
WritePartition(t) ==
    /\ run.at = "write"
    /\ t \in run.left
    /\ parquet' = [s \in RawShards |-> [u \in Types |->
                     IF /\ u = t
                        /\ s \in run.keys
                        /\ t \in run.rows[s]
                        /\ parquet[s][u] < 2
                     THEN parquet[s][u] + 1
                     ELSE parquet[s][u]]]
    /\ run' = [at |-> "write", keys |-> run.keys, rows |-> run.rows,
               left |-> run.left \ {t}]
    /\ UNCHANGED <<raw, markers, failedRuns>>

(* Mutant of WriteMarker: the markers do not wait for the partitions.       *)
WriteMarkerEarly ==
    /\ run.at = "write"
    /\ \E s \in run.keys :
        /\ \A other \in run.keys : s <= other
        /\ markers' = markers \cup {s}
        /\ run' = IF run.keys = {s} THEN NoRun
                  ELSE [at |-> "write", keys |-> run.keys \ {s},
                        rows |-> run.rows, left |-> run.left]
    /\ UNCHANGED <<raw, parquet, failedRuns>>

(* The markers are written for every selected shard, one after the other.   *)
WriteMarker ==
    /\ run.at = "write"
    /\ run.left = {}
    /\ \E s \in run.keys :
        /\ \A other \in run.keys : s <= other
        /\ markers' = markers \cup {s}
        /\ run' = IF run.keys = {s} THEN NoRun
                  ELSE [at |-> "write", keys |-> run.keys \ {s},
                        rows |-> run.rows, left |-> run.left]
    /\ UNCHANGED <<raw, parquet, failedRuns>>

(* An error of the bucket ends the run, and so does the end of the process. *)
RunFails ==
    /\ run # NoRun
    /\ failedRuns < MaxFailedRuns
    /\ failedRuns' = failedRuns + 1
    /\ run' = NoRun
    /\ UNCHANGED <<raw, markers, parquet>>

CompactorInit ==
    /\ raw = [s \in RawShards |-> NoShard]
    /\ markers = {}
    /\ parquet = [s \in RawShards |-> [t \in Types |-> 0]]
    /\ run = NoRun
    /\ failedRuns = 0

RunStep ==
    \/ ListRaw
    \/ Select
    \/ Parse
    \/ \E t \in Types : WritePartition(t)
    \/ WriteMarker

CompactorNext ==
    \/ \E s \in RawShards : ShardArrives(s)
    \/ RunStep
    \/ RunFails

CompactorSpec == CompactorInit /\ [][CompactorNext]_compactorVars

(* The loop of the compactor's main goes on, and the settle delay of the    *)
(* oldest shard ends: a run that could take it up eventually does.          *)
CompactorFairSpec ==
    /\ CompactorSpec
    /\ WF_compactorVars(RunStep)
    /\ SF_compactorVars(Select /\ run' # NoRun)

-----------------------------------------------------------------------------
(* Properties.                                                              *)

(* A file with its header, and nothing behind a torn record.                *)
Sound(rs) ==
    rs # <<>> => rs[1] = Header /\ \A i \in 1 .. (Len(rs) - 1) : rs[i] # Torn

(* All that the sink's own reader finds in the shard is in Parquet parts.   *)
Written(s) == \A i \in Query(raw[s]) : parquet[s][raw[s][i].type] > 0

(* The marker of a sound shard commits: its rows are all in Parquet parts,  *)
(* whichever runs failed between partitions and markers before.             *)
MarkedShardsWritten == \A s \in markers : Sound(raw[s]) => Written(s)

(* Without a failed run no row is in the Parquet parts twice, however late  *)
(* a shard arrives and however a run is cut off by MaxShardsPerRun.         *)
RowsOnceWithoutFailure ==
    failedRuns = 0 => \A s \in RawShards, t \in Types : parquet[s][t] < 2

(* Every shard of the bucket is marked eventually, a late one and one that  *)
(* does not parse included: none is passed over by every run.               *)
ShardsCompacted == \A s \in RawShards : raw[s] # NoShard ~> s \in markers
=============================================================================
