----------------------------- MODULE SinkSearch -----------------------------
(***************************************************************************)
(* Reading the sinks (opentelemetry/cmd/opentelemetry-sink/writer.go) and  *)
(* merging what they answer (opentelemetry/pkg/queryserver): log searches, *)
(* queries for everything and for the latest metric of a pod.              *)
(*                                                                         *)
(* A sink's directory is a sequence of shards [start, recs], oldest first. *)
(* A record [id, ts, at] carries its own timestamp and the time it was     *)
(* written.  Every record is of the one pod, metric or log text that is    *)
(* asked for; what cannot be read of a shard is the matter of ShardFormat. *)
(***************************************************************************)
EXTENDS Integers, Sequences, FiniteSets, Functions

CONSTANTS Sinks,
          Slack,        \* 5m: how far a record may be from its shard
          Limit,        \* limit of a search
          MaxClock,     \* bound: the clock
          MaxRecords,   \* bound: records written
          MaxAsks       \* bound: requests

ASSUME SearchAssumption == Slack \in Nat /\ Limit \in Nat /\ MaxClock \in Nat

VARIABLES clock,
          disk,     \* sink -> its shards
          ids,      \* records written so far
          ask,      \* the request under way
          asks

searchVars == <<clock, disk, ids, ask, asks>>

NoAsk == [at |-> "idle", kind |-> "none", lo |-> 0, hi |-> 0, left |-> {},
          listed |-> [s \in Sinks |-> {}], got |-> {}, failed |-> FALSE, due |-> {}]

SearchInit ==
    /\ clock = 0 /\ ids = 0 /\ asks = 0 /\ ask = NoAsk
    /\ disk = [s \in Sinks |-> <<[start |-> 0, recs |-> <<>>]>>]

SearchTick == clock < MaxClock /\ clock' = clock + 1 /\ UNCHANGED <<disk, ids, ask, asks>>

RecordsIn(sh) == Range(sh.recs)

OnDisk(s) == UNION {RecordsIn(disk[s][i]) : i \in DOMAIN disk[s]}

(* WriteObject, of a record that may be late or early.                      *)
Write(s, ts) ==
    /\ ids < MaxRecords /\ ids' = ids + 1
    /\ disk' = [disk EXCEPT ![s][Len(disk[s])].recs =
                   Append(@, [id |-> ids, ts |-> ts, at |-> clock])]
    /\ UNCHANGED <<clock, ask, asks>>

(* A shard is named after the time it is opened.                            *)
Rotate(s) ==
    /\ disk[s][Len(disk[s])].start < clock
    /\ disk' = [disk EXCEPT ![s] = Append(@, [start |-> clock, recs |-> <<>>])]
    /\ UNCHANGED <<clock, ids, ask, asks>>

(* The oldest shard has been archived and goes; what it held is not due.    *)
Expire(s) ==
    /\ Len(disk[s]) > 1
    /\ disk' = [disk EXCEPT ![s] = Tail(@)]
    /\ ask' = [ask EXCEPT !.due = @ \ RecordsIn(disk[s][1])]
    /\ UNCHANGED <<clock, ids, asks>>

(* Mutant of candidateShards: shards are taken at their word.               *)
candidateShardsExact(s, lo, hi) ==
    {disk[s][i].start : i \in {j \in DOMAIN disk[s] :
        /\ disk[s][j].start <= hi
        /\ j < Len(disk[s]) => disk[s][j + 1].start >= lo}}

(* SearchLogs: not the shards opened after the end of the range, nor those  *)
(* whose successor was opened before its start, with 5m to either side.     *)
candidateShards(s, lo, hi) ==
    {disk[s][i].start : i \in {j \in DOMAIN disk[s] :
        /\ disk[s][j].start <= hi + Slack
        /\ j < Len(disk[s]) => disk[s][j + 1].start + Slack >= lo}}

(* Sorting newest first and cutting; the order of equals is open.           *)
Newest(n, S) ==
    {T \in SUBSET S :
        /\ Cardinality(T) = IF Cardinality(S) > n THEN n ELSE Cardinality(S)
        /\ \A t \in T, u \in S \ T : t.ts >= u.ts}

WithinSlack(r) == r.ts <= r.at + Slack /\ r.at <= r.ts + Slack

(* The handlers: the request goes to the sinks registered now.  "due" is a  *)
(* history variable: what a complete answer is about.                       *)
Ask(kind, lo, hi, addrs) ==
    /\ ask.at = "idle" /\ asks < MaxAsks /\ asks' = asks + 1
    /\ ask' = [NoAsk EXCEPT !.at = "gather", !.kind = kind, !.lo = lo, !.hi = hi,
                  !.left = addrs,
                  !.due = {r \in UNION {OnDisk(s) : s \in addrs} :
                              kind = "search" => WithinSlack(r) /\ lo <= r.ts /\ r.ts <= hi}]
    /\ UNCHANGED <<clock, disk, ids>>

(* A sink lists its directory.                                              *)
List(s) ==
    /\ ask.at = "gather" /\ s \in ask.left /\ ask.listed[s] = {}
    /\ ask' = [ask EXCEPT !.listed[s] =
          IF ask.kind = "search" THEN candidateShards(s, ask.lo, ask.hi)
          ELSE {disk[s][i].start : i \in DOMAIN disk[s]}]
    /\ ask'.listed[s] # {}
    /\ UNCHANGED <<clock, disk, ids, asks>>

(* The shards listed and still there.                                       *)
Readable(s) == {i \in DOMAIN disk[s] : disk[s][i].start \in ask.listed[s]}

AllRead(s) == UNION {RecordsIn(disk[s][i]) : i \in Readable(s)}

(* The last record of the last of them that has one.                        *)
LastRead(s) ==
    {disk[s][i].recs[Len(disk[s][i].recs)] : i \in {j \in Readable(s) :
        /\ disk[s][j].recs # <<>>
        /\ \A k \in Readable(s) : k > j => disk[s][k].recs = <<>>}}

(* Writer.SearchLogs: the newest that match.                                *)
SearchLogs(s) ==
    Newest(Limit, {r \in AllRead(s) : ask.lo <= r.ts /\ r.ts <= ask.hi})

(* Writer.Query: everything, or with latest_only the last read of a pod.    *)
Query(s) == {IF ask.kind = "latest" THEN LastRead(s) ELSE AllRead(s)}

Found(s) == IF ask.kind = "search" THEN SearchLogs(s) ELSE Query(s)

(* The sink reads and answers.  A sink without a candidate shard answers    *)
(* with nothing.                                                            *)
Read(s) ==
    /\ ask.at = "gather" /\ s \in ask.left
    /\ \/ ask.listed[s] # {}
       \/ ask.kind = "search" /\ candidateShards(s, ask.lo, ask.hi) = {}
    /\ \E found \in Found(s) :
          ask' = [ask EXCEPT !.left = @ \ {s}, !.listed[s] = {}, !.got = @ \union found]
    /\ UNCHANGED <<clock, disk, ids, asks>>

(* A sink that fails, or whose stream breaks off, contributes nothing: the  *)
(* error is logged.                                                         *)
Fails(s) ==
    /\ ask.at = "gather" /\ s \in ask.left
    /\ ask' = [ask EXCEPT !.left = @ \ {s}, !.failed = TRUE, !.listed[s] = {}]
    /\ UNCHANGED <<clock, disk, ids, asks>>

(* SearchLogsHandler sorts what the sinks sent and cuts it again.           *)
SearchLogsHandler(got) == Newest(Limit, got)

(* ApisHandler keeps the newest of a pod.                                   *)
ApisHandler(got) == Newest(1, got)

(* QueryHandler passes everything on.                                       *)
QueryHandler(got) == {got}

(* The frontend Query fetches everything and sends what its filters let     *)
(* through: of the records asked for, all.                                  *)
FrontendQuery(got) == {got}

Merge ==
    /\ ask.at = "gather" /\ ask.left = {}
    /\ \E T \in CASE ask.kind = "search" -> SearchLogsHandler(ask.got)
                  [] ask.kind = "latest" -> ApisHandler(ask.got)
                  [] ask.kind = "query" -> QueryHandler(ask.got)
                  [] ask.kind = "table" -> FrontendQuery(ask.got) :
          ask' = [ask EXCEPT !.at = "answered", !.got = T]
    /\ UNCHANGED <<clock, disk, ids, asks>>

Respond == ask.at = "answered" /\ ask' = NoAsk /\ UNCHANGED <<clock, disk, ids, asks>>

-----------------------------------------------------------------------------
(* Of the sinks that answered, a search returns the newest records of the   *)
(* range: one that was there when the request came is left out only if it   *)
(* is dated more than five minutes off, or no newer than Limit others       *)
(* (SearchLogs, SearchLogsHandler).  A query returns everything, and the    *)
(* latest metric of a pod is its newest unless records were written out of  *)
(* order (Writer.Query, ApisHandler).                                       *)
AnswersComplete ==
    ask.at = "answered" /\ ~ask.failed =>
        \A r \in ask.due \ ask.got :
            CASE ask.kind = "search" ->
                    Cardinality(ask.got) = Limit /\ \A t \in ask.got : t.ts >= r.ts
              [] ask.kind \in {"query", "table"} -> FALSE
              [] ask.kind = "latest" ->
                    \/ \E t \in ask.got : t.ts >= r.ts
                    \/ \E s \in Sinks : \E u \in OnDisk(s) : u.at >= r.at /\ u.ts < r.ts
=============================================================================
