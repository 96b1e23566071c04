---------------------------- MODULE ShardFormat ----------------------------
(***************************************************************************)
(* The shard file of the OpenTelemetry sink: a file header, then records.  *)
(* A record is an object under a type code, or (code 1) the mapping of a   *)
(* code to the name of a protobuf type.  A write that fails part-way       *)
(* leaves a torn record: what follows it is out of step for every reader.  *)
(* The two readers are here, the sink's and the compactor's: they agree on *)
(* what decodes and differ on what a torn record does to the rest.         *)
(***************************************************************************)
EXTENDS Naturals, Sequences

CONSTANT Types      \* the stored messages, one per OTLP signal

Header == [kind |-> "header"]
Torn == [kind |-> "torn"]
Mapping(c, t) == [kind |-> "map", code |-> c, type |-> t]
Object(c, t) == [kind |-> "object", code |-> c, type |-> t]

Records ==
    {Header, Torn} \cup
    [kind : {"map", "object"}, code : Nat, type : Types]

(* What typeByCode holds for the code of rs[i] when a reader gets to it:    *)
(* the last mapping of that code before i.                                  *)
typeByCode(rs, i, t) ==
    \E j \in 1 .. (i - 1) :
        /\ rs[j] = Mapping(rs[i].code, t)
        /\ \A k \in (j + 1) .. (i - 1) :
              rs[k].kind = "map" => rs[k].code # rs[i].code

(* The objects a reader decodes: it stops at a torn record, and passes over *)
(* an object whose code it has not seen mapped.                             *)
Decoded(rs) ==
    {i \in DOMAIN rs :
        /\ rs[i].kind = "object"
        /\ \A j \in 1 .. i : rs[j] # Torn
        /\ typeByCode(rs, i, rs[i].type)}

(* Writer.Query: a shard whose header was never written reads as a legacy   *)
(* one, a torn one contributes what precedes the damage.                    *)
Query(rs) == Decoded(rs)

(* parseShard, as the set of its possible results; an error, upon which the *)
(* shard is skipped, yields no object.  It refuses a non-empty file without *)
(* its header.  A torn record with something behind it fails the checksum,  *)
(* and the whole shard with it, unless its length runs past the end of the  *)
(* file, which ends the parse like a clean end does.                        *)
parseShard(rs) ==
    LET damaged == \E i \in DOMAIN rs : rs[i] = Torn /\ i < Len(rs)
        headless == rs # <<>> /\ rs[1] # Header
        unread == headless /\ (rs[1] # Torn \/ Len(rs) = 1)
    IN  (IF damaged \/ headless THEN {{}} ELSE {}) \cup
        (IF unread THEN {} ELSE {Decoded(rs)})

(* The signals a parsed shard has rows of (extractLogs, extractTraces,      *)
(* extractMetrics).                                                         *)
RowsOf(rs, parsed) == {rs[i].type : i \in parsed}
=============================================================================
