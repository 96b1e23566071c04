---------------------------- MODULE MCCompactor ----------------------------
(* RawShards as a sink leaves them: both signals; one signal; an object whose  *)
(* mapping is in the next shard; a last write and an earlier write that     *)
(* failed part-way; a header that was never written.                        *)
EXTENDS Compactor, TLC

CONSTANTS logs, traces

MCContents ==
    {<<Header, Mapping(32, logs), Object(32, logs), Mapping(33, traces),
       Object(33, traces)>>,
     <<Header, Mapping(32, traces), Object(32, traces), Object(33, logs)>>,
     <<Header, Mapping(32, logs), Object(32, logs), Torn>>,
     <<Header, Mapping(32, logs), Object(32, logs), Torn, Object(32, logs)>>,
     <<Mapping(32, logs), Object(32, logs)>>}
=============================================================================
