---------------------------- MODULE MCSinkWriter ----------------------------
(* Small instances of SinkWriter.                                           *)
EXTENDS SinkWriter
=============================================================================
