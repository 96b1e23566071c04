----------------------------- MODULE MCSpanRing -----------------------------
(* Two subscribers with channels that fill up, and a ring that wraps.       *)
EXTENDS SpanRing
=============================================================================
