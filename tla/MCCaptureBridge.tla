-------------------------- MODULE MCCaptureBridge --------------------------
(* Small instances of CaptureBridge: two emitters of any kind, two calls.   *)
EXTENDS CaptureBridge
=============================================================================
