------------------------------ MODULE SpanMux -------------------------------
(***************************************************************************)
(* The cluster-wide span subscription of internal/streamsvc/query.go: one  *)
(* forwarder goroutine per agent feeds a bounded channel that the handler  *)
(* sends from, until the subscriber leaves or all forwarders are gone.     *)
(***************************************************************************)
EXTENDS Fanout

CONSTANTS BufferCap,    \* capacity of events
          MaxSpans      \* bound: spans a subscription receives

VARIABLE mux    \* request -> the subscription it serves

NoSub == [at |-> "none", fw |-> [a \in Agents |-> "none"], ctx |-> FALSE,
          taken |-> 0, buf |-> 0, sent |-> 0, why |-> "none"]

MuxInit == mux = [r \in Requests |-> NoSub]

Ended(r, why) ==
    mux' = [mux EXCEPT ![r].at = "ended", ![r].ctx = FALSE, ![r].why = why]

(* SubscribeSpans: the filter is compiled first, agents must be known.      *)
SubscribeSpans(r, filterOK) ==
    mux' = [mux EXCEPT ![r] =
        IF ~filterOK THEN [NoSub EXCEPT !.at = "ended", !.why = "InvalidArgument"]
        ELSE IF addrs = {} THEN [NoSub EXCEPT !.at = "ended", !.why = "NoAgents"]
        ELSE [NoSub EXCEPT !.at = "select", !.ctx = TRUE,
                 !.fw = [a \in Agents |-> IF a \in addrs THEN "dial" ELSE "none"]]]

(* forwardAgent: credentials, dial and subscription, any of which may fail. *)
Dial(r, a, ok) ==
    /\ mux[r].fw[a] = "dial"
    /\ mux' = [mux EXCEPT ![r].fw[a] = IF ok /\ mux[r].ctx THEN "recv" ELSE "gone"]

(* A span arrives, as long as the subscription is wanted.                   *)
RecvSpan(r, a) ==
    /\ mux[r].fw[a] = "recv" /\ mux[r].ctx /\ mux[r].taken < MaxSpans
    /\ mux' = [mux EXCEPT ![r].fw[a] = "push", ![r].taken = @ + 1]

(* Recv fails: the agent ended the stream, or the context is cancelled.     *)
RecvFails(r, a) ==
    /\ mux[r].fw[a] = "recv"
    /\ mux' = [mux EXCEPT ![r].fw[a] = "gone"]

(* Mutant of Push: the forwarder waits for room whatever happens.           *)
PushBlocks(r, a) ==
    /\ mux[r].fw[a] = "push" /\ mux[r].buf < BufferCap
    /\ mux' = [mux EXCEPT ![r].fw[a] = "recv", ![r].buf = @ + 1]

(* The span into the channel, or nowhere if the handler has returned.       *)
Push(r, a) ==
    /\ mux[r].fw[a] = "push"
    /\ \/ /\ mux[r].buf < BufferCap
          /\ mux' = [mux EXCEPT ![r].fw[a] = "recv", ![r].buf = @ + 1]
       \/ /\ ~mux[r].ctx
          /\ mux' = [mux EXCEPT ![r].fw[a] = "gone"]

(* The handler sends what is buffered; a failed Send ends it.               *)
Deliver(r) ==
    /\ mux[r].at \in {"select", "drain"} /\ mux[r].buf > 0
    /\ \/ mux' = [mux EXCEPT ![r].buf = @ - 1, ![r].sent = @ + 1]
       \/ Ended(r, "SendFailed")

Gone(r) == \A a \in Agents : mux[r].fw[a] \in {"none", "gone"}

(* Mutant of AllGone: the subscription ends when the last agent goes.       *)
AllGoneEnds(r) == mux[r].at = "select" /\ Gone(r) /\ Ended(r, "Unavailable")

(* The last forwarder is gone; the handler may see that before the spans it *)
(* still has buffered.                                                      *)
AllGone(r) ==
    /\ mux[r].at = "select" /\ Gone(r)
    /\ mux' = [mux EXCEPT ![r].at = "drain"]

Drained(r) == mux[r].at = "drain" /\ mux[r].buf = 0 /\ Ended(r, "Unavailable")

(* The subscriber leaves.                                                   *)
Leave(r) == mux[r].at = "select" /\ Ended(r, "Left")

ForwardAgent(r, a) ==
    \/ \E ok \in BOOLEAN : Dial(r, a, ok)
    \/ RecvSpan(r, a) \/ RecvFails(r, a) \/ Push(r, a)

Handler(r) == Deliver(r) \/ AllGone(r) \/ Drained(r)

-----------------------------------------------------------------------------
(* A subscription that is told to resubscribe has received every span the   *)
(* forwarders took for it before they were gone: none is left in the        *)
(* channel (the drain of SubscribeSpans).                                   *)
UnavailableAfterAll ==
    \A r \in Requests : mux[r].why = "Unavailable" => mux[r].sent = mux[r].taken

(* When the handler returns, its forwarders end, also those that wait for   *)
(* room in the channel: no goroutine stays behind (forwardAgent).           *)
ForwardersEnd == \A r \in Requests : mux[r].at = "ended" ~> Gone(r)
=============================================================================
