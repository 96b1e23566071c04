--------------------------- MODULE MetricPipeline ---------------------------
(***************************************************************************)
(* The way of a metric through the agent: the OTLP receiver's handler      *)
(* (raw tee and event channel), the forwarder, and the two readers of its  *)
(* registry: the ingester of the node-local tsdb (internal/store) and the  *)
(* remote writer (internal/export).  Both readers compare with what they   *)
(* saw before and append a staleness marker for what is gone.              *)
(***************************************************************************)
EXTENDS Forwarder, Relay

CONSTANTS EventCap,      \* capacity of the Events() channel
          MaxPoints,     \* bound: datapoints received
          MaxSnapshots,  \* bound: snapshots of the remote writer
          MaxFaults      \* bound: faults of the tsdb

VARIABLES eventsCh,   \* the Events() channel
          points,     \* datapoints received
          store,      \* [prev, live, errors]: Ingester.prevSeries, what the
                      \* tsdb shows, whether appendErrors is above zero
          writer,     \* [prev, live]: RemoteWriter.prevSeries, what the
                      \* endpoint shows
          faults

vars == <<fwdVars, relayVars, eventsCh, points, store, writer, faults>>

Ids(S) == {Canon(l) : l \in S}

Init ==
    /\ FwdInit /\ RelayInit
    /\ eventsCh = <<>> /\ points = 0 /\ faults = 0
    /\ store = [prev |-> {}, live |-> {}, errors |-> FALSE]
    /\ writer = [prev |-> {}, live |-> {}]

(* OnMetrics: the raw request to the OTLP relay, the translated events to   *)
(* the channel; a full channel drops them.                                  *)
OnMetrics(ev) ==
    /\ points < MaxPoints /\ points' = points + 1
    /\ IF "otlp" \in Relays THEN Enqueue("otlp", Raw) ELSE UNCHANGED relayVars
    /\ eventsCh' = IF Len(eventsCh) < EventCap THEN Append(eventsCh, ev) ELSE eventsCh
    /\ UNCHANGED <<fwdVars, store, writer, faults>>

(* The event loop of the agent.                                             *)
Forward ==
    /\ eventsCh # <<>> /\ Record(Head(eventsCh)) /\ eventsCh' = Tail(eventsCh)
    /\ UNCHANGED <<relayVars, points, store, writer, faults>>

(* Tick of the ingester.  "bad" are the series whose Append fails, samples  *)
(* and markers alike.  The sample of a timestamp stands against a marker    *)
(* for the same series.                                                     *)
Tick(bad, commits) ==
    LET cur     == Kept \ bad
        markers == store.prev \ cur
    IN /\ ctx /\ Collect
       /\ faults + Cardinality(bad) + (IF commits THEN 0 ELSE 1) <= MaxFaults
       /\ faults' = faults + Cardinality(bad) + (IF commits THEN 0 ELSE 1)
       /\ store' = [prev |-> cur,
                    live |-> IF commits
                             THEN (store.live \ Ids(markers \ bad)) \union Ids(cur)
                             ELSE store.live,
                    errors |-> store.errors \/ bad # {} \/ ~commits]
       /\ UNCHANGED <<relayVars, eventsCh, points, writer>>

(* Mutant of Snapshot: nothing is sent when no series is left.              *)
SnapshotOfLiveOnly ==
    LET batch == [samples |-> Kept, markers |-> writer.prev \ Kept]
    IN /\ ctx /\ Collect
       /\ IF batch.samples # {}
          THEN count["rw"].offered < MaxSnapshots /\ Enqueue("rw", batch)
          ELSE UNCHANGED relayVars
       /\ writer' = [writer EXCEPT !.prev = Kept]
       /\ UNCHANGED <<eventsCh, points, store, faults>>

(* snapshot of the remote writer, and Run, which enqueues it.               *)
Snapshot ==
    LET batch == [samples |-> Kept, markers |-> writer.prev \ Kept]
    IN /\ ctx /\ Collect
       /\ IF batch.samples \union batch.markers # {}
          THEN count["rw"].offered < MaxSnapshots /\ Enqueue("rw", batch)
          ELSE UNCHANGED relayVars
       /\ writer' = [writer EXCEPT !.prev = Kept]
       /\ UNCHANGED <<eventsCh, points, store, faults>>

(* What an endpoint does with a batch; a batch that both samples and        *)
(* retires a series may be read either way.                                 *)
Receives(r) ==
    IF r # "rw" THEN UNCHANGED writer
    ELSE LET S == Ids(work[r].item.samples)
             M == Ids(work[r].item.markers)
         IN \E live \in {(writer.live \ M) \union S, (writer.live \union S) \ M} :
               writer' = [writer EXCEPT !.live = live]

(* send: a request the endpoint took may still look failed to the worker.   *)
Send(r) ==
    /\ \/ (\E res \in {"ok", "transient"} : Sent(r, res)) /\ Receives(r)
       \/ (\E res \in {"transient", "permanent"} : Sent(r, res)) /\ UNCHANGED writer
    /\ UNCHANGED <<fwdVars, eventsCh, points, store, faults>>

Worker(r) ==
    \/ Send(r)
    \/ /\ Take(r) \/ Retry(r) \/ Return(r)
       /\ UNCHANGED <<fwdVars, eventsCh, points, store, writer, faults>>

Clock == Age /\ UNCHANGED <<relayVars, eventsCh, points, store, writer, faults>>

Stop == Cancel /\ UNCHANGED <<fwdVars, eventsCh, points, store, writer, faults>>

Next ==
    \/ \E ev \in EventsOf(metric) : OnMetrics(ev)
    \/ Forward
    \/ \E bad \in SUBSET (Kept \union store.prev), commits \in BOOLEAN :
          Tick(bad, commits)
    \/ "rw" \in Relays /\ Snapshot
    \/ \E r \in Relays : Worker(r)
    \/ Clock
    \/ Stop

(* The worker is a goroutine and its requests have a timeout.               *)
Fairness == \A r \in UNION Exports : WF_vars(r \in Relays /\ Worker(r))

Spec == Init /\ [][Next]_vars /\ Fairness

-----------------------------------------------------------------------------
(* The batches of the remote writer that its endpoint has yet to see.        *)
Pending ==
    {queue["rw"][i] : i \in DOMAIN queue["rw"]}
        \union IF InFlight("rw") = 1 THEN {work["rw"].item} ELSE {}

(* A series that is shown for good is counted for (Tick, snapshot).  What   *)
(* the node-local store shows is in the ingester's prevSeries, which will   *)
(* retire it, unless appendErrors says that something was not written.      *)
(* What the endpoint of the remote writer shows is in its prevSeries or     *)
(* retired by a batch to come, unless a batch was counted as dropped or the *)
(* worker has returned.                                                     *)
FrozenIsCounted ==
    /\ store.live \subseteq Ids(store.prev) \/ store.errors
    /\ "rw" \in Relays =>
          \/ writer.live \subseteq
                Ids(writer.prev) \union UNION {Ids(b.markers) : b \in Pending}
          \/ count["rw"].dropped > 0
          \/ work["rw"].at = "returned"
=============================================================================
