---------------------------- MODULE QueryServer -----------------------------
(***************************************************************************)
(* The OpenTelemetry query server with the sinks that register with it     *)
(* (opentelemetry/pkg/queryserver, the registration loop of                *)
(* opentelemetry/cmd/opentelemetry-sink/main.go).  A sink keeps a stream   *)
(* open on which it sends its address; the server counts the streams that  *)
(* announce an address.  The two ends learn of a broken stream separately. *)
(***************************************************************************)
EXTENDS SinkSearch

CONSTANTS Streams,      \* stream identities, reused once both ends are through
          MaxFaults     \* bound: broken streams and restarts

ASSUME ServerAssumption ==
    IsFiniteSet(Streams) /\ "none" \notin Sinks \union Streams

VARIABLES registry,     \* Registry.addresses: sink -> number of streams
          client,       \* sink -> its stream, or "none"
          acked,        \* the sinks whose last heartbeat was answered
          server,       \* stream -> [up, address] of Register
          faults

registryVars == <<registry, client, acked, server, faults>>

serverVars == <<searchVars, registryVars>>

NoStream == [up |-> FALSE, address |-> "none"]

GetAddresses == {s \in Sinks : registry[s] > 0}

ServerInit ==
    /\ SearchInit
    /\ registry = [s \in Sinks |-> 0]
    /\ client = [s \in Sinks |-> "none"] /\ acked = {}
    /\ server = [i \in Streams |-> NoStream]
    /\ faults = 0

(* The sink's loop: a new stream, after the last one failed.                *)
Open(s) ==
    /\ client[s] = "none"
    /\ \E i \in Streams :
          /\ ~server[i].up /\ \A x \in Sinks : client[x] # i
          /\ client' = [client EXCEPT ![s] = i]
          /\ server' = [server EXCEPT ![i].up = TRUE]
    /\ UNCHANGED <<searchVars, registry, acked, faults>>

(* Register: the first address of a stream is counted, another replaces it. *)
Heartbeat(s) ==
    LET i   == client[s]
        old == server[i].address
    IN /\ i \in Streams /\ server[i].up
       /\ registry' = [x \in Sinks |->
             IF x = old /\ old # s THEN registry[x] - 1
             ELSE IF x = s /\ old # s THEN registry[x] + 1 ELSE registry[x]]
       /\ server' = [server EXCEPT ![i].address = s]
       /\ acked' = acked \union {s}
       /\ UNCHANGED <<searchVars, client, faults>>

(* Mutant of Left: the sink gives up.                                       *)
LeftForGood(s) ==
    [client EXCEPT ![s] = "stopped"]

(* The sink's Send or Recv fails: it starts over.                           *)
Left(s) == [client EXCEPT ![s] = "none"]

ClientBreaks(s) ==
    /\ client[s] # "none" /\ faults < MaxFaults /\ faults' = faults + 1
    /\ client' = Left(s) /\ acked' = acked \ {s}
    /\ UNCHANGED <<searchVars, registry, server>>

ClientNotices(s) ==
    /\ client[s] \in Streams /\ ~server[client[s]].up
    /\ client' = Left(s) /\ acked' = acked \ {s}
    /\ UNCHANGED <<searchVars, registry, server, faults>>

(* Mutant of Unregister: an address whose stream ends is forgotten.         *)
UnregisterForgets(r, s) == [r EXCEPT ![s] = 0]

Unregister(r, s) == [r EXCEPT ![s] = IF @ <= 1 THEN 0 ELSE @ - 1]

(* Register returns; its defer takes the address back.                      *)
Returns(i) ==
    /\ server' = [server EXCEPT ![i] = NoStream]
    /\ registry' = IF server[i].address \in Sinks
                   THEN Unregister(registry, server[i].address) ELSE registry

ServerBreaks(i) ==
    /\ server[i].up /\ faults < MaxFaults /\ faults' = faults + 1
    /\ Returns(i)
    /\ acked' = {s \in acked : client[s] # i}
    /\ UNCHANGED <<searchVars, client>>

(* The server reads from a stream the sink has left.                        *)
ServerNotices(i) ==
    /\ server[i].up /\ \A s \in Sinks : client[s] # i
    /\ Returns(i)
    /\ UNCHANGED <<searchVars, client, acked, faults>>

(* The query server starts anew, with an empty registry; its request, if    *)
(* any, is lost.                                                            *)
Restart ==
    /\ faults < MaxFaults /\ faults' = faults + 1
    /\ registry' = [s \in Sinks |-> 0]
    /\ server' = [i \in Streams |-> NoStream]
    /\ acked' = {} /\ ask' = NoAsk
    /\ UNCHANGED <<client, clock, disk, ids, asks>>

Request ==
    \/ Ask("search", 0, MaxClock + 1, GetAddresses)
    \/ \E t \in 0 .. MaxClock + 1 : Ask("search", t, t, GetAddresses)
    \/ \E kind \in {"query", "table", "latest"} : Ask(kind, 0, 0, GetAddresses)

SinkStep(s) ==
    \/ \E ts \in 0 .. MaxClock + 1 : Write(s, ts)
    \/ Rotate(s) \/ Expire(s) \/ List(s) \/ Read(s) \/ Fails(s)

Registration == \E s \in Sinks : Open(s) \/ Heartbeat(s) \/ ClientNotices(s)

ServerNext ==
    \/ /\ SearchTick \/ Request \/ Merge \/ Respond \/ \E s \in Sinks : SinkStep(s)
       /\ UNCHANGED registryVars
    \/ Registration
    \/ \E s \in Sinks : ClientBreaks(s)
    \/ \E i \in Streams : ServerBreaks(i) \/ ServerNotices(i)
    \/ Restart

(* The registration loop runs as long as the sink, every five seconds, and  *)
(* the server's handlers read until the stream ends.                        *)
ServerFairness ==
    /\ \A s \in Sinks : /\ WF_serverVars(Open(s)) /\ WF_serverVars(Heartbeat(s))
                         /\ WF_serverVars(ClientNotices(s))
    /\ \A i \in Streams : WF_serverVars(ServerNotices(i))

ServerSpec == ServerInit /\ [][ServerNext]_serverVars /\ ServerFairness

-----------------------------------------------------------------------------
(* A sink that was told it is registered is asked: while both ends hold the *)
(* stream it is in the registry, also when an earlier stream of the same    *)
(* sink ends late (Register, Unregister).                                   *)
AckedAreRegistered ==
    \A s \in acked : client[s] \in Streams /\ server[client[s]].up => registry[s] > 0

(* Whatever breaks or restarts, all sinks are registered in the end.        *)
SinksComeBack == <>[](GetAddresses = Sinks)
=============================================================================
