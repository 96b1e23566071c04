---------------------------- MODULE ControlPlane ----------------------------
(***************************************************************************)
(* The controller-to-agent stream: the reconciler's Engine.Recompute, the  *)
(* Dispatcher and its per-node Sessions, the AgentSession stream handler   *)
(* with its sender goroutine, and the agent-side client.                   *)
(*                                                                         *)
(* Everything the Dispatcher owns is guarded by d.mu.  A critical section  *)
(* is not one step here: Session.enqueue reads s.closed under s.mu,        *)
(* releases it, and only then sends on the channel, while the sender       *)
(* goroutine drains the same channel; so Apply and RegisterSession take    *)
(* one step per delta for the check and one for the send (pend holds the   *)
(* message in between), and LockFree says when d.mu may be taken.          *)
(*                                                                         *)
(* A pod never moves: NodeOf is fixed.  A stream is used once: every dial  *)
(* takes a fresh identifier of Sessions, and SessNode is the node that     *)
(* dials it.  There is one agent process per node.                         *)
(***************************************************************************)
EXTENDS Naturals, Sequences

CONSTANTS
    Nodes, Pods, NodeOf,        \* NodeOf[p]: spec.nodeName of the pod
    Specs, NoSpec,              \* MonitoringSpec values; NoSpec: not covered
    Sessions, NoSession,        \* stream identifiers
    SessNode,                   \* SessNode[s]: the node that dials stream s
    NoPend,
    OutCap,                     \* capacity of Session.out (1024 in the code)
    NetCap,                     \* flow-control window of a stream, in messages
    MaxChanges                  \* bound on changes of the cluster's state

ASSUME NodeOfAssumption == NodeOf \in [Pods -> Nodes]
ASSUME SessNodeAssumption == SessNode \in [Sessions -> Nodes]
ASSUME NoneAssumption == NoSpec \notin Specs /\ NoSession \notin Sessions
ASSUME CapAssumption == OutCap \in Nat \ {0} /\ NetCap \in Nat \ {0}

MaybeSpec == Specs \cup {NoSpec}

\* A MonitoringSpecDelta; spec = NoSpec is the op REMOVE, any other is UPSERT.
Msgs == [pod : Pods, spec : MaybeSpec, gen : Nat]
Statuses == [pod : Pods, active : BOOLEAN]
Pends == [sess : Sessions, msg : Msgs]

ASSUME NoPendAssumption == NoPend \notin Pends

VARIABLES
    desired, changes, dirty,    \* what ComputeCoverage yields; a reconcile is queued
    engine, snap,               \* Engine.Recompute: its step, and cov.Specs
    lastSpec, generation, sessions,                    \* Dispatcher
    todo, pend,                 \* replay loop of RegisterSession; message in enqueue
    closed, out, dropped,       \* Session
    pc, sender,                 \* AgentSession handler and its sender goroutine
    net, up, broken,            \* the stream: deltas down, statuses up
    conn, allowed,              \* agent: its stream, and the pods it instruments
    active,                     \* AgentStateStore
    panicked                    \* a send on a closed channel happened

cluster == <<desired, changes, dirty>>
recompute == <<engine, snap>>
disp == <<lastSpec, generation, sessions>>
queue == <<closed, out, dropped>>
server == <<pc, sender>>
stream == <<net, up, broken>>
agent == <<conn, allowed>>
vars == <<cluster, recompute, disp, todo, pend, queue, server, stream, agent,
          active, panicked>>

PodsOf(n) == {p \in Pods : NodeOf[p] = n}

\* A leader that has just been elected; its informers' first sync has queued a
\* reconcile, and the agents have not dialled yet.
Init ==
    /\ desired \in [Pods -> MaybeSpec] /\ changes = 0 /\ dirty = TRUE
    /\ engine = "idle" /\ snap = [p \in Pods |-> NoSpec]
    /\ lastSpec = [p \in Pods |-> NoSpec]
    /\ generation = [p \in Pods |-> 0]
    /\ sessions = [n \in Nodes |-> NoSession]
    /\ todo = {} /\ pend = NoPend
    /\ closed = [s \in Sessions |-> FALSE]
    /\ out = [s \in Sessions |-> <<>>]
    /\ dropped = [s \in Sessions |-> {}]
    /\ pc = [s \in Sessions |-> "none"]
    /\ sender = [s \in Sessions |-> "none"]
    /\ net = [s \in Sessions |-> <<>>]
    /\ up = [s \in Sessions |-> <<>>]
    /\ broken = [s \in Sessions |-> FALSE]
    /\ conn = [n \in Nodes |-> NoSession]
    /\ allowed = [p \in Pods |-> NoSpec]
    /\ active = [p \in Pods |-> FALSE]
    /\ panicked = FALSE

\* d.mu is free: neither Apply nor a RegisterSession is inside it.
LockFree == engine # "apply" /\ \A s \in Sessions : pc[s] # "replay"

-----------------------------------------------------------------------------
(* The cluster and the reconciler.                                         *)

\* A Pod, TrafficMonitor or ClusterTrafficPolicy event changes the coverage of
\* p and queues a reconcile.
ClusterChange(p, v) ==
    /\ changes < MaxChanges /\ desired[p] # v
    /\ desired' = [desired EXCEPT ![p] = v]
    /\ changes' = changes + 1
    /\ dirty' = TRUE
    /\ UNCHANGED <<recompute, disp, todo, pend, queue, server, stream, agent,
                   active, panicked>>

\* Recompute lists the cluster and computes the coverage, under e.mu.
RecomputeList ==
    /\ engine = "idle" /\ dirty
    /\ engine' = "listed" /\ snap' = desired /\ dirty' = FALSE
    /\ UNCHANGED <<desired, changes, disp, todo, pend, queue, server, stream,
                   agent, active, panicked>>

ApplyLock ==
    /\ engine = "listed" /\ LockFree
    /\ engine' = "apply"
    /\ UNCHANGED <<cluster, snap, disp, todo, pend, queue, server, stream,
                   agent, active, panicked>>

Delta(p, spec, gen) == [pod |-> p, spec |-> spec, gen |-> gen]

\* The first half of Session.enqueue: the check of s.closed under s.mu.
EnqueueCheck(s, m) ==
    IF s = NoSession THEN NoPend
    ELSE IF closed[s] THEN NoPend ELSE [sess |-> s, msg |-> m]

\* The second half, the non-blocking send.  In Go it panics on a closed channel.
EnqueueSend ==
    /\ pend # NoPend
    /\ LET s == pend.sess IN
       IF closed[s]
       THEN panicked' = TRUE /\ UNCHANGED <<out, dropped>>
       ELSE /\ IF Len(out[s]) < OutCap
               THEN /\ out' = [out EXCEPT ![s] = Append(@, pend.msg)]
                    /\ UNCHANGED dropped
               ELSE /\ dropped' = [dropped EXCEPT ![s] = @ \cup {pend.msg.pod}]
                    /\ UNCHANGED out
            /\ UNCHANGED panicked
    /\ pend' = NoPend
    /\ UNCHANGED <<cluster, recompute, disp, todo, closed, server, stream,
                   agent, active>>

Upserts == {p \in Pods : snap[p] # NoSpec /\ lastSpec[p] # snap[p]}
Removes == {p \in Pods : snap[p] = NoSpec /\ lastSpec[p] # NoSpec}

\* One iteration of either loop of Apply that finds something to send: the
\* first loop upserts what is new or changed, the second removes the rest.
ApplyDelta(p) ==
    /\ engine = "apply" /\ pend = NoPend
    /\ p \in IF Upserts # {} THEN Upserts ELSE Removes
    /\ generation' = [generation EXCEPT ![p] = @ + 1]
    /\ lastSpec' = [lastSpec EXCEPT ![p] = snap[p]]
    /\ pend' = EnqueueCheck(sessions[NodeOf[p]],
                            Delta(p, snap[p], generation[p] + 1))
    /\ UNCHANGED <<cluster, recompute, sessions, todo, queue, server, stream,
                   agent, active, panicked>>

\* Mutant of ApplyUnlock: forgets the events that arrived during the recompute.
ApplyUnlockClearsQueue ==
    /\ engine = "apply" /\ pend = NoPend /\ Upserts = {} /\ Removes = {}
    /\ engine' = "idle" /\ dirty' = FALSE
    /\ UNCHANGED <<desired, changes, snap, disp, todo, pend, queue, server,
                   stream, agent, active, panicked>>

ApplyUnlock ==
    /\ engine = "apply" /\ pend = NoPend /\ Upserts = {} /\ Removes = {}
    /\ engine' = "idle"
    /\ UNCHANGED <<cluster, snap, disp, todo, pend, queue, server, stream,
                   agent, active, panicked>>

-----------------------------------------------------------------------------
(* Server.AgentSession: one handler per stream, and its sender goroutine.  *)

\* Mutant of RegisterSession: no replay of the known specs.
RegisterSessionNoReplay(s) ==
    /\ pc[s] = "hello" /\ LockFree
    /\ LET n == SessNode[s] IN
       /\ closed' = IF sessions[n] = NoSession THEN closed
                    ELSE [closed EXCEPT ![sessions[n]] = TRUE]
       /\ sessions' = [sessions EXCEPT ![n] = s]
    /\ todo' = {}
    /\ pc' = [pc EXCEPT ![s] = "replay"]
    /\ UNCHANGED <<cluster, recompute, lastSpec, generation, pend, out, dropped,
                   sender, stream, agent, active, panicked>>

\* RegisterSession takes d.mu, displaces the node's previous session and
\* starts the replay of the specs known for the node.
RegisterSession(s) ==
    /\ pc[s] = "hello" /\ LockFree
    /\ LET n == SessNode[s] IN
       /\ closed' = IF sessions[n] = NoSession THEN closed
                    ELSE [closed EXCEPT ![sessions[n]] = TRUE]
       /\ sessions' = [sessions EXCEPT ![n] = s]
       /\ todo' = {p \in PodsOf(n) : lastSpec[p] # NoSpec}
    /\ pc' = [pc EXCEPT ![s] = "replay"]
    /\ UNCHANGED <<cluster, recompute, lastSpec, generation, pend, out, dropped,
                   sender, stream, agent, active, panicked>>

ReplayDelta(s, p) ==
    /\ pc[s] = "replay" /\ pend = NoPend /\ p \in todo
    /\ todo' = todo \ {p}
    /\ pend' = EnqueueCheck(s, Delta(p, lastSpec[p], generation[p]))
    /\ UNCHANGED <<cluster, recompute, disp, queue, server, stream, agent,
                   active, panicked>>

\* RegisterSession returns; the handler spawns the sender and enters its loop.
RegisterDone(s) ==
    /\ pc[s] = "replay" /\ pend = NoPend /\ todo = {}
    /\ pc' = [pc EXCEPT ![s] = "loop"]
    /\ sender' = [sender EXCEPT ![s] = "run"]
    /\ UNCHANGED <<cluster, recompute, disp, todo, pend, queue, stream, agent,
                   active, panicked>>

\* The stream fails before the handler could answer the AgentHello.
HandlerAbort(s) ==
    /\ pc[s] = "hello" /\ broken[s]
    /\ pc' = [pc EXCEPT ![s] = "done"]
    /\ UNCHANGED <<cluster, recompute, disp, todo, pend, queue, sender, stream,
                   agent, active, panicked>>

\* stream.Send of one message; it fails when the stream is broken.
SenderSend(s) ==
    /\ sender[s] = "run" /\ out[s] # <<>>
    /\ IF broken[s]
       THEN sender' = [sender EXCEPT ![s] = "done"] /\ UNCHANGED net
       ELSE /\ Len(net[s]) < NetCap
            /\ net' = [net EXCEPT ![s] = Append(@, Head(out[s]))]
            /\ UNCHANGED sender
    /\ out' = [out EXCEPT ![s] = Tail(@)]
    /\ UNCHANGED <<cluster, recompute, disp, todo, pend, closed, dropped, pc,
                   up, broken, agent, active, panicked>>

\* The range over the closed, drained channel ends.
SenderExit(s) ==
    /\ sender[s] = "run" /\ out[s] = <<>> /\ closed[s]
    /\ sender' = [sender EXCEPT ![s] = "done"]
    /\ UNCHANGED <<cluster, recompute, disp, todo, pend, queue, pc, stream,
                   agent, active, panicked>>

\* The handler receives an AgentStatus and records it; then it polls sendErr.
\* Messages that arrived before the stream broke may still be received.
HandlerStatus(s) ==
    /\ pc[s] = "loop" /\ up[s] # <<>>
    /\ active' = [active EXCEPT ![Head(up[s]).pod] = Head(up[s]).active]
    /\ up' = [up EXCEPT ![s] = Tail(@)]
    /\ pc' = IF sender[s] = "done" THEN [pc EXCEPT ![s] = "unreg"] ELSE pc
    /\ UNCHANGED <<cluster, recompute, disp, todo, pend, queue, sender, net,
                   broken, agent, panicked>>

\* Mutant of HandlerReturn: closes the session without unregistering it first.
HandlerReturnSkipsUnregister(s) ==
    /\ pc[s] = "loop" /\ (broken[s] \/ sender[s] = "done")
    /\ pc' = [pc EXCEPT ![s] = "close"]
    /\ UNCHANGED <<cluster, recompute, disp, todo, pend, queue, sender, stream,
                   agent, active, panicked>>

\* stream.Recv fails, or a heartbeat arrives and sendErr holds a result.
HandlerReturn(s) ==
    /\ pc[s] = "loop" /\ (broken[s] \/ sender[s] = "done")
    /\ pc' = [pc EXCEPT ![s] = "unreg"]
    /\ UNCHANGED <<cluster, recompute, disp, todo, pend, queue, sender, stream,
                   agent, active, panicked>>

\* Mutant of UnregisterSession: does not compare the registered session.
UnregisterSessionAny(s) ==
    /\ pc[s] = "unreg" /\ LockFree
    /\ sessions' = [sessions EXCEPT ![SessNode[s]] = NoSession]
    /\ pc' = [pc EXCEPT ![s] = "close"]
    /\ UNCHANGED <<cluster, recompute, lastSpec, generation, todo, pend, queue,
                   sender, stream, agent, active, panicked>>

\* The deferred UnregisterSession: only the session still registered is removed.
UnregisterSession(s) ==
    /\ pc[s] = "unreg" /\ LockFree
    /\ LET n == SessNode[s] IN
       sessions' = IF sessions[n] = s
                   THEN [sessions EXCEPT ![n] = NoSession] ELSE sessions
    /\ pc' = [pc EXCEPT ![s] = "close"]
    /\ UNCHANGED <<cluster, recompute, lastSpec, generation, todo, pend, queue,
                   sender, stream, agent, active, panicked>>

\* The deferred sess.close(), after which the RPC ends.
CloseSession(s) ==
    /\ pc[s] = "close"
    /\ closed' = [closed EXCEPT ![s] = TRUE]
    /\ pc' = [pc EXCEPT ![s] = "done"]
    /\ broken' = [broken EXCEPT ![s] = TRUE]
    /\ UNCHANGED <<cluster, recompute, disp, todo, pend, out, dropped, sender,
                   net, up, agent, active, panicked>>

\* The streams node n has not dialled yet.  Disconnects that the environment
\* causes need one, so that the bound on streams stops them and not the agent.
Unused(n) == {s \in Sessions : SessNode[s] = n /\ pc[s] = "none"}
CanRedial(n) == Unused(n) # {}

\* The leader process dies or loses its lease and exits; another replica is
\* elected.  It starts with an empty Dispatcher and AgentStateStore, and its
\* informers' first sync queues a reconcile.  What the old leader had put on
\* the wire may still reach the agents.  (The first two conjuncts are bounds:
\* each failover costs a stream, and every agent has one left to dial.)
Failover ==
    /\ \E s \in Sessions : pc[s] \in {"replay", "loop"}
    /\ \A n \in Nodes : CanRedial(n)
    /\ lastSpec' = [p \in Pods |-> NoSpec]
    /\ generation' = [p \in Pods |-> 0]
    /\ sessions' = [n \in Nodes |-> NoSession]
    /\ active' = [p \in Pods |-> FALSE]
    /\ dirty' = TRUE /\ engine' = "idle"
    /\ todo' = {} /\ pend' = NoPend
    /\ LET live == {s \in Sessions : pc[s] # "none"} IN
       /\ pc' = [s \in Sessions |-> IF s \in live THEN "done" ELSE pc[s]]
       /\ sender' = [s \in Sessions |-> IF s \in live THEN "done" ELSE sender[s]]
       /\ closed' = [s \in Sessions |-> s \in live]
       /\ broken' = [s \in Sessions |-> s \in live]
    /\ out' = [s \in Sessions |-> <<>>]
    /\ up' = [s \in Sessions |-> <<>>]
    /\ UNCHANGED <<desired, changes, snap, dropped, net, agent, panicked>>

-----------------------------------------------------------------------------
(* The agent's Client.                                                     *)

\* session() opens a stream, the next unused one, and sends AgentHello; the
\* leader's handler receives it and answers ControllerHello.
AgentDial(s) ==
    /\ conn[SessNode[s]] = NoSession
    /\ CanRedial(SessNode[s]) /\ s = CHOOSE t \in Unused(SessNode[s]) : TRUE
    /\ conn' = [conn EXCEPT ![SessNode[s]] = s]
    /\ pc' = [pc EXCEPT ![s] = "hello"]
    /\ UNCHANGED <<cluster, recompute, disp, todo, pend, queue, sender, stream,
                   allowed, active, panicked>>

\* handle() applies one delta through the sink, whatever its generation, and
\* answers with an AgentStatus; a failed send of the status is only logged.
AgentHandle(n) ==
    /\ conn[n] # NoSession
    /\ LET s == conn[n]
           m == Head(net[s]) IN
       /\ net[s] # <<>>
       /\ broken[s] \/ Len(up[s]) < NetCap
       /\ net' = [net EXCEPT ![s] = Tail(@)]
       /\ allowed' = [allowed EXCEPT ![m.pod] = m.spec]
       /\ up' = IF broken[s] THEN up
                ELSE [up EXCEPT ![s] = Append(@, [pod |-> m.pod,
                                                  active |-> m.spec # NoSpec])]
    /\ UNCHANGED <<cluster, recompute, disp, todo, pend, queue, server, broken,
                   conn, active, panicked>>

\* raw.Recv returns the stream's end once what was received is consumed; the
\* client closes the connection, backs off, and dials again.
AgentRecvEnd(n) ==
    /\ conn[n] # NoSession /\ broken[conn[n]] /\ net[conn[n]] = <<>>
    /\ conn' = [conn EXCEPT ![n] = NoSession]
    /\ UNCHANGED <<cluster, recompute, disp, todo, pend, queue, server, stream,
                   allowed, active, panicked>>

\* The connection fails: what is in flight towards the agent is lost.
AgentDrop(n) ==
    /\ conn[n] # NoSession /\ CanRedial(n)
    /\ broken' = [broken EXCEPT ![conn[n]] = TRUE]
    /\ net' = [net EXCEPT ![conn[n]] = <<>>]
    /\ conn' = [conn EXCEPT ![n] = NoSession]
    /\ UNCHANGED <<cluster, recompute, disp, todo, pend, queue, server, up,
                   allowed, active, panicked>>

\* The agent process restarts: the capture bridge comes back with no pods.
AgentRestart(n) ==
    /\ conn[n] # NoSession /\ CanRedial(n)
    /\ broken' = [broken EXCEPT ![conn[n]] = TRUE]
    /\ net' = [net EXCEPT ![conn[n]] = <<>>]
    /\ conn' = [conn EXCEPT ![n] = NoSession]
    /\ allowed' = [p \in Pods |-> IF NodeOf[p] = n THEN NoSpec ELSE allowed[p]]
    /\ UNCHANGED <<cluster, recompute, disp, todo, pend, queue, server, up,
                   active, panicked>>

-----------------------------------------------------------------------------
EngineStep ==
    \/ RecomputeList \/ ApplyLock \/ ApplyUnlock \/ EnqueueSend
    \/ \E p \in Pods : ApplyDelta(p)

HandlerStep(s) ==
    \/ RegisterSession(s) \/ RegisterDone(s) \/ HandlerAbort(s)
    \/ \E p \in Pods : ReplayDelta(s, p)
    \/ HandlerReturn(s) \/ UnregisterSession(s) \/ CloseSession(s)

SenderStep(s) == SenderSend(s) \/ SenderExit(s)

AgentStep(n) == AgentHandle(n) \/ AgentRecvEnd(n)

Next ==
    \/ \E p \in Pods, v \in MaybeSpec : ClusterChange(p, v)
    \/ EngineStep
    \/ \E s \in Sessions : HandlerStep(s) \/ HandlerStatus(s) \/ SenderStep(s)
                           \/ AgentDial(s)
    \/ \E n \in Nodes : AgentStep(n) \/ AgentDrop(n) \/ AgentRestart(n)
    \/ Failover

\* Every goroutine that can run eventually does; nothing forces the cluster to
\* change, a connection to fail or a process to die.
Fairness ==
    /\ WF_vars(EngineStep)
    /\ \A s \in Sessions : /\ WF_vars(HandlerStep(s)) /\ WF_vars(SenderStep(s))
                           /\ WF_vars(HandlerStatus(s))
    /\ \A n \in Nodes : /\ WF_vars(AgentStep(n))
                        /\ WF_vars(\E s \in Unused(n) : AgentDial(s))

Spec == Init /\ [][Next]_vars
FairSpec == Spec /\ Fairness

-----------------------------------------------------------------------------
(* Properties.                                                             *)

\* Every variable has its type, and the outbound queue and the stream's window
\* keep their capacities (Session.out is a bounded channel).
TypeOK ==
    /\ desired \in [Pods -> MaybeSpec] /\ changes \in Nat /\ dirty \in BOOLEAN
    /\ engine \in {"idle", "listed", "apply"} /\ snap \in [Pods -> MaybeSpec]
    /\ lastSpec \in [Pods -> MaybeSpec] /\ generation \in [Pods -> Nat]
    /\ sessions \in [Nodes -> Sessions \cup {NoSession}]
    /\ todo \in SUBSET Pods /\ pend \in Pends \cup {NoPend}
    /\ closed \in [Sessions -> BOOLEAN] /\ out \in [Sessions -> Seq(Msgs)]
    /\ \A s \in Sessions : Len(out[s]) <= OutCap
    /\ dropped \in [Sessions -> SUBSET Pods]
    /\ pc \in [Sessions -> {"none", "hello", "replay", "loop", "unreg", "close", "done"}]
    /\ sender \in [Sessions -> {"none", "run", "done"}]
    /\ net \in [Sessions -> Seq(Msgs)] /\ up \in [Sessions -> Seq(Statuses)]
    /\ broken \in [Sessions -> BOOLEAN]
    /\ conn \in [Nodes -> Sessions \cup {NoSession}]
    /\ allowed \in [Pods -> MaybeSpec] /\ active \in [Pods -> BOOLEAN]
    /\ panicked \in BOOLEAN

\* No goroutine ever sends on a closed Session.out: enqueue tests s.closed and
\* sends after releasing s.mu, and what makes this safe is that a session is
\* closed only once it can no longer be reached through d.sessions under d.mu
\* (by RegisterSession itself, or by the handler after UnregisterSession).
NoSendOnClosed == ~panicked

\* For a stream handler in its receive loop, "open" and "registered" are the
\* same thing: the deferred UnregisterSession of an older stream never removes
\* its successor, and no closed session stays where Apply would look it up and
\* silently discard the node's deltas.
OpenIffRegistered ==
    \A s \in Sessions :
        pc[s] = "loop" => (sessions[SessNode[s]] = s <=> ~closed[s])

\* What is on its way to the agent on stream s, oldest first.
InFlight(s) ==
    net[s] \o out[s] \o (IF pend # NoPend /\ pend.sess = s THEN <<pend.msg>> ELSE <<>>)

\* No delta was dropped, and none is still to be replayed, for p on stream s.
Undropped(s, p) == p \notin dropped[s] /\ (pc[s] = "replay" => p \notin todo)

\* The Dispatcher believes of a pod exactly what the agent will believe once it
\* has consumed what is in flight on its registered stream: the last delta in
\* flight is lastSpec at the current generation, and with nothing in flight the
\* agent already has it.  The one exception is a removal the agent missed while
\* it was not connected (RegisterSession replays upserts only).
PipelineAgrees ==
    \A n \in Nodes : \A p \in PodsOf(n) :
        LET s == sessions[n] IN
        s # NoSession /\ conn[n] = s /\ ~broken[s] /\ Undropped(s, p) =>
            LET q == InFlight(s)
                mine == {i \in 1..Len(q) : q[i].pod = p}
            IN IF mine = {}
               THEN lastSpec[p] \in {allowed[p], NoSpec}
               ELSE \E i \in mine : /\ \A j \in mine : j <= i
                                    /\ q[i].spec = lastSpec[p]
                                    /\ q[i].gen = generation[p]

\* The bound on streams has left the agent of n without one to dial.
Exhausted(n) == conn[n] = NoSession /\ ~CanRedial(n)

\* Once the cluster, the network and the leader settle, every covered pod is
\* instrumented with its current spec, however the recomputes, reconnects and
\* failovers before that interleaved: all but those of which the outbound queue
\* of the very stream that serves them now dropped a delta.
CoveredPodsConverge ==
    <>[](\A p \in Pods : desired[p] # NoSpec =>
             \/ allowed[p] = desired[p]
             \/ Exhausted(NodeOf[p])
             \/ \E s \in Sessions : conn[NodeOf[p]] = s /\ p \in dropped[s])

\* docs/design/control-plane.md says that after a reconnect the agent's digest
\* is diffed "against current state" and that after a failover agents "get a
\* re-sync"; session.go that the agent recovers a dropped delta on reconnect:
\* then every pod that is no longer covered is eventually released.
UncoveredPodsConverge ==
    <>[](\A p \in Pods : desired[p] = NoSpec =>
             allowed[p] = NoSpec \/ Exhausted(NodeOf[p]))
=============================================================================
