------------------------- MODULE ControlPlaneProofs -------------------------
(***************************************************************************)
(* For every set of nodes, pods, specs and streams and every capacity: the *)
(* types of ControlPlane, and the safety of the session table that the     *)
(* Dispatcher and the stream handlers share.                               *)
(***************************************************************************)
EXTENDS ControlPlane, SequenceTheorems, TLAPS

USE DEF MaybeSpec

\* Every step keeps every variable in its type, the bounded queue included.
LEMMA TypeStep == TypeOK /\ [Next]_vars => TypeOK'
<1> SUFFICES ASSUME TypeOK, [Next]_vars PROVE TypeOK'
  OBVIOUS
<1> USE NodeOfAssumption, SessNodeAssumption, NoneAssumption, CapAssumption
    DEF TypeOK, cluster, recompute, disp, queue, server,
        stream, agent
<1>1. ASSUME NEW p \in Pods, NEW v \in MaybeSpec, ClusterChange(p, v) PROVE TypeOK'
  <2>1. desired' \in [Pods -> Specs \cup {NoSpec}] /\ changes' \in Nat /\ dirty' = TRUE
    BY <1>1 DEF ClusterChange
  <2> QED BY <1>1, <2>1 DEF ClusterChange
<1>2. CASE RecomputeList
  BY <1>2, ZenonT(30) DEF RecomputeList
<1>3. CASE ApplyLock
  BY <1>3 DEF ApplyLock
<1>4. CASE ApplyUnlock
  BY <1>4 DEF ApplyUnlock
<1>5. CASE EnqueueSend
  <2> DEFINE s == pend.sess
  <2>1. s \in Sessions /\ pend.msg \in Msgs /\ pend.msg.pod \in Pods
    BY <1>5 DEF EnqueueSend, Pends, Msgs
  <2>2. out' \in [Sessions -> Seq(Msgs)] /\ \A t \in Sessions : Len(out'[t]) <= OutCap
    <3>1. CASE out' = out
      BY <3>1
    <3>2. CASE out' = [out EXCEPT ![s] = Append(@, pend.msg)] /\ Len(out[s]) < OutCap
      <4>1. Append(out[s], pend.msg) \in Seq(Msgs)
            /\ Len(Append(out[s], pend.msg)) = Len(out[s]) + 1
        BY <2>1, AppendProperties
      <4>2. \A t \in Sessions : out'[t] = IF t = s THEN Append(out[s], pend.msg) ELSE out[t]
        BY <3>2, <2>1
      <4>3. Len(out[s]) + 1 <= OutCap
        BY <3>2, <2>1, LenProperties
      <4> QED BY <3>2, <4>1, <4>2, <4>3, <2>1
    <3> QED BY <1>5, <3>1, <3>2 DEF EnqueueSend
  <2>3. dropped' \in [Sessions -> SUBSET Pods]
    <3>1. dropped[s] \cup {pend.msg.pod} \in SUBSET Pods
      BY <2>1
    <3> QED BY <1>5, <2>1, <3>1, ZenonT(30) DEF EnqueueSend
  <2>4. panicked' \in BOOLEAN
    BY <1>5, ZenonT(30) DEF EnqueueSend
  <2> QED BY <1>5, <2>2, <2>3, <2>4 DEF EnqueueSend
<1>6. ASSUME NEW p \in Pods, ApplyDelta(p) PROVE TypeOK'
  <2>1. generation' \in [Pods -> Nat] /\ lastSpec' \in [Pods -> MaybeSpec]
    BY <1>6 DEF ApplyDelta
  <2>2. Delta(p, snap[p], generation[p] + 1) \in Msgs
    BY DEF Delta, Msgs
  <2>3. pend' \in Pends \cup {NoPend}
    BY <1>6, <2>2 DEF ApplyDelta, EnqueueCheck, Pends
  <2> QED BY <1>6, <2>1, <2>3 DEF ApplyDelta
<1>7. ASSUME NEW s \in Sessions, RegisterSession(s) PROVE TypeOK'
  BY <1>7 DEF RegisterSession, PodsOf
<1>8. ASSUME NEW s \in Sessions, NEW p \in Pods, ReplayDelta(s, p) PROVE TypeOK'
  <2>1. Delta(p, lastSpec[p], generation[p]) \in Msgs
    BY DEF Delta, Msgs
  <2>2. pend' \in Pends \cup {NoPend} /\ todo' \in SUBSET Pods
    BY <1>8, <2>1 DEF ReplayDelta, EnqueueCheck, Pends
  <2> QED BY <1>8, <2>2 DEF ReplayDelta
<1>9. ASSUME NEW s \in Sessions, RegisterDone(s) PROVE TypeOK'
  BY <1>9 DEF RegisterDone
<1>10. ASSUME NEW s \in Sessions, HandlerAbort(s) PROVE TypeOK'
  BY <1>10 DEF HandlerAbort
<1>11. ASSUME NEW s \in Sessions, SenderSend(s) PROVE TypeOK'
  <2>1. Head(out[s]) \in Msgs /\ Tail(out[s]) \in Seq(Msgs)
        /\ Len(Tail(out[s])) = Len(out[s]) - 1
    BY <1>11, HeadTailProperties DEF SenderSend
  <2>2. out' \in [Sessions -> Seq(Msgs)] /\ \A t \in Sessions : Len(out'[t]) <= OutCap
    <3>1. \A t \in Sessions : out'[t] = IF t = s THEN Tail(out[s]) ELSE out[t]
      BY <1>11 DEF SenderSend
    <3>2. Len(out[s]) \in Nat
      BY LenProperties
    <3> QED BY <1>11, <2>1, <3>1, <3>2 DEF SenderSend
  <2>3. net' \in [Sessions -> Seq(Msgs)] /\ sender' \in [Sessions -> {"none", "run", "done"}]
    <3>1. Append(net[s], Head(out[s])) \in Seq(Msgs)
      BY <2>1, AppendProperties
    <3>2. CASE broken[s]
      BY <1>11, <3>2, ZenonT(30) DEF SenderSend
    <3>3. CASE ~broken[s]
      <4>1. net' = [net EXCEPT ![s] = Append(net[s], Head(out[s]))] /\ sender' = sender
        BY <1>11, <3>3 DEF SenderSend
      <4> QED BY <3>1, <4>1
    <3> QED BY <3>2, <3>3
  <2> QED BY <1>11, <2>2, <2>3 DEF SenderSend
<1>12. ASSUME NEW s \in Sessions, SenderExit(s) PROVE TypeOK'
  BY <1>12 DEF SenderExit
<1>13. ASSUME NEW s \in Sessions, HandlerStatus(s) PROVE TypeOK'
  <2>1. Head(up[s]) \in Statuses /\ Tail(up[s]) \in Seq(Statuses)
    BY <1>13, HeadTailProperties DEF HandlerStatus
  <2>2. up' \in [Sessions -> Seq(Statuses)] /\ active' \in [Pods -> BOOLEAN]
    BY <1>13, <2>1 DEF HandlerStatus, Statuses
  <2>3. pc' \in [Sessions -> {"none", "hello", "replay", "loop", "unreg", "close", "done"}]
    BY <1>13 DEF HandlerStatus
  <2> QED BY <1>13, <2>2, <2>3, ZenonT(30) DEF HandlerStatus
<1>14. ASSUME NEW s \in Sessions, HandlerReturn(s) PROVE TypeOK'
  BY <1>14 DEF HandlerReturn
<1>15. ASSUME NEW s \in Sessions, UnregisterSession(s) PROVE TypeOK'
  BY <1>15 DEF UnregisterSession
<1>16. ASSUME NEW s \in Sessions, CloseSession(s) PROVE TypeOK'
  BY <1>16 DEF CloseSession
<1>17. CASE Failover
  <2>1. /\ pc' \in [Sessions -> {"none", "hello", "replay", "loop", "unreg", "close", "done"}]
        /\ sender' \in [Sessions -> {"none", "run", "done"}]
    BY <1>17 DEF Failover
  <2>2. closed' \in [Sessions -> BOOLEAN] /\ broken' \in [Sessions -> BOOLEAN]
    BY <1>17 DEF Failover
  <2>3. /\ out' \in [Sessions -> Seq(Msgs)] /\ up' \in [Sessions -> Seq(Statuses)]
        /\ \A s \in Sessions : Len(out'[s]) <= OutCap
    BY <1>17 DEF Failover
  <2>4. /\ lastSpec' \in [Pods -> MaybeSpec] /\ generation' \in [Pods -> Nat]
        /\ sessions' \in [Nodes -> Sessions \cup {NoSession}]
        /\ active' \in [Pods -> BOOLEAN]
    BY <1>17 DEF Failover
  <2> QED BY <1>17, <2>1, <2>2, <2>3, <2>4, ZenonT(30) DEF Failover
<1>18. ASSUME NEW s \in Sessions, AgentDial(s) PROVE TypeOK'
  BY <1>18, ZenonT(30) DEF AgentDial
<1>19. ASSUME NEW n \in Nodes, AgentHandle(n) PROVE TypeOK'
  <2> DEFINE s == conn[n]
             m == Head(net[s])
             st == [pod |-> m.pod, active |-> m.spec # NoSpec]
  <2>1. s \in Sessions /\ m \in Msgs /\ Tail(net[s]) \in Seq(Msgs)
    BY <1>19, HeadTailProperties DEF AgentHandle
  <2>2. st \in Statuses
    BY <2>1, ZenonT(30) DEF Msgs, Statuses
  <2>3. net' \in [Sessions -> Seq(Msgs)]
    BY <1>19, <2>1, ZenonT(30) DEF AgentHandle
  <2>4. up' \in [Sessions -> Seq(Statuses)]
    <3>1. Append(up[s], st) \in Seq(Statuses)
      BY <2>1, <2>2, AppendProperties
    <3> QED BY <1>19, <2>1, <3>1 DEF AgentHandle
  <2>5. allowed' \in [Pods -> MaybeSpec]
    BY <1>19, <2>1 DEF AgentHandle, Msgs
  <2> QED BY <1>19, <2>3, <2>4, <2>5, ZenonT(30) DEF AgentHandle
<1>20. ASSUME NEW n \in Nodes, AgentRecvEnd(n) PROVE TypeOK'
  BY <1>20 DEF AgentRecvEnd
<1>21. ASSUME NEW n \in Nodes, AgentDrop(n) PROVE TypeOK'
  <2>1. /\ broken' \in [Sessions -> BOOLEAN] /\ net' \in [Sessions -> Seq(Msgs)]
        /\ conn' \in [Nodes -> Sessions \cup {NoSession}]
    <3>1. <<>> \in Seq(Msgs) /\ conn[n] \in Sessions
      BY <1>21, EmptySeq DEF AgentDrop
    <3> QED BY <1>21, <3>1 DEF AgentDrop
  <2> QED BY <1>21, <2>1 DEF AgentDrop
<1>22. ASSUME NEW n \in Nodes, AgentRestart(n) PROVE TypeOK'
  <2>1. /\ broken' \in [Sessions -> BOOLEAN] /\ net' \in [Sessions -> Seq(Msgs)]
        /\ conn' \in [Nodes -> Sessions \cup {NoSession}]
    <3>1. <<>> \in Seq(Msgs) /\ conn[n] \in Sessions
      BY <1>22, EmptySeq DEF AgentRestart
    <3> QED BY <1>22, <3>1 DEF AgentRestart
  <2>2. allowed' \in [Pods -> MaybeSpec]
    BY <1>22 DEF AgentRestart
  <2> QED BY <1>22, <2>1, <2>2 DEF AgentRestart
<1>23. CASE UNCHANGED vars
  BY <1>23 DEF vars
<1> QED
  BY <1>1, <1>2, <1>3, <1>4, <1>5, <1>6, <1>7, <1>8, <1>9, <1>10, <1>11, <1>12,
     <1>13, <1>14, <1>15, <1>16, <1>17, <1>18, <1>19, <1>20, <1>21, <1>22, <1>23, ZenonT(30)
  DEF Next, EngineStep, HandlerStep, SenderStep, AgentStep

\* The initial states are well typed.
LEMMA TypeInit == Init => TypeOK
<1> SUFFICES ASSUME Init PROVE TypeOK
  OBVIOUS
<1>1. <<>> \in Seq(Msgs) /\ <<>> \in Seq(Statuses) /\ Len(<<>>) = 0
  BY EmptySeq
<1>2. /\ out \in [Sessions -> Seq(Msgs)] /\ net \in [Sessions -> Seq(Msgs)]
      /\ up \in [Sessions -> Seq(Statuses)]
      /\ \A s \in Sessions : Len(out[s]) <= OutCap
  BY <1>1, CapAssumption DEF Init
<1> QED
  BY <1>2, ZenonT(30) DEF Init, TypeOK

\* Every reachable state is well typed: in particular Session.out never holds
\* more than its capacity, whatever the interleaving of Apply, replay and sender.
THEOREM TypeCorrect == Spec => []TypeOK
  BY TypeInit, TypeStep, PTL DEF Spec

-----------------------------------------------------------------------------
(* The session table.  NoSendOnClosed is not inductive: it needs to know    *)
(* why the session of a pending message is open, which is a statement about *)
(* every handler and the table together.                                    *)

\* A registered session belongs to its node's running handler and is open.
RegisteredLive ==
    \A n \in Nodes : sessions[n] # NoSession =>
        /\ SessNode[sessions[n]] = n
        /\ pc[sessions[n]] \in {"replay", "loop", "unreg"}
        /\ ~closed[sessions[n]]

\* A handler that has registered and has not been displaced is the registered one.
OpenRegistered ==
    \A s \in Sessions :
        pc[s] \in {"replay", "loop", "unreg"} /\ ~closed[s] => sessions[SessNode[s]] = s

\* A stream that has not registered yet has an open session.
UnregisteredOpen == \A s \in Sessions : pc[s] \in {"none", "hello"} => ~closed[s]

\* A message that passed the check of enqueue is for a registered, open session,
\* and d.mu is held: nobody can unregister that session before the send.
PendSafe ==
    pend # NoPend => /\ ~LockFree
                     /\ sessions[SessNode[pend.sess]] = pend.sess
                     /\ ~closed[pend.sess]

TableInv ==
    /\ TypeOK /\ NoSendOnClosed
    /\ RegisteredLive /\ OpenRegistered /\ UnregisteredOpen /\ PendSafe

\* Init establishes the table invariant: no session, no message, no handler.
LEMMA TableInit == Init => TableInv
<1> SUFFICES ASSUME Init PROVE TableInv
  OBVIOUS
<1> QED
  BY TypeInit, NoneAssumption
  DEF Init, TableInv, NoSendOnClosed, RegisteredLive, OpenRegistered,
      UnregisteredOpen, PendSafe

\* Steps that touch neither the table, the handlers, the sessions' closed flags,
\* a pending message nor the engine's hold of d.mu.
LEMMA TableFrame ==
    TableInv /\ TypeOK'
    /\ UNCHANGED <<sessions, pc, closed, pend, panicked>>
    /\ (engine = "apply" <=> engine' = "apply") => TableInv'
  BY DEF TableInv, NoSendOnClosed, RegisteredLive, OpenRegistered,
         UnregisteredOpen, PendSafe, LockFree

\* Every step keeps the table invariant: the cases are the steps that move a
\* session in or out of d.sessions, close one, or enqueue to one.
LEMMA TableStep == TableInv /\ [Next]_vars => TableInv'
<1> SUFFICES ASSUME TableInv, [Next]_vars PROVE TableInv'
  OBVIOUS
<1>0. TypeOK /\ TypeOK'
  BY TypeStep DEF TableInv
<1> USE NodeOfAssumption, SessNodeAssumption, NoneAssumption
    DEF cluster, recompute, disp, queue, server, stream, agent
<1>1. ASSUME NEW p \in Pods, NEW v \in MaybeSpec, ClusterChange(p, v) PROVE TableInv'
  BY <1>0, <1>1, TableFrame DEF ClusterChange
<1>2. CASE RecomputeList
  BY <1>0, <1>2, TableFrame DEF RecomputeList
<1>3. CASE ApplyLock
  <2>1. pend = NoPend
    BY <1>3 DEF ApplyLock, TableInv, PendSafe
  <2> QED BY <1>0, <1>3, <2>1, ZenonT(30)
    DEF ApplyLock, TableInv, NoSendOnClosed, RegisteredLive, OpenRegistered,
        UnregisteredOpen, PendSafe
<1>4. CASE ApplyUnlock
  BY <1>0, <1>4
  DEF ApplyUnlock, TableInv, NoSendOnClosed, RegisteredLive, OpenRegistered,
      UnregisteredOpen, PendSafe
<1>5. CASE EnqueueSend
  <2>1. ~closed[pend.sess]
    BY <1>5 DEF EnqueueSend, TableInv, PendSafe
  <2> QED BY <1>0, <1>5, <2>1
    DEF EnqueueSend, TableInv, NoSendOnClosed, RegisteredLive, OpenRegistered,
        UnregisteredOpen, PendSafe
<1>6. ASSUME NEW p \in Pods, ApplyDelta(p) PROVE TableInv'
  <2> DEFINE s == sessions[NodeOf[p]]
             m == Delta(p, snap[p], generation[p] + 1)
  <2>1. UNCHANGED <<sessions, pc, closed, panicked, engine>> /\ engine = "apply"
        /\ pend' = EnqueueCheck(s, m)
    BY <1>6 DEF ApplyDelta
  <2>2. pend' # NoPend => /\ pend'.sess = s /\ s # NoSession /\ ~closed[s]
    BY <2>1 DEF EnqueueCheck
  <2>3. s # NoSession => SessNode[s] = NodeOf[p]
    BY <1>0, ZenonT(30) DEF TableInv, RegisteredLive, TypeOK
  <2>4. PendSafe'
    BY <2>1, <2>2, <2>3 DEF PendSafe, LockFree
  <2> QED BY <1>0, <2>1, <2>4
    DEF TableInv, NoSendOnClosed, RegisteredLive, OpenRegistered, UnregisteredOpen
<1>7. ASSUME NEW s \in Sessions, RegisterSession(s) PROVE TableInv'
  <2> DEFINE n == SessNode[s]
  <2>1. /\ pc[s] = "hello" /\ pend = NoPend
        /\ sessions' = [sessions EXCEPT ![n] = s]
        /\ pc' = [pc EXCEPT ![s] = "replay"]
        /\ UNCHANGED <<pend, panicked>>
    BY <1>7 DEF RegisterSession, TableInv, PendSafe
  <2>0. n \in Nodes
    OBVIOUS
  <2>2. \A t \in Sessions : closed'[t] <=> closed[t] \/ t = sessions[n]
    <3>1. CASE sessions[n] = NoSession
      BY <1>7, <3>1 DEF RegisterSession
    <3>2. CASE sessions[n] # NoSession
      <4>1. closed' = [closed EXCEPT ![sessions[n]] = TRUE]
        BY <1>7, <3>2 DEF RegisterSession
      <4> QED BY <1>0, <2>0, <4>1 DEF TypeOK
    <3> QED BY <3>1, <3>2
  <2>3. \A k \in Nodes : sessions[k] # s
    BY <2>1 DEF TableInv, RegisteredLive
  <2>4. RegisteredLive'
    <3> SUFFICES ASSUME NEW k \in Nodes, sessions'[k] # NoSession
                 PROVE /\ SessNode[sessions'[k]] = k
                       /\ pc'[sessions'[k]] \in {"replay", "loop", "unreg"}
                       /\ ~closed'[sessions'[k]]
      BY DEF RegisteredLive
    <3>1. CASE k = n
      <4>1. sessions'[k] = s
        BY <1>0, <2>1, <3>1, ZenonT(30) DEF TypeOK
      <4>2. ~closed[s]
        BY <2>1 DEF TableInv, UnregisteredOpen
      <4> QED BY <1>0, <2>1, <2>2, <2>3, <3>1, <4>1, <4>2, ZenonT(30) DEF TypeOK
    <3>2. CASE k # n
      <4>1. /\ sessions'[k] = sessions[k] /\ sessions[k] \in Sessions
            /\ sessions[k] # sessions[n]
        BY <1>0, <2>1, <3>2 DEF TypeOK, TableInv, RegisteredLive
      <4> QED BY <1>0, <2>1, <2>2, <2>3, <4>1 DEF TypeOK, TableInv, RegisteredLive
    <3> QED BY <3>1, <3>2
  <2>5. OpenRegistered'
    <3> SUFFICES ASSUME NEW t \in Sessions,
                        pc'[t] \in {"replay", "loop", "unreg"}, ~closed'[t]
                 PROVE sessions'[SessNode[t]] = t
      BY DEF OpenRegistered
    <3>1. CASE t = s
      BY <1>0, <2>1, <3>1 DEF TypeOK
    <3>2. CASE t # s
      <4>1. sessions[SessNode[t]] = t /\ t # sessions[n]
        BY <1>0, <2>1, <2>2, <3>2, ZenonT(30) DEF TypeOK, TableInv, OpenRegistered
      <4> QED BY <1>0, <2>1, <4>1 DEF TypeOK
    <3> QED BY <3>1, <3>2
  <2>6. UnregisteredOpen'
    <3> SUFFICES ASSUME NEW t \in Sessions, pc'[t] \in {"none", "hello"}
                 PROVE ~closed'[t]
      BY DEF UnregisteredOpen
    <3>1. t # s /\ pc[t] \in {"none", "hello"}
      BY <1>0, <2>1, ZenonT(30) DEF TypeOK
    <3>2. t # sessions[n]
      BY <2>0, <3>1, ZenonT(30) DEF TableInv, RegisteredLive
    <3> QED BY <2>2, <3>1, <3>2 DEF TableInv, UnregisteredOpen
  <2> QED BY <1>0, <2>1, <2>4, <2>5, <2>6 DEF TableInv, NoSendOnClosed, PendSafe
<1>8. ASSUME NEW s \in Sessions, NEW p \in Pods, ReplayDelta(s, p) PROVE TableInv'
  <2>1. /\ pc[s] = "replay" /\ UNCHANGED <<sessions, pc, closed, panicked, engine>>
        /\ pend' = EnqueueCheck(s, Delta(p, lastSpec[p], generation[p]))
    BY <1>8 DEF ReplayDelta
  <2>2. pend' # NoPend => pend'.sess = s /\ ~closed[s]
    BY <2>1 DEF EnqueueCheck
  <2>3. ~closed[s] => sessions[SessNode[s]] = s
    BY <2>1 DEF TableInv, OpenRegistered
  <2>4. PendSafe'
    BY <2>1, <2>2, <2>3 DEF PendSafe, LockFree
  <2> QED BY <1>0, <2>1, <2>4
    DEF TableInv, NoSendOnClosed, RegisteredLive, OpenRegistered, UnregisteredOpen
<1>9. ASSUME NEW s \in Sessions, RegisterDone(s) PROVE TableInv'
  <2>1. /\ pc[s] = "replay" /\ pend = NoPend /\ UNCHANGED <<sessions, closed, pend, panicked>>
        /\ pc' = [pc EXCEPT ![s] = "loop"]
    BY <1>9 DEF RegisterDone
  <2>2. /\ \A t \in Sessions : pc'[t] = IF t = s THEN "loop" ELSE pc[t]
        /\ \A k \in Nodes : sessions[k] \in Sessions \cup {NoSession}
    BY <1>0, <2>1, ZenonT(30) DEF TypeOK
  <2>3. RegisteredLive'
    BY <2>1, <2>2, SMTT(30) DEF TableInv, RegisteredLive
  <2>4. OpenRegistered' /\ UnregisteredOpen'
    BY <2>1, <2>2 DEF TableInv, OpenRegistered, UnregisteredOpen
  <2>5. PendSafe'
    BY <2>1, <2>2 DEF TableInv, PendSafe, LockFree
  <2> QED BY <1>0, <2>1, <2>3, <2>4, <2>5 DEF TableInv, NoSendOnClosed
<1>10. ASSUME NEW s \in Sessions, HandlerAbort(s) PROVE TableInv'
  <2>1. /\ pc[s] = "hello" /\ UNCHANGED engine /\ UNCHANGED <<sessions, closed, pend, panicked>>
        /\ pc' = [pc EXCEPT ![s] = "done"]
    BY <1>10 DEF HandlerAbort
  <2>2. /\ \A t \in Sessions : pc'[t] = IF t = s THEN "done" ELSE pc[t]
        /\ \A k \in Nodes : sessions[k] \in Sessions \cup {NoSession}
    BY <1>0, <2>1, ZenonT(30) DEF TypeOK
  <2>3. RegisteredLive'
    BY <2>1, <2>2, SMTT(30) DEF TableInv, RegisteredLive
  <2>4. OpenRegistered' /\ UnregisteredOpen'
    BY <2>1, <2>2 DEF TableInv, OpenRegistered, UnregisteredOpen
  <2>5. PendSafe'
    BY <2>1, <2>2 DEF TableInv, PendSafe, LockFree
  <2> QED BY <1>0, <2>1, <2>3, <2>4, <2>5 DEF TableInv, NoSendOnClosed
<1>11. ASSUME NEW s \in Sessions, SenderStep(s) PROVE TableInv'
  BY <1>0, <1>11, TableFrame DEF SenderStep, SenderSend, SenderExit
<1>12. ASSUME NEW s \in Sessions, HandlerStatus(s) \/ HandlerReturn(s) PROVE TableInv'
  <2>1. /\ pc[s] = "loop" /\ (pc' = pc \/ pc' = [pc EXCEPT ![s] = "unreg"])
        /\ UNCHANGED <<sessions, closed, pend, panicked, engine>>
    BY <1>12 DEF HandlerStatus, HandlerReturn
  <2>2. CASE pc' = pc
    BY <1>0, <2>1, <2>2, TableFrame
  <2>3. CASE pc' = [pc EXCEPT ![s] = "unreg"]
    <3>1. \A t \in Sessions : pc'[t] = IF t = s THEN "unreg" ELSE pc[t]
      BY <1>0, <2>3, ZenonT(30) DEF TypeOK
    <3>2. RegisteredLive' /\ OpenRegistered' /\ UnregisteredOpen'
      BY <1>0, <2>1, <3>1, SMTT(30) DEF TableInv, RegisteredLive, OpenRegistered,
                              UnregisteredOpen, TypeOK
    <3>3. PendSafe'
      BY <2>1, <3>1 DEF TableInv, PendSafe, LockFree
    <3> QED BY <1>0, <2>1, <3>2, <3>3 DEF TableInv, NoSendOnClosed
  <2> QED BY <2>1, <2>2, <2>3, ZenonT(30)
<1>13. ASSUME NEW s \in Sessions, UnregisterSession(s) PROVE TableInv'
  <2> DEFINE n == SessNode[s]
  <2>1. /\ pc[s] = "unreg" /\ pend = NoPend /\ UNCHANGED <<pend, panicked, closed>>
        /\ pc' = [pc EXCEPT ![s] = "close"]
        /\ \A k \in Nodes : sessions'[k] =
               IF k = n /\ sessions[n] = s THEN NoSession ELSE sessions[k]
    BY <1>0, <1>13 DEF UnregisterSession, TableInv, PendSafe, TypeOK
  <2>2. \A k \in Nodes : sessions[k] = s => k = n
    BY <1>0, ZenonT(30) DEF TableInv, RegisteredLive
  <2>3. RegisteredLive'
    BY <1>0, <2>1, <2>2, SMTT(30) DEF TableInv, RegisteredLive, TypeOK
  <2>4. OpenRegistered' /\ UnregisteredOpen'
    BY <1>0, <2>1, ZenonT(30) DEF TableInv, OpenRegistered, UnregisteredOpen, TypeOK
  <2> QED BY <1>0, <2>1, <2>3, <2>4, ZenonT(30) DEF TableInv, NoSendOnClosed, PendSafe
<1>14. ASSUME NEW s \in Sessions, CloseSession(s) PROVE TableInv'
  <2>1. /\ pc[s] = "close" /\ UNCHANGED <<pend, panicked, sessions, engine>>
        /\ pc' = [pc EXCEPT ![s] = "done"]
        /\ \A t \in Sessions : closed'[t] = (closed[t] \/ t = s)
    BY <1>0, <1>14, ZenonT(30) DEF CloseSession, TypeOK
  <2>2. \A k \in Nodes : sessions[k] # s
    BY <2>1 DEF TableInv, RegisteredLive
  <2>3. RegisteredLive'
    BY <1>0, <2>1, <2>2, SMTT(30) DEF TableInv, RegisteredLive, TypeOK
  <2>4. OpenRegistered' /\ UnregisteredOpen'
    BY <1>0, <2>1, ZenonT(30) DEF TableInv, OpenRegistered, UnregisteredOpen, TypeOK
  <2>5. PendSafe'
    <3> SUFFICES ASSUME pend # NoPend
                 PROVE /\ ~LockFree' /\ sessions[SessNode[pend.sess]] = pend.sess
                       /\ ~closed'[pend.sess]
      BY <2>1, ZenonT(30) DEF PendSafe
    <3>1. pend.sess \in Sessions /\ pend.sess # s
      BY <1>0, <2>2, ZenonT(30) DEF TypeOK, Pends, TableInv, PendSafe
    <3>2. ~LockFree'
      BY <1>0, <2>1, ZenonT(30) DEF TableInv, PendSafe, LockFree, TypeOK
    <3> QED BY <2>1, <3>1, <3>2, ZenonT(30) DEF TableInv, PendSafe
  <2> QED BY <1>0, <2>1, <2>3, <2>4, <2>5, ZenonT(30) DEF TableInv, NoSendOnClosed
<1>15. CASE Failover
  <2>1. /\ \A k \in Nodes : sessions'[k] = NoSession
        /\ pend' = NoPend /\ UNCHANGED panicked
        /\ \A t \in Sessions : /\ closed'[t] = (pc[t] # "none")
                               /\ pc'[t] \in {"none", "done"}
                               /\ pc'[t] = "none" => pc[t] = "none"
    BY <1>0, <1>15 DEF Failover, TypeOK
  <2> QED BY <1>0, <2>1, ZenonT(30)
    DEF TableInv, NoSendOnClosed, RegisteredLive, OpenRegistered,
        UnregisteredOpen, PendSafe
<1>16. ASSUME NEW s \in Sessions, AgentDial(s) PROVE TableInv'
  <2>1. /\ pc[s] = "none" /\ UNCHANGED engine /\ UNCHANGED <<sessions, closed, pend, panicked>>
        /\ pc' = [pc EXCEPT ![s] = "hello"]
    BY <1>16, ZenonT(30) DEF AgentDial, CanRedial, Unused
  <2>2. /\ \A t \in Sessions : pc'[t] = IF t = s THEN "hello" ELSE pc[t]
        /\ \A k \in Nodes : sessions[k] \in Sessions \cup {NoSession}
    BY <1>0, <2>1 DEF TypeOK
  <2>3. RegisteredLive'
    BY <2>1, <2>2, SMTT(30) DEF TableInv, RegisteredLive
  <2>4. OpenRegistered' /\ UnregisteredOpen'
    BY <2>1, <2>2, SMTT(30) DEF TableInv, OpenRegistered, UnregisteredOpen
  <2>5. PendSafe'
    BY <2>1, <2>2, ZenonT(30) DEF TableInv, PendSafe, LockFree
  <2> QED BY <1>0, <2>1, <2>3, <2>4, <2>5 DEF TableInv, NoSendOnClosed
<1>17. ASSUME NEW n \in Nodes, AgentStep(n) \/ AgentDrop(n) \/ AgentRestart(n)
       PROVE TableInv'
  BY <1>0, <1>17, TableFrame
  DEF AgentStep, AgentHandle, AgentRecvEnd, AgentDrop, AgentRestart
<1>18. CASE UNCHANGED vars
  BY <1>0, <1>18, TableFrame DEF vars
<1> QED
  BY <1>1, <1>2, <1>3, <1>4, <1>5, <1>6, <1>7, <1>8, <1>9, <1>10, <1>11, <1>12,
     <1>13, <1>14, <1>15, <1>16, <1>17, <1>18
  DEF Next, EngineStep, HandlerStep

\* The table invariant holds in every reachable state.
THEOREM TableSafe == Spec => []TableInv
  BY TableInit, TableStep, PTL DEF Spec

\* The controller never sends on a closed Session.out, for any number of nodes,
\* pods and streams: the deferred UnregisterSession before close() and the
\* enqueues under d.mu suffice although enqueue sends outside s.mu.
THEOREM NeverSendsOnClosed == Spec => []NoSendOnClosed
<1>1. TableInv => NoSendOnClosed
  BY DEF TableInv
<1> QED BY <1>1, TableSafe, PTL

\* A handler in its receive loop is registered exactly while its session is open.
THEOREM RegisteredIffOpen == Spec => []OpenIffRegistered
<1>1. TableInv => OpenIffRegistered
  BY SessNodeAssumption, NoneAssumption
  DEF TableInv, TypeOK, RegisteredLive, OpenRegistered, OpenIffRegistered
<1> QED BY <1>1, TableSafe, PTL
=============================================================================
