--------------------------- MODULE PipelineProofs ---------------------------
(***************************************************************************)
(* For every set of nodes, pods, specs and streams and every capacity: the *)
(* Dispatcher agrees with what each agent will have consumed.              *)
(***************************************************************************)
EXTENDS ControlPlaneProofs

(* The pipeline.  PipelineAgrees needs to know that a stream is empty until *)
(* it registers, that it carries deltas of its own node only, and that one  *)
(* session is replayed at a time.                                           *)

\* The positions of the deltas of p.
Mine(q, p) == {i \in 1..Len(q) : q[i].pod = p}

\* An agent that believes a of p, and consumes q, has v of generation g; or v
\* is NoSpec and q does not mention p.
Agrees(q, p, a, v, g) ==
    IF Mine(q, p) = {} THEN v \in {a, NoSpec}
    ELSE \E i \in Mine(q, p) : /\ \A j \in Mine(q, p) : j <= i
                               /\ q[i].spec = v /\ q[i].gen = g

\* The agent of n consumes the registered stream, on which p was not dropped.
Due(n, p) ==
    /\ sessions[n] # NoSession /\ conn[n] = sessions[n] /\ ~broken[sessions[n]]
    /\ Undropped(sessions[n], p)

Believes(n, p) ==
    Agrees(InFlight(sessions[n]), p, allowed[p], lastSpec[p], generation[p])

Owned(q, s) == \A i \in 1..Len(q) : NodeOf[q[i].pod] = SessNode[s]

StreamInv ==
    /\ \A n \in Nodes : conn[n] # NoSession => SessNode[conn[n]] = n
    /\ \A s \in Sessions : pc[s] \in {"none", "hello"} => net[s] = <<>> /\ out[s] = <<>>
    /\ \A s \in Sessions : Owned(net[s], s) /\ Owned(out[s], s)
    /\ pend # NoPend => NodeOf[pend.msg.pod] = SessNode[pend.sess]
    /\ \A s \in Sessions : pc[s] = "replay" => \A p \in todo : NodeOf[p] = SessNode[s]
    /\ \A s, t \in Sessions : pc[s] = "replay" /\ pc[t] = "replay" => s = t

-----------------------------------------------------------------------------
\* The sender moves the head of the queue to the stream.
LEMMA SendShift ==
    ASSUME NEW S, NEW a \in Seq(S), NEW b \in Seq(S), b # <<>>
    PROVE  Append(a, Head(b)) \o Tail(b) = a \o b
<1>1. /\ Head(b) \in S /\ Tail(b) \in Seq(S) /\ Len(Tail(b)) = Len(b) - 1
      /\ \A i \in 1..Len(Tail(b)) : Tail(b)[i] = b[i + 1]
  BY HeadTailProperties
<1>2. /\ Append(a, Head(b)) \in Seq(S) /\ Len(Append(a, Head(b))) = Len(a) + 1
      /\ \A i \in 1..Len(a) : Append(a, Head(b))[i] = a[i]
      /\ Append(a, Head(b))[Len(a) + 1] = Head(b)
  BY <1>1, AppendProperties
<1>3. Len(a) \in Nat /\ Len(b) \in Nat /\ Len(b) # 0 /\ Head(b) = b[1]
  BY LenProperties, EmptySeq
<1> DEFINE x == Append(a, Head(b))
           y == Tail(b)
           l == x \o y
           r == a \o b
<1>4. /\ l \in Seq(S) /\ Len(l) = Len(x) + Len(y)
      /\ \A i \in 1..Len(x) + Len(y) : l[i] = IF i <= Len(x) THEN x[i] ELSE y[i - Len(x)]
  BY <1>1, <1>2, ConcatProperties
<1>5. /\ r \in Seq(S) /\ Len(r) = Len(a) + Len(b)
      /\ \A i \in 1..Len(a) + Len(b) : r[i] = IF i <= Len(a) THEN a[i] ELSE b[i - Len(a)]
  BY ConcatProperties
<1> HIDE DEF x, y, l, r
<1>6. Len(x) = Len(a) + 1 /\ Len(y) = Len(b) - 1 /\ x[Len(a) + 1] = b[1]
      /\ (\A i \in 1..Len(a) : x[i] = a[i]) /\ \A i \in 1..Len(y) : y[i] = b[i + 1]
  BY <1>1, <1>2, <1>3 DEF x, y
<1>7. Len(l) = Len(r)
  BY <1>3, <1>4, <1>5, <1>6
<1>8. ASSUME NEW i \in 1..Len(l) PROVE l[i] = r[i]
  <2>0. i \in 1..Len(a) + Len(b) /\ i \in 1..Len(x) + Len(y)
    BY <1>4, <1>5, <1>7
  <2>1. CASE i <= Len(a)
    <3>1. i \in 1..Len(a) /\ i <= Len(x)
      BY <1>3, <1>6, <2>0, <2>1
    <3>2. l[i] = x[i] /\ r[i] = a[i]
      BY <1>4, <1>5, <2>0, <2>1, <3>1
    <3> QED BY <1>6, <3>1, <3>2
  <2>2. CASE i = Len(a) + 1
    BY <1>3, <1>4, <1>5, <1>6, <1>7, <2>2
  <2>3. CASE i > Len(a) + 1
    <3>0. Len(x) \in Nat /\ Len(y) \in Nat /\ i \in Nat /\ i > Len(x)
      BY <1>3, <1>6, <2>0, <2>3
    <3>1. PICK k \in 1..Len(y) : k = i - Len(x) /\ k + 1 = i - Len(a)
      <4>1. i - Len(x) \in 1..Len(y)
        BY <2>0, <3>0
      <4>2. (i - Len(x)) + 1 = i - Len(a)
        BY <1>3, <1>6, <3>0
      <4> QED BY <4>1, <4>2, ZenonT(30)
    <3>2. l[i] = y[k] /\ r[i] = b[k + 1]
      BY <1>3, <1>4, <1>5, <1>6, <1>7, <2>3, <3>1
    <3> QED BY <1>6, <3>1, <3>2
  <2> QED BY <1>3, <2>1, <2>2, <2>3
<1>9. l = r
  BY <1>4, <1>5, <1>7, <1>8, SeqEqual
<1> QED BY <1>9, ZenonT(30) DEF l, r, x, y

\* A message that was pending is in the queue.
LEMMA EnqueueShift ==
    ASSUME NEW S, NEW a \in Seq(S), NEW b \in Seq(S), NEW m \in S
    PROVE  (a \o Append(b, m)) \o <<>> = (a \o b) \o <<m>>
<1>1. Append(b, m) \in Seq(S) /\ Append(b, m) = b \o <<m>> /\ <<m>> \in Seq(S)
  BY AppendProperties, AppendIsConcat
<1>2. (a \o b) \o <<m>> = a \o (b \o <<m>>)
  BY <1>1, ConcatAssociative
<1>3. a \o Append(b, m) \in Seq(S)
  BY <1>1, ConcatProperties
<1>4. (a \o Append(b, m)) \o <<>> = a \o Append(b, m)
  BY <1>3, ConcatEmptySeq
<1> QED BY <1>1, <1>2, <1>4

\* The head of a concatenation is consumed.
LEMMA ConsumeShift ==
    ASSUME NEW S, NEW a \in Seq(S), NEW b \in Seq(S), a # <<>>
    PROVE  Tail(a) \o b = Tail(a \o b) /\ (a \o b)[1] = Head(a) /\ a \o b # <<>>
<1>1. /\ Tail(a) \in Seq(S) /\ Len(Tail(a)) = Len(a) - 1
      /\ \A i \in 1..Len(Tail(a)) : Tail(a)[i] = a[i + 1]
  BY HeadTailProperties
<1>2. Len(a) \in Nat /\ Len(b) \in Nat /\ Len(a) # 0 /\ Head(a) = a[1]
  BY LenProperties, EmptySeq
<1> DEFINE x == Tail(a)
           r == a \o b
           l == x \o b
           t == Tail(r)
<1>3. /\ l \in Seq(S) /\ Len(l) = Len(x) + Len(b)
      /\ \A i \in 1..Len(x) + Len(b) : l[i] = IF i <= Len(x) THEN x[i] ELSE b[i - Len(x)]
  BY <1>1, ConcatProperties
<1>4. /\ r \in Seq(S) /\ Len(r) = Len(a) + Len(b)
      /\ \A i \in 1..Len(a) + Len(b) : r[i] = IF i <= Len(a) THEN a[i] ELSE b[i - Len(a)]
  BY ConcatProperties
<1>5. r # <<>>
  BY <1>2, <1>4, EmptySeq
<1>6. /\ t \in Seq(S) /\ Len(t) = Len(r) - 1 /\ \A i \in 1..Len(t) : t[i] = r[i + 1]
  BY <1>4, <1>5, HeadTailProperties
<1> HIDE DEF x, r, l, t
<1>7. Len(x) = Len(a) - 1 /\ \A i \in 1..Len(x) : x[i] = a[i + 1]
  BY <1>1 DEF x
<1>8. Len(l) = Len(t)
  BY <1>2, <1>3, <1>4, <1>6, <1>7
<1>9. ASSUME NEW i \in 1..Len(l) PROVE l[i] = t[i]
  <2>1. i \in Nat /\ i + 1 \in 1..Len(a) + Len(b) /\ t[i] = r[i + 1]
    BY <1>2, <1>3, <1>4, <1>6, <1>7, <1>8, SMTT(30)
  <2>2. CASE i <= Len(x)
    BY <1>2, <1>3, <1>4, <1>7, <2>1, <2>2
  <2>3. CASE ~(i <= Len(x))
    <3>1. i - Len(x) = (i + 1) - Len(a)
      BY <1>2, <1>7
    <3> QED BY <1>2, <1>3, <1>4, <1>7, <2>1, <2>3, <3>1
  <2> QED BY <2>2, <2>3
<1>10. l = t
  BY <1>3, <1>6, <1>8, <1>9, SeqEqual
<1>11. r[1] = Head(a)
  BY <1>2, <1>4
<1> QED BY <1>5, <1>10, <1>11 DEF l, t, r, x

-----------------------------------------------------------------------------
\* A delta of another pod, at the end, is of no consequence.
LEMMA OtherDelta ==
    ASSUME NEW q \in Seq(Msgs), NEW m \in Msgs, NEW p, NEW a, NEW v, NEW g, m.pod # p
    PROVE  Agrees(q \o <<m>>, p, a, v, g) <=> Agrees(q, p, a, v, g)
<1>1. Append(q, m) = q \o <<m>>
  BY AppendIsConcat
<1> DEFINE r == Append(q, m)
<1>2. /\ r \in Seq(Msgs) /\ Len(r) = Len(q) + 1 /\ Len(q) \in Nat
      /\ \A i \in 1..Len(q) : r[i] = q[i]
      /\ r[Len(q) + 1] = m
  BY AppendProperties, LenProperties
<1> HIDE DEF r
<1>3. Mine(r, p) = Mine(q, p)
  BY <1>2 DEF Mine
<1>4. \A i \in Mine(q, p) : r[i] = q[i]
  BY <1>2 DEF Mine
<1>5. Agrees(r, p, a, v, g) <=> Agrees(q, p, a, v, g)
  BY <1>3, <1>4, Zenon DEF Agrees
<1> QED BY <1>1, <1>5 DEF r

\* A delta of the pod, at the end, is what the agent will believe.
LEMMA OwnDelta ==
    ASSUME NEW q \in Seq(Msgs), NEW m \in Msgs, NEW p, NEW a, m.pod = p
    PROVE  Agrees(q \o <<m>>, p, a, m.spec, m.gen)
<1>1. Append(q, m) = q \o <<m>>
  BY AppendIsConcat
<1> DEFINE r == Append(q, m)
           k == Len(q) + 1
<1>2. Len(r) = k /\ k \in Nat /\ k \in 1..k /\ r[k] = m
  BY AppendProperties, LenProperties
<1> HIDE DEF r, k
<1>3. k \in Mine(r, p) /\ \A j \in Mine(r, p) : j <= k
  BY <1>2 DEF Mine
<1>4. Agrees(r, p, a, m.spec, m.gen)
  BY <1>2, <1>3, Zenon DEF Agrees
<1> QED BY <1>1, <1>4 DEF r

\* The agent consumes the first delta.
LEMMA ConsumedDelta ==
    ASSUME NEW q \in Seq(Msgs), q # <<>>, NEW p, NEW a, NEW b, NEW v, NEW g,
           Agrees(q, p, a, v, g),
           b = IF q[1].pod = p THEN q[1].spec ELSE a
    PROVE  Agrees(Tail(q), p, b, v, g)
<1> DEFINE t == Tail(q)
<1>1. /\ t \in Seq(Msgs) /\ Len(t) = Len(q) - 1 /\ Len(q) \in Nat /\ Len(q) # 0
      /\ \A i \in 1..Len(t) : t[i] = q[i + 1]
  BY HeadTailProperties, LenProperties, EmptySeq
<1> HIDE DEF t
<1>2. \A i \in 1..Len(t) : i + 1 \in 1..Len(q)
  BY <1>1
<1>3. \A i \in Mine(t, p) : i + 1 \in Mine(q, p) /\ i \in Nat
  BY <1>1, <1>2 DEF Mine
<1>4. ASSUME NEW i \in Mine(q, p), i # 1 PROVE i - 1 \in Mine(t, p) /\ i \in Nat
  <2>1. i \in 1..Len(q) /\ q[i].pod = p
    BY DEF Mine
  <2>2. i - 1 \in 1..Len(t) /\ t[i - 1] = q[i]
    BY <1>1, <1>4, <2>1
  <2> QED BY <2>1, <2>2 DEF Mine
<1>5. CASE Mine(t, p) = {}
  <2>1. Mine(q, p) \subseteq {1}
    BY <1>4, <1>5
  <2>2. CASE q[1].pod = p
    <3>1. 1 \in Mine(q, p)
      BY <1>1, <2>2 DEF Mine
    <3>2. q[1].spec = v
      BY <2>1, <3>1 DEF Agrees
    <3> QED BY <1>5, <2>2, <3>2 DEF Agrees, t
  <2>3. CASE q[1].pod # p
    <3>1. Mine(q, p) = {}
      BY <2>1, <2>3 DEF Mine
    <3> QED BY <1>5, <2>3, <3>1 DEF Agrees, t
  <2> QED BY <2>2, <2>3
<1>6. CASE Mine(t, p) # {}
  <2>1. Mine(q, p) # {}
    BY <1>3, <1>6
  <2>2. PICK i \in Mine(q, p) : /\ \A j \in Mine(q, p) : j <= i
                                /\ q[i].spec = v /\ q[i].gen = g
    BY <2>1 DEF Agrees
  <2>3. i \in Nat /\ i > 1
    <3>1. PICK k \in Mine(t, p) : TRUE
      BY <1>6
    <3>2. k \in 1..Len(t) /\ k + 1 <= i /\ i \in 1..Len(q)
      BY <1>3, <2>2, <3>1 DEF Mine
    <3> QED BY <1>1, <3>2
  <2>4. i - 1 \in Mine(t, p) /\ t[i - 1] = q[i]
    <3>1. i - 1 \in Mine(t, p)
      BY <1>4, <2>3
    <3>2. i - 1 \in 1..Len(t)
      BY <3>1 DEF Mine
    <3> QED BY <1>1, <2>3, <3>1, <3>2
  <2>5. ASSUME NEW j \in Mine(t, p) PROVE j <= i - 1
    BY <1>3, <2>2, <2>3
  <2> QED BY <1>6, <2>2, <2>4, <2>5, ZenonT(30) DEF Agrees, t
<1> QED BY <1>5, <1>6

-----------------------------------------------------------------------------
\* PipelineAgrees, pod by pod.
LEMMA PipelineIsBelief ==
    PipelineAgrees <=> \A n \in Nodes : \A p \in PodsOf(n) : Due(n, p) => Believes(n, p)
  BY ZenonT(30) DEF PipelineAgrees, Due, Believes, Agrees, Mine

\* The message in enqueue, as a sequence.
Waiting(s) == IF pend # NoPend /\ pend.sess = s THEN <<pend.msg>> ELSE <<>>

\* The parts of a pipeline are sequences of deltas.
LEMMA PipelineParts ==
    ASSUME TypeOK, NEW s \in Sessions
    PROVE  /\ net[s] \in Seq(Msgs) /\ out[s] \in Seq(Msgs) /\ Waiting(s) \in Seq(Msgs)
           /\ net[s] \o out[s] \in Seq(Msgs) /\ InFlight(s) \in Seq(Msgs)
           /\ InFlight(s) = (net[s] \o out[s]) \o Waiting(s)
           /\ Waiting(s) = <<>> => InFlight(s) = net[s] \o out[s]
<1>1. net[s] \in Seq(Msgs) /\ out[s] \in Seq(Msgs)
  BY DEF TypeOK
<1>2. Waiting(s) \in Seq(Msgs)
  <2>1. CASE pend # NoPend /\ pend.sess = s
    <3>1. pend.msg \in Msgs
      BY <2>1 DEF TypeOK, Pends
    <3> QED BY <2>1, <3>1 DEF Waiting
  <2>2. CASE ~(pend # NoPend /\ pend.sess = s)
    BY <2>2, EmptySeq DEF Waiting
  <2> QED BY <2>1, <2>2
<1>3. net[s] \o out[s] \in Seq(Msgs)
  BY <1>1, ConcatProperties
<1>4. (net[s] \o out[s]) \o Waiting(s) \in Seq(Msgs)
  BY <1>2, <1>3, ConcatProperties
<1>5. InFlight(s) = (net[s] \o out[s]) \o Waiting(s)
  BY DEF InFlight, Waiting
<1>6. (net[s] \o out[s]) \o <<>> = net[s] \o out[s]
  BY <1>3, ConcatEmptySeq, ZenonT(30)
<1> QED BY <1>1, <1>2, <1>3, <1>4, <1>5, <1>6, ZenonT(30)

\* What a pod's pipeline was due before.
LEMMA WasDue ==
    ASSUME PipelineAgrees, NEW n \in Nodes, NEW p \in PodsOf(n), NEW s,
           Due(n, p)', sessions'[n] = s, sessions[n] = s,
           Undropped(s, p)' => Undropped(s, p), broken[s] => broken'[s],
           conn'[n] = s => conn[n] = s
    PROVE  Agrees(InFlight(s), p, allowed[p], lastSpec[p], generation[p])
<1>1. Due(n, p)
  BY ZenonT(30) DEF Due
<1>2. Believes(n, p)
  BY <1>1, PipelineIsBelief, ZenonT(30)
<1> QED BY <1>2, ZenonT(30) DEF Believes

\* A pod's pipeline is left alone.
LEMMA PipelineFrame ==
    ASSUME PipelineAgrees, NEW n \in Nodes, NEW p \in PodsOf(n), NEW s,
           Due(n, p)', sessions'[n] = s, sessions[n] = s,
           Undropped(s, p)' => Undropped(s, p), broken[s] => broken'[s],
           conn'[n] = s => conn[n] = s,
           net'[s] = net[s], out'[s] = out[s], Waiting(s)' = Waiting(s),
           allowed'[p] = allowed[p], lastSpec'[p] = lastSpec[p],
           generation'[p] = generation[p]
    PROVE  Believes(n, p)'
<1>1. InFlight(s)' = InFlight(s)
  BY ZenonT(30) DEF InFlight, Waiting
<1>2. Agrees(InFlight(s), p, allowed[p], lastSpec[p], generation[p])
  BY WasDue, ZenonT(30)
<1> QED BY <1>1, <1>2, ZenonT(30) DEF Believes

\* A registered session is its node's.
LEMMA Registered ==
    ASSUME TableInv, NEW n \in Nodes, sessions[n] # NoSession
    PROVE  /\ sessions[n] \in Sessions /\ SessNode[sessions[n]] = n /\ ~closed[sessions[n]]
           /\ pc[sessions[n]] \in {"replay", "loop", "unreg"}
  BY SMTT(30) DEF TableInv, RegisteredLive, TypeOK

\* Steps that neither send nor receive a delta.
LEMMA QuietStep ==
    ASSUME TableInv, TypeOK', PipelineAgrees, NEW n \in Nodes, NEW p \in PodsOf(n), Due(n, p)',
           UNCHANGED <<net, out, pend, dropped, todo, allowed, lastSpec, generation>>,
           sessions'[n] # NoSession => sessions'[n] = sessions[n],
           \A s \in Sessions : pc[s] = "replay" => pc'[s] = "replay" \/ todo = {},
           \A s \in Sessions : broken[s] => broken'[s],
           conn'[n] # NoSession => conn'[n] = conn[n] \/ pc[conn'[n]] = "none"
    PROVE  Believes(n, p)'
<1>1. PICK s : s = sessions'[n]
  BY ZenonT(30)
<1>2. s # NoSession /\ sessions[n] = s
  BY <1>1, ZenonT(30) DEF Due
<1>3. s \in Sessions /\ pc[s] # "none"
  BY <1>2, Registered, ZenonT(30)
<1>4. conn'[n] = s => conn[n] = s
  BY <1>2, <1>3, ZenonT(30)
<1>5. Undropped(s, p)' => Undropped(s, p)
  BY <1>3 DEF Undropped
<1>6. Waiting(s)' = Waiting(s)
  BY DEF Waiting
<1> QED BY <1>1, <1>2, <1>3, <1>4, <1>5, <1>6, PipelineFrame, ZenonT(30)

\* RegisterSession: nothing is in flight, and what is not replayed is not covered.
LEMMA RegisterAgrees ==
    ASSUME TableInv, TypeOK', StreamInv, PipelineAgrees, NEW n \in Nodes, NEW p \in PodsOf(n),
           Due(n, p)', NEW t \in Sessions, RegisterSession(t)
    PROVE  Believes(n, p)'
<1>1. /\ pc[t] = "hello" /\ pend = NoPend /\ LockFree
      /\ sessions' = [sessions EXCEPT ![SessNode[t]] = t]
      /\ pc' = [pc EXCEPT ![t] = "replay"]
      /\ todo' = {q \in PodsOf(SessNode[t]) : lastSpec[q] # NoSpec}
      /\ UNCHANGED <<lastSpec, generation, pend, out, dropped, net, broken, conn, allowed>>
  BY ZenonT(30) DEF RegisterSession, TableInv, PendSafe, stream, agent
<1>2. SessNode[t] \in Nodes /\ sessions \in [Nodes -> Sessions \cup {NoSession}]
      /\ pc \in [Sessions -> {"none", "hello", "replay", "loop", "unreg", "close", "done"}]
  BY SessNodeAssumption, ZenonT(30) DEF TableInv, TypeOK
<1>3. CASE n = SessNode[t]
  <2>1. sessions'[n] = t /\ pc'[t] = "replay"
    BY <1>1, <1>2, <1>3, ZenonT(30)
  <2>2. p \notin todo'
    BY <2>1 DEF Due, Undropped
  <2>3. lastSpec'[p] = NoSpec
    BY <1>1, <1>3, <2>2, ZenonT(30)
  <2>4. net'[t] = <<>> /\ out'[t] = <<>> /\ Waiting(t)' = <<>>
    BY <1>1 DEF StreamInv, Waiting
  <2>5. InFlight(t)' = <<>>
    <3>1. <<>> \in Seq(Msgs) /\ <<>> \o <<>> = <<>>
      BY EmptySeq, ConcatEmptySeq
    <3> QED BY <2>4, <3>1 DEF InFlight, Waiting
  <2>6. ASSUME NEW q, q = <<>> PROVE Mine(q, p) = {}
    BY <2>6 DEF Mine
  <2>7. \A a, g : Agrees(<<>>, p, a, NoSpec, g)
    BY <2>6, ZenonT(30) DEF Agrees
  <2> QED BY <2>1, <2>3, <2>5, <2>7 DEF Believes
<1>4. CASE n # SessNode[t]
  <2>1. PICK s : s = sessions'[n]
    BY ZenonT(30)
  <2>2. sessions[n] = s /\ s # NoSession
    BY <1>1, <1>2, <1>4, <2>1, ZenonT(30) DEF Due
  <2>3. s \in Sessions /\ s # t /\ pc[s] # "replay"
    BY <1>1, <1>4, <2>2, Registered, ZenonT(30) DEF LockFree
  <2>4. Undropped(s, p)' => Undropped(s, p)
    BY <1>1, <2>3, ZenonT(30) DEF Undropped
  <2> QED BY <1>1, <2>1, <2>2, <2>4, PipelineFrame, ZenonT(30) DEF Waiting
<1> QED BY <1>3, <1>4, ZenonT(30)

\* A delta enters the pipeline of its pod's node with what the Dispatcher now
\* believes; the pipelines of other pods see a delta of another pod.
LEMMA DeltaAgrees ==
    ASSUME TableInv, TypeOK', PipelineAgrees, NEW n \in Nodes, NEW p \in PodsOf(n), Due(n, p)',
           NEW t, NEW m \in Msgs, pend = NoPend, pend' = EnqueueCheck(t, m),
           UNCHANGED <<net, out, closed, dropped, sessions, pc, broken, conn, allowed>>,
           p # m.pod => /\ lastSpec'[p] = lastSpec[p] /\ generation'[p] = generation[p]
                        /\ p \in todo => p \in todo',
           p = m.pod => sessions[n] = t /\ lastSpec'[p] = m.spec /\ generation'[p] = m.gen
    PROVE  Believes(n, p)'
<1>1. PICK s : s = sessions[n] /\ s = sessions'[n] /\ s # NoSession
  BY ZenonT(30) DEF Due
<1>2. s \in Sessions /\ ~closed[s]
  BY <1>1, Registered, ZenonT(30)
<1>3. TypeOK
  BY ZenonT(30) DEF TableInv
<1>4. Waiting(s) = <<>>
  BY ZenonT(30) DEF Waiting
<1>5. InFlight(s) = net[s] \o out[s] /\ net[s] \o out[s] \in Seq(Msgs)
  BY <1>2, <1>3, <1>4, PipelineParts, ZenonT(30)
<1>6. Undropped(s, p)' => p = m.pod \/ Undropped(s, p)
  BY <1>1 DEF Undropped
<1>7. CASE s = t
  <2>1. pend' = [sess |-> s, msg |-> m]
    BY <1>1, <1>2, <1>7, ZenonT(30) DEF EnqueueCheck
  <2>2. pend' # NoPend
    BY <1>2, <2>1, NoPendAssumption, SMTT(30) DEF Pends
  <2>6. pend'.sess = s /\ pend'.msg = m
    BY <2>1, SMTT(30)
  <2>7. Waiting(s)' = <<m>>
    BY <2>2, <2>6, ZenonT(30) DEF Waiting
  <2>8. InFlight(s)' = (net'[s] \o out'[s]) \o Waiting(s)'
    BY ZenonT(30) DEF InFlight, Waiting
  <2>3. InFlight(s)' = (net[s] \o out[s]) \o <<m>>
    BY <2>7, <2>8, ZenonT(30)
  <2>4. CASE p = m.pod
    <3>1. Agrees((net[s] \o out[s]) \o <<m>>, p, allowed[p], m.spec, m.gen)
      BY <1>5, <2>4, OwnDelta, ZenonT(30)
    <3> QED BY <1>1, <2>3, <2>4, <3>1, ZenonT(30) DEF Believes
  <2>5. CASE p # m.pod
    <3>1. Agrees(InFlight(s), p, allowed[p], lastSpec[p], generation[p])
      BY <1>1, <1>6, <2>5, WasDue, ZenonT(30)
    <3>2. Agrees((net[s] \o out[s]) \o <<m>>, p, allowed[p], lastSpec[p], generation[p])
      BY <1>5, <2>5, <3>1, OtherDelta, ZenonT(30)
    <3> QED BY <1>1, <2>3, <2>5, <3>2, ZenonT(30) DEF Believes
  <2> QED BY <2>4, <2>5, ZenonT(30)
<1>8. CASE s # t
  <2>1. p # m.pod
    BY <1>1, <1>8, ZenonT(30)
  <2>2. Waiting(s)' = <<>>
    BY <1>8, ZenonT(30) DEF Waiting, EnqueueCheck
  <2> QED BY <1>1, <1>4, <1>6, <2>1, <2>2, PipelineFrame, ZenonT(30)
<1> QED BY <1>7, <1>8, ZenonT(30)

\* Apply sends a delta.
LEMMA ApplyAgrees ==
    ASSUME TableInv, TypeOK', PipelineAgrees, NEW n \in Nodes, NEW p \in PodsOf(n), Due(n, p)',
           NEW r \in Pods, ApplyDelta(r)
    PROVE  Believes(n, p)'
<1>1. PICK m : m = Delta(r, snap[r], generation[r] + 1)
  OBVIOUS
<1>2. TypeOK
  BY ZenonT(30) DEF TableInv
<1>3. m \in Msgs /\ m.pod = r /\ m.spec = snap[r] /\ m.gen = generation[r] + 1
  BY <1>1, <1>2 DEF Delta, Msgs, TypeOK
<1>4. PICK t : t = sessions[NodeOf[r]]
  BY ZenonT(30)
<1>5. /\ pend = NoPend /\ pend' = EnqueueCheck(t, m)
      /\ UNCHANGED <<net, out, closed, dropped, sessions, pc, broken, conn, allowed, todo>>
      /\ generation' = [generation EXCEPT ![r] = m.gen]
      /\ lastSpec' = [lastSpec EXCEPT ![r] = m.spec]
  BY <1>1, <1>3, <1>4, ZenonT(30) DEF ApplyDelta, queue, server, stream, agent
<1>6. p \in Pods /\ NodeOf[p] = n
  BY DEF PodsOf
<1>7. p # r => lastSpec'[p] = lastSpec[p] /\ generation'[p] = generation[p]
  BY <1>2, <1>5, <1>6 DEF TypeOK
<1>8. p = r => sessions[n] = t /\ lastSpec'[p] = m.spec /\ generation'[p] = m.gen
  BY <1>2, <1>4, <1>5, <1>6 DEF TypeOK
<1> QED BY <1>3, <1>5, <1>7, <1>8, DeltaAgrees, ZenonT(30)

\* RegisterSession replays a spec.
LEMMA ReplayAgrees ==
    ASSUME TableInv, TypeOK', StreamInv, PipelineAgrees, NEW n \in Nodes, NEW p \in PodsOf(n),
           Due(n, p)', NEW t \in Sessions, NEW r \in Pods, ReplayDelta(t, r)
    PROVE  Believes(n, p)'
<1>1. PICK m : m = Delta(r, lastSpec[r], generation[r])
  OBVIOUS
<1>2. TypeOK
  BY ZenonT(30) DEF TableInv
<1>3. m \in Msgs /\ m.pod = r /\ m.spec = lastSpec[r] /\ m.gen = generation[r]
  BY <1>1, <1>2, ZenonT(30) DEF Delta, Msgs, TypeOK
<1>4. /\ pend = NoPend /\ pend' = EnqueueCheck(t, m) /\ pc[t] = "replay" /\ r \in todo
      /\ UNCHANGED <<net, out, closed, dropped, sessions, pc, broken, conn, allowed>>
      /\ UNCHANGED <<lastSpec, generation>> /\ todo' = todo \ {r}
  BY <1>1, ZenonT(30) DEF ReplayDelta, queue, server, stream, agent, disp
<1>5. PICK s : s = sessions[n] /\ s = sessions'[n] /\ s # NoSession
  BY <1>4, ZenonT(30) DEF Due
<1>6. s \in Sessions /\ SessNode[s] = n /\ NodeOf[p] = n /\ p \in Pods
  BY <1>5, Registered, ZenonT(30) DEF PodsOf
<1>7. CASE p # r \/ s = t
  BY <1>3, <1>4, <1>5, <1>7, DeltaAgrees, ZenonT(30)
<1>8. CASE p = r /\ s # t
  <2>1. pc[s] # "replay"
    BY <1>4, <1>6, <1>8, ZenonT(30) DEF StreamInv
  <2>2. Undropped(s, p)' => Undropped(s, p)
    BY <1>4, <2>1, ZenonT(30) DEF Undropped
  <2>3. Waiting(s)' = Waiting(s)
    BY <1>4, <1>8, ZenonT(30) DEF Waiting, EnqueueCheck
  <2> QED BY <1>4, <1>5, <2>2, <2>3, PipelineFrame, ZenonT(30)
<1> QED BY <1>7, <1>8, ZenonT(30)

\* The pending delta enters the queue or is dropped.
LEMMA EnqueueAgrees ==
    ASSUME TableInv, TypeOK', PipelineAgrees, NEW n \in Nodes, NEW p \in PodsOf(n), Due(n, p)',
           EnqueueSend
    PROVE  Believes(n, p)'
<1>1. TypeOK
  BY ZenonT(30) DEF TableInv
<1>2. PICK t \in Sessions, m \in Msgs : pend # NoPend /\ t = pend.sess /\ m = pend.msg /\ ~closed[t]
  BY <1>1, ZenonT(30) DEF TypeOK, Pends, EnqueueSend, TableInv, PendSafe
<1>3. /\ pend' = NoPend
      /\ UNCHANGED <<net, sessions, pc, broken, conn, allowed, todo, lastSpec, generation>>
  BY ZenonT(30) DEF EnqueueSend, server, stream, agent, disp
<1>4. PICK s : s = sessions[n] /\ s = sessions'[n] /\ s # NoSession
  BY <1>3, ZenonT(30) DEF Due
<1>5. s \in Sessions
  BY <1>4, Registered, ZenonT(30)
<1>6. Waiting(s)' = <<>> /\ (s # t => Waiting(s) = <<>>) /\ Waiting(t) = <<m>>
  BY <1>2, <1>3 DEF Waiting
<1>7. /\ net[s] \in Seq(Msgs) /\ out[s] \in Seq(Msgs) /\ net[s] \o out[s] \in Seq(Msgs)
      /\ InFlight(s) = (net[s] \o out[s]) \o Waiting(s)
  BY <1>1, <1>5, PipelineParts, ZenonT(30)
<1>8. InFlight(s)' = (net[s] \o out'[s]) \o <<>>
  BY <1>3 DEF InFlight
<1>9. CASE Len(out[t]) < OutCap
  <2>1. out' = [out EXCEPT ![t] = Append(out[t], m)] /\ dropped' = dropped
    BY <1>2, <1>9 DEF EnqueueSend
  <2>2. Undropped(s, p)' => Undropped(s, p)
    BY <1>3, <2>1, ZenonT(30) DEF Undropped
  <2>3. CASE s # t
    <3>1. out'[s] = out[s]
      BY <1>1, <1>5, <2>1, <2>3, ZenonT(30) DEF TypeOK
    <3> QED BY <1>3, <1>4, <1>6, <2>2, <2>3, <3>1, PipelineFrame, ZenonT(30)
  <2>4. CASE s = t
    <3>1. out'[s] = Append(out[s], m)
      BY <1>1, <1>5, <2>1, <2>4 DEF TypeOK
    <3>4. (net[s] \o Append(out[s], m)) \o <<>> = (net[s] \o out[s]) \o <<m>>
      <4>1. PICK a \in Seq(Msgs), c \in Seq(Msgs) : a = net[s] /\ c = out[s]
        BY <1>7, ZenonT(30)
      <4>2. (a \o Append(c, m)) \o <<>> = (a \o c) \o <<m>>
        BY EnqueueShift, SMT
      <4> QED BY <4>1, <4>2, Zenon
    <3>2. InFlight(s)' = InFlight(s)
      BY <1>6, <1>7, <1>8, <2>4, <3>1, <3>4, ZenonT(30)
    <3>3. Agrees(InFlight(s), p, allowed[p], lastSpec[p], generation[p])
      BY <1>3, <1>4, <2>2, WasDue, ZenonT(30)
    <3> QED BY <1>3, <1>4, <3>2, <3>3, ZenonT(30) DEF Believes
  <2> QED BY <2>3, <2>4
<1>10. CASE ~(Len(out[t]) < OutCap)
  <2>1. out' = out /\ dropped' = [dropped EXCEPT ![t] = @ \cup {m.pod}]
    BY <1>2, <1>10, ZenonT(30) DEF EnqueueSend
  <2>2. Undropped(s, p)' => Undropped(s, p) /\ (s = t => p # m.pod)
    BY <1>1, <1>2, <1>3, <1>5, <2>1, ZenonT(30) DEF Undropped, TypeOK
  <2>3. CASE s # t
    BY <1>3, <1>4, <1>6, <2>1, <2>2, <2>3, PipelineFrame, ZenonT(30)
  <2>4. CASE s = t
    <3>1. Agrees(InFlight(s), p, allowed[p], lastSpec[p], generation[p])
      BY <1>3, <1>4, <2>2, WasDue, ZenonT(30)
    <3>2. p # m.pod
      BY <1>4, <2>2, <2>4, ZenonT(30) DEF Due
    <3>3. InFlight(s) = (net[s] \o out[s]) \o <<m>>
      BY <1>6, <1>7, <2>4, ZenonT(30)
    <3>4. Agrees(net[s] \o out[s], p, allowed[p], lastSpec[p], generation[p])
      BY <1>7, <3>1, <3>2, <3>3, OtherDelta, ZenonT(30)
    <3>5. InFlight(s)' = net[s] \o out[s]
      BY <1>7, <1>8, <2>1, ConcatEmptySeq
    <3> QED BY <1>3, <1>4, <3>4, <3>5, ZenonT(30) DEF Believes
  <2> QED BY <2>3, <2>4, ZenonT(30)
<1> QED BY <1>9, <1>10

\* The sender puts a delta on the stream.
LEMMA SenderAgrees ==
    ASSUME TableInv, TypeOK', PipelineAgrees, NEW n \in Nodes, NEW p \in PodsOf(n), Due(n, p)',
           NEW t \in Sessions, SenderSend(t)
    PROVE  Believes(n, p)'
<1>1. TypeOK
  BY ZenonT(30) DEF TableInv
<1>2. /\ out[t] # <<>> /\ out' = [out EXCEPT ![t] = Tail(out[t])]
      /\ UNCHANGED <<pend, dropped, sessions, pc, broken, conn, allowed, todo, lastSpec, generation>>
  BY ZenonT(30) DEF SenderSend, agent, disp
<1>3. PICK s : s = sessions[n] /\ s = sessions'[n] /\ s # NoSession
  BY <1>2, ZenonT(30) DEF Due
<1>4. s \in Sessions /\ ~broken[s]
  BY <1>2, <1>3, Registered, ZenonT(30) DEF Due
<1>5. Waiting(s)' = Waiting(s) /\ (Undropped(s, p)' => Undropped(s, p))
  BY <1>2, ZenonT(30) DEF Waiting, Undropped
<1>6. CASE s # t
  <2>1. out'[s] = out[s] /\ net'[s] = net[s]
    BY <1>1, <1>2, <1>4, <1>6, ZenonT(30) DEF TypeOK, SenderSend
  <2> QED BY <1>2, <1>3, <1>5, <2>1, PipelineFrame, ZenonT(30)
<1>7. CASE s = t
  <2>1. net' = [net EXCEPT ![s] = Append(net[s], Head(out[s]))]
    BY <1>4, <1>7, ZenonT(30) DEF SenderSend
  <2>2. net'[s] = Append(net[s], Head(out[s])) /\ out'[s] = Tail(out[s])
    BY <1>1, <1>2, <1>4, <1>7, <2>1, ZenonT(30) DEF TypeOK
  <2>3. net[s] \in Seq(Msgs) /\ out[s] \in Seq(Msgs)
    BY <1>1, <1>4, PipelineParts, ZenonT(30)
  <2>4. net'[s] \o out'[s] = net[s] \o out[s]
    BY <1>2, <1>7, <2>2, <2>3, SendShift, ZenonT(30)
  <2>5. InFlight(s)' = InFlight(s)
    BY <1>5, <2>4, ZenonT(30) DEF InFlight, Waiting
  <2>6. Agrees(InFlight(s), p, allowed[p], lastSpec[p], generation[p])
    BY <1>2, <1>3, <1>5, WasDue, ZenonT(30)
  <2> QED BY <1>2, <1>3, <2>5, <2>6, ZenonT(30) DEF Believes
<1> QED BY <1>6, <1>7

\* What is consumed is the first of the sequence.
LEMMA HeadIsFirst ==
    ASSUME NEW S, NEW q \in Seq(S), q # <<>>
    PROVE  Head(q) \in S /\ Head(q) = q[1] /\ 1 \in 1..Len(q)
  BY SMT

\* The agent consumes a delta of its stream.
LEMMA HandleAgrees ==
    ASSUME TableInv, TypeOK', StreamInv, PipelineAgrees, NEW n \in Nodes, NEW p \in PodsOf(n),
           Due(n, p)', NEW k \in Nodes, AgentHandle(k)
    PROVE  Believes(n, p)'
<1>1. TypeOK
  BY ZenonT(30) DEF TableInv
<1>2. PICK t \in Sessions, m \in Msgs :
        /\ t = conn[k] /\ m = Head(net[t]) /\ net[t] # <<>> /\ SessNode[t] = k
        /\ NodeOf[m.pod] = k /\ m.pod \in Pods
  <2>0. conn[k] # NoSession /\ net[conn[k]] # <<>> /\ conn[k] \in Sessions \cup {NoSession}
    BY <1>1, ZenonT(30) DEF AgentHandle, TypeOK
  <2>1. conn[k] \in Sessions /\ SessNode[conn[k]] = k /\ net[conn[k]] # <<>>
    BY <2>0, ZenonT(30) DEF StreamInv
  <2>2. PICK t \in Sessions : t = conn[k]
    BY <2>1, ZenonT(30)
  <2>3. net[t] \in Seq(Msgs) /\ net[t] # <<>>
    BY <1>1, <2>1, <2>2, ZenonT(30) DEF TypeOK
  <2>4. Head(net[t]) \in Msgs /\ Head(net[t]) = net[t][1] /\ 1 \in 1..Len(net[t])
    BY <2>3, HeadIsFirst, ZenonT(30)
  <2>5. NodeOf[net[t][1].pod] = SessNode[t]
    BY <2>4, ZenonT(30) DEF StreamInv, Owned
  <2>6. Head(net[t]).pod \in Pods
    BY <2>4, ZenonT(30) DEF Msgs
  <2> QED BY <2>1, <2>2, <2>4, <2>5, <2>6, ZenonT(30)
<1>3. /\ net' = [net EXCEPT ![t] = Tail(net[t])] /\ allowed' = [allowed EXCEPT ![m.pod] = m.spec]
      /\ UNCHANGED <<out, pend, dropped, sessions, pc, broken, conn, todo, lastSpec, generation>>
  BY <1>2, ZenonT(30) DEF AgentHandle, queue, server, disp
<1>4. PICK s : s = sessions[n] /\ s = sessions'[n] /\ s # NoSession
  BY <1>3, ZenonT(30) DEF Due
<1>5. s \in Sessions /\ SessNode[s] = n /\ conn[n] = s /\ p \in Pods /\ NodeOf[p] = n
  BY <1>3, <1>4, Registered, ZenonT(30) DEF Due, PodsOf
<1>6. Waiting(s)' = Waiting(s) /\ (Undropped(s, p)' => Undropped(s, p))
  BY <1>3, ZenonT(30) DEF Waiting, Undropped
<1>7. allowed'[p] = IF m.pod = p THEN m.spec ELSE allowed[p]
  BY <1>1, <1>3, <1>5, ZenonT(30) DEF TypeOK
<1>8. CASE k # n
  <2>1. net'[s] = net[s] /\ allowed'[p] = allowed[p]
    BY <1>1, <1>2, <1>3, <1>5, <1>7, <1>8, ZenonT(30) DEF TypeOK
  <2> QED BY <1>3, <1>4, <1>6, <2>1, PipelineFrame, ZenonT(30)
<1>9. CASE k = n
  <2>1. t = s /\ net'[s] = Tail(net[s])
    BY <1>1, <1>2, <1>3, <1>5, <1>9, ZenonT(30) DEF TypeOK
  <2>2. Agrees(InFlight(s), p, allowed[p], lastSpec[p], generation[p])
    BY <1>3, <1>4, <1>6, WasDue, ZenonT(30)
  <2>3. PICK a \in Seq(Msgs), c \in Seq(Msgs), w \in Seq(Msgs) :
          /\ a = net[s] /\ c = out[s] /\ w = Waiting(s) /\ a # <<>> /\ Head(a) = m
          /\ a \o c \in Seq(Msgs) /\ InFlight(s) = (a \o c) \o w
    <3>1. /\ net[s] \in Seq(Msgs) /\ out[s] \in Seq(Msgs) /\ Waiting(s) \in Seq(Msgs)
          /\ net[s] \o out[s] \in Seq(Msgs)
          /\ InFlight(s) = (net[s] \o out[s]) \o Waiting(s)
      BY <1>1, <1>5, PipelineParts, ZenonT(30)
    <3>2. net[s] # <<>> /\ Head(net[s]) = m
      BY <1>2, <2>1, ZenonT(30)
    <3> QED BY <3>1, <3>2, Zenon
  <2>4. Tail(a) \o c = Tail(a \o c) /\ (a \o c)[1] = Head(a) /\ a \o c # <<>>
    BY <2>3, ConsumeShift, ZenonT(30)
  <2>5. PICK d \in Seq(Msgs) : d = a \o c /\ d # <<>> /\ d[1] = m /\ Tail(a) \o c = Tail(d)
    BY <2>3, <2>4, ZenonT(30)
  <2>6. Tail(d) \o w = Tail(d \o w) /\ (d \o w)[1] = Head(d) /\ d \o w # <<>>
    BY <2>5, ConsumeShift, ZenonT(30)
  <2>7. PICK q \in Seq(Msgs) : q = d \o w /\ q # <<>> /\ q[1] = m /\ Tail(d) \o w = Tail(q)
    <3>1. d \o w \in Seq(Msgs)
      BY ConcatProperties
    <3>2. Head(d) = d[1]
      BY SMTT(30)
    <3> QED BY <2>5, <2>6, <3>1, <3>2, ZenonT(30)
  <2>8. InFlight(s)' = Tail(q)
    <3>1. InFlight(s)' = (net'[s] \o out'[s]) \o Waiting(s)'
      BY DEF InFlight, Waiting
    <3> QED BY <1>3, <1>6, <2>1, <2>3, <2>5, <2>7, <3>1, ZenonT(30)
  <2>9. Agrees(q, p, allowed[p], lastSpec[p], generation[p])
    BY <2>2, <2>3, <2>5, <2>7, ZenonT(30)
  <2>10. Agrees(Tail(q), p, allowed'[p], lastSpec[p], generation[p])
    BY <1>7, <2>7, <2>9, ConsumedDelta, ZenonT(30)
  <2> QED BY <1>3, <1>4, <2>8, <2>10, ZenonT(30) DEF Believes
<1> QED BY <1>8, <1>9

\* A connection fails: the pipelines of the other nodes are left alone.
LEMMA DropAgrees ==
    ASSUME TableInv, TypeOK', StreamInv, PipelineAgrees, NEW n \in Nodes, NEW p \in PodsOf(n),
           Due(n, p)', NEW k \in Nodes, AgentDrop(k) \/ AgentRestart(k)
    PROVE  Believes(n, p)'
<1>1. TypeOK
  BY ZenonT(30) DEF TableInv
<1>2. /\ net' = [net EXCEPT ![conn[k]] = <<>>] /\ conn' = [conn EXCEPT ![k] = NoSession]
      /\ broken' = [broken EXCEPT ![conn[k]] = TRUE] /\ conn[k] # NoSession
      /\ UNCHANGED <<out, pend, dropped, sessions, pc, todo, lastSpec, generation>>
      /\ \A r \in Pods : NodeOf[r] # k => allowed'[r] = allowed[r]
  BY ZenonT(30) DEF AgentDrop, AgentRestart, queue, server, disp
<1>3. PICK s : s = sessions[n] /\ s = sessions'[n] /\ s # NoSession /\ conn'[n] = s
  BY <1>2, ZenonT(30) DEF Due
<1>4. s \in Sessions /\ SessNode[s] = n /\ p \in Pods /\ NodeOf[p] = n
  BY <1>3, Registered, ZenonT(30) DEF PodsOf
<1>5. k # n
  BY <1>1, <1>2, <1>3, ZenonT(30) DEF TypeOK
<1>6. conn[k] \in Sessions /\ conn[k] # s
  <2>1. conn[k] \in Sessions /\ conn[k] # NoSession
    BY <1>1, <1>2, ZenonT(30) DEF TypeOK
  <2>2. SessNode[conn[k]] = k
    BY <2>1, ZenonT(30) DEF StreamInv
  <2> QED BY <1>4, <1>5, <2>1, <2>2, ZenonT(30)
<1>7. net'[s] = net[s] /\ broken'[s] = broken[s] /\ conn'[n] = conn[n] /\ allowed'[p] = allowed[p]
  BY <1>1, <1>2, <1>4, <1>5, <1>6, ZenonT(30) DEF TypeOK
<1>8. Waiting(s)' = Waiting(s) /\ (Undropped(s, p)' => Undropped(s, p))
  BY <1>2, ZenonT(30) DEF Waiting, Undropped
<1> QED BY <1>2, <1>3, <1>7, <1>8, PipelineFrame, ZenonT(30)

-----------------------------------------------------------------------------
(* The steps that neither send nor receive a delta.                        *)
Quietly ==
    /\ UNCHANGED <<net, out, pend, dropped, todo, allowed, lastSpec, generation>>
    /\ \A n \in Nodes :
          /\ sessions'[n] # NoSession => sessions'[n] = sessions[n]
          /\ conn'[n] # NoSession =>
                \/ conn'[n] = conn[n]
                \/ conn'[n] \in Sessions /\ pc[conn'[n]] = "none" /\ SessNode[conn'[n]] = n
    /\ \A s \in Sessions :
          /\ pc[s] = "replay" => pc'[s] = "replay" \/ todo = {}
          /\ pc'[s] = "replay" => pc[s] = "replay"
          /\ pc'[s] \in {"none", "hello"} => pc[s] \in {"none", "hello"}
          /\ broken[s] => broken'[s]

\* The cluster changes, or the engine moves on.
LEMMA QuietEngine ==
    ASSUME \/ RecomputeList \/ ApplyLock \/ ApplyUnlock \/ UNCHANGED vars
           \/ \E p \in Pods, v \in MaybeSpec : ClusterChange(p, v)
    PROVE  Quietly
  BY ZenonT(30) DEF RecomputeList, ApplyLock, ApplyUnlock, vars, ClusterChange, Quietly,
         disp, queue, server, stream, agent

\* A handler or a sender moves on by itself.
LEMMA QuietActions ==
    ASSUME TypeOK, NEW s \in Sessions,
           \/ RegisterDone(s) \/ HandlerAbort(s) \/ SenderExit(s) \/ HandlerStatus(s)
           \/ HandlerReturn(s) \/ UnregisterSession(s) \/ CloseSession(s)
    PROVE  Quietly
<1> USE SessNodeAssumption DEF disp, queue, server, stream, agent
<1>2. CASE RegisterDone(s)
  BY <1>2, ZenonT(30) DEF RegisterDone, Quietly, TypeOK
<1>3. CASE HandlerAbort(s)
  BY <1>3, ZenonT(30) DEF HandlerAbort, Quietly, TypeOK
<1>4. CASE SenderExit(s)
  BY <1>4, ZenonT(30) DEF SenderExit, Quietly, TypeOK
<1>5. CASE HandlerStatus(s)
  BY <1>5, ZenonT(30) DEF HandlerStatus, Quietly, TypeOK
<1>6. CASE HandlerReturn(s)
  BY <1>6, ZenonT(30) DEF HandlerReturn, Quietly, TypeOK
<1>7. CASE UnregisterSession(s)
  BY <1>7, ZenonT(30) DEF UnregisterSession, Quietly, TypeOK
<1>8. CASE CloseSession(s)
  BY <1>8 DEF CloseSession, Quietly, TypeOK
<1> QED BY <1>2, <1>3, <1>4, <1>5, <1>6, <1>7, <1>8, ZenonT(30)

\* The agent opens a stream or sees one end.
LEMMA QuietAgent ==
    ASSUME TypeOK, \/ \E s \in Sessions : AgentDial(s)
                   \/ \E n \in Nodes : AgentRecvEnd(n)
    PROVE  Quietly
<1> USE SessNodeAssumption DEF disp, queue, server, stream, agent
<1>1. ASSUME NEW s \in Sessions, AgentDial(s) PROVE Quietly
  <2>1. s \in Unused(SessNode[s])
    BY <1>1, ZenonT(30) DEF AgentDial, CanRedial
  <2> QED BY <1>1, <2>1, ZenonT(30) DEF AgentDial, Unused, Quietly, TypeOK
<1>2. ASSUME NEW n \in Nodes, AgentRecvEnd(n) PROVE Quietly
  BY <1>2, ZenonT(30) DEF AgentRecvEnd, Quietly, TypeOK
<1> QED BY <1>1, <1>2, ZenonT(30)

\* Quiet steps leave every pipeline alone.
LEMMA QuietBelief ==
    ASSUME TableInv, TypeOK', PipelineAgrees, NEW n \in Nodes, NEW p \in PodsOf(n), Due(n, p)',
           Quietly
    PROVE  Believes(n, p)'
  BY QuietStep, ZenonT(30) DEF Quietly

\* Quiet steps keep the streams as they are.
LEMMA QuietStream ==
    ASSUME StreamInv, Quietly PROVE StreamInv'
<1>1. UNCHANGED <<net, out, pend, todo>>
  BY ZenonT(30) DEF Quietly
<1>2. \A n \in Nodes : conn'[n] # NoSession => conn'[n] = conn[n] \/ SessNode[conn'[n]] = n
  BY ZenonT(30) DEF Quietly
<1>3. \A s \in Sessions : /\ pc'[s] = "replay" => pc[s] = "replay"
                          /\ pc'[s] \in {"none", "hello"} => pc[s] \in {"none", "hello"}
  BY ZenonT(30) DEF Quietly
<1>4. ASSUME NEW n \in Nodes, conn'[n] # NoSession PROVE SessNode[conn'[n]] = n
  BY <1>2, <1>4, ZenonT(30) DEF StreamInv
<1>5. ASSUME NEW s \in Sessions, pc'[s] \in {"none", "hello"}
      PROVE  net'[s] = <<>> /\ out'[s] = <<>>
  BY <1>1, <1>3, <1>5, ZenonT(30) DEF StreamInv
<1>6. /\ \A s \in Sessions : (Owned(net[s], s) /\ Owned(out[s], s))'
      /\ pend' # NoPend => NodeOf[pend'.msg.pod] = SessNode[pend'.sess]
  BY <1>1, ZenonT(30) DEF StreamInv, Owned
<1>7. ASSUME NEW s \in Sessions, pc'[s] = "replay"
      PROVE  \A p \in todo' : NodeOf[p] = SessNode[s]
  BY <1>1, <1>3, <1>7, ZenonT(30) DEF StreamInv
<1>8. ASSUME NEW s \in Sessions, NEW t \in Sessions, pc'[s] = "replay", pc'[t] = "replay"
      PROVE  s = t
  BY <1>3, <1>8, ZenonT(30) DEF StreamInv
<1> QED BY <1>4, <1>5, <1>6, <1>7, <1>8, ZenonT(30) DEF StreamInv

\* Streams of deltas of the node's pods.
LEMMA OwnedParts ==
    ASSUME NEW s, NEW q \in Seq(Msgs), Owned(q, s)
    PROVE  /\ Owned(<<>>, s)
           /\ q # <<>> => Owned(Tail(q), s) /\ Head(q) \in Msgs /\ NodeOf[Head(q).pod] = SessNode[s]
           /\ \A m \in Msgs : NodeOf[m.pod] = SessNode[s] => Owned(Append(q, m), s)
<1>1. Owned(<<>>, s)
  BY EmptySeq, SMTT(30) DEF Owned
<1>2. ASSUME q # <<>>
      PROVE  Owned(Tail(q), s) /\ Head(q) \in Msgs /\ NodeOf[Head(q).pod] = SessNode[s]
  <2>1. /\ Head(q) \in Msgs /\ Len(Tail(q)) = Len(q) - 1
        /\ \A i \in 1..Len(Tail(q)) : Tail(q)[i] = q[i + 1]
    BY <1>2, HeadTailProperties
  <2>2. Len(q) \in Nat /\ Len(q) # 0 /\ Head(q) = q[1]
    BY <1>2, LenProperties, EmptySeq, SMTT(30)
  <2>3. NodeOf[Head(q).pod] = SessNode[s]
    BY <2>2, SMTT(30) DEF Owned
  <2>4. ASSUME NEW i \in 1..Len(Tail(q)) PROVE NodeOf[Tail(q)[i].pod] = SessNode[s]
    <3>1. i + 1 \in 1..Len(q)
      BY <2>1, <2>2
    <3>2. NodeOf[q[i + 1].pod] = SessNode[s]
      BY <3>1 DEF Owned
    <3> QED BY <2>1, <3>2, ZenonT(30)
  <2> QED BY <2>1, <2>3, <2>4 DEF Owned
<1>3. ASSUME NEW m \in Msgs, NodeOf[m.pod] = SessNode[s] PROVE Owned(Append(q, m), s)
  <2>1. /\ Len(Append(q, m)) = Len(q) + 1 /\ Len(q) \in Nat
        /\ \A i \in 1..Len(q) : Append(q, m)[i] = q[i]
        /\ Append(q, m)[Len(q) + 1] = m
    BY AppendProperties, LenProperties, SMTT(30)
  <2>2. ASSUME NEW i \in 1..Len(Append(q, m)) PROVE NodeOf[Append(q, m)[i].pod] = SessNode[s]
    <3>1. i \in 1..Len(q) \/ i = Len(q) + 1
      BY <2>1, SMTT(30)
    <3>2. CASE i \in 1..Len(q)
      BY <2>1, <3>2, ZenonT(30) DEF Owned
    <3>3. CASE i = Len(q) + 1
      BY <1>3, <2>1, <3>3, ZenonT(30)
    <3> QED BY <3>1, <3>2, <3>3, ZenonT(30)
  <2> QED BY <2>2, ZenonT(30) DEF Owned
<1> QED BY <1>1, <1>2, <1>3

\* A step that only takes up a delta leaves the streams as they are.
LEMMA PendStream ==
    ASSUME StreamInv, UNCHANGED <<net, out, conn, pc>>, todo' \subseteq todo,
           pend' # NoPend => NodeOf[pend'.msg.pod] = SessNode[pend'.sess]
    PROVE  StreamInv'
<1>1. /\ \A n \in Nodes : conn'[n] # NoSession => SessNode[conn'[n]] = n
      /\ \A s \in Sessions : pc'[s] \in {"none", "hello"} => net'[s] = <<>> /\ out'[s] = <<>>
      /\ \A s \in Sessions : Owned(net'[s], s) /\ Owned(out'[s], s)
  BY ZenonT(30) DEF StreamInv
<1>2. /\ \A s \in Sessions : pc'[s] = "replay" => \A p \in todo' : NodeOf[p] = SessNode[s]
      /\ \A s, t \in Sessions : pc'[s] = "replay" /\ pc'[t] = "replay" => s = t
  BY ZenonT(30) DEF StreamInv
<1> QED BY <1>1, <1>2, ZenonT(30) DEF StreamInv, Owned

\* Apply and the replay send to the session of the pod's node.
LEMMA DeltaStream ==
    ASSUME TableInv, StreamInv, NEW r \in Pods,
           ApplyDelta(r) \/ \E t \in Sessions : ReplayDelta(t, r)
    PROVE  StreamInv'
<1>1. TypeOK
  BY ZenonT(30) DEF TableInv
<1> USE DEF disp, queue, server, stream, agent
<1>2. CASE ApplyDelta(r)
  <2>1. PICK t : t = sessions[NodeOf[r]]
    BY ZenonT(30)
  <2>2. PICK m : m = Delta(r, snap[r], generation[r] + 1)
    BY ZenonT(30)
  <2>3. UNCHANGED <<net, out, conn, pc, todo>> /\ pend' = EnqueueCheck(t, m) /\ m.pod = r
    BY <1>2, <2>1, <2>2, ZenonT(30) DEF ApplyDelta, Delta
  <2>4. pend' # NoPend => pend'.sess = t /\ pend'.msg = m /\ t # NoSession
    BY <2>3, ZenonT(30) DEF EnqueueCheck
  <2>5. t # NoSession => SessNode[t] = NodeOf[r]
    BY <2>1, NodeOfAssumption, Registered, ZenonT(30)
  <2>6. pend' # NoPend => NodeOf[pend'.msg.pod] = SessNode[pend'.sess]
    BY <2>3, <2>4, <2>5, ZenonT(30)
  <2> QED BY <2>3, <2>6, PendStream, ZenonT(30)
<1>3. ASSUME NEW t \in Sessions, ReplayDelta(t, r) PROVE StreamInv'
  <2>2. PICK m : m = Delta(r, lastSpec[r], generation[r])
    BY ZenonT(30)
  <2>3. /\ UNCHANGED <<net, out, conn, pc>> /\ pend' = EnqueueCheck(t, m) /\ m.pod = r
        /\ todo' \subseteq todo /\ r \in todo /\ pc[t] = "replay"
    BY <1>3, <2>2, ZenonT(30) DEF ReplayDelta, Delta
  <2>4. pend' # NoPend => pend'.sess = t /\ pend'.msg = m
    BY <2>3, ZenonT(30) DEF EnqueueCheck
  <2>5. NodeOf[r] = SessNode[t]
    BY <2>3, ZenonT(30) DEF StreamInv
  <2>6. pend' # NoPend => NodeOf[pend'.msg.pod] = SessNode[pend'.sess]
    BY <2>3, <2>4, <2>5, ZenonT(30)
  <2> QED BY <2>3, <2>6, PendStream, ZenonT(30)
<1> QED BY <1>2, <1>3

\* A session is registered and its replay begins.
LEMMA RegisterStream ==
    ASSUME TableInv, StreamInv, NEW t \in Sessions, RegisterSession(t)
    PROVE  StreamInv'
<1>1. /\ LockFree /\ pc' = [pc EXCEPT ![t] = "replay"]
      /\ todo' = {q \in PodsOf(SessNode[t]) : lastSpec[q] # NoSpec}
      /\ UNCHANGED <<net, out, conn, pend>>
  BY ZenonT(30) DEF RegisterSession, stream, agent
<1>2. \A s \in Sessions : pc'[s] = IF s = t THEN "replay" ELSE pc[s]
  BY <1>1 DEF TableInv, TypeOK
<1>3. \A s \in Sessions : pc'[s] = "replay" => s = t
  BY <1>1, <1>2, ZenonT(30) DEF LockFree
<1>4. /\ \A n \in Nodes : conn'[n] # NoSession => SessNode[conn'[n]] = n
      /\ \A s \in Sessions : pc'[s] \in {"none", "hello"} => net'[s] = <<>> /\ out'[s] = <<>>
      /\ \A s \in Sessions : Owned(net'[s], s) /\ Owned(out'[s], s)
      /\ pend' # NoPend => NodeOf[pend'.msg.pod] = SessNode[pend'.sess]
  BY <1>1, <1>2, SMTT(30) DEF StreamInv
<1>5. \A p \in todo' : NodeOf[p] = SessNode[t]
  BY <1>1, ZenonT(30) DEF PodsOf
<1> QED BY <1>3, <1>4, <1>5, ZenonT(30) DEF StreamInv, Owned

\* A step that moves deltas between the queue and the stream of t.
LEMMA MoveStream ==
    ASSUME StreamInv, NEW t, UNCHANGED <<pc, todo>>,
           pend' \in {pend, NoPend}, \A n \in Nodes : conn'[n] \in {conn[n], NoSession},
           \A s \in Sessions : s # t => net'[s] = net[s] /\ out'[s] = out[s],
           t \in Sessions => Owned(net'[t], t) /\ Owned(out'[t], t),
           \/ net'[t] = <<>> /\ out'[t] = out[t]
           \/ t \in Sessions => pc[t] \notin {"none", "hello"}
    PROVE  StreamInv'
<1>1. \A n \in Nodes : conn'[n] # NoSession => SessNode[conn'[n]] = n
  BY ZenonT(30) DEF StreamInv
<1>2. \A s \in Sessions : Owned(net'[s], s) /\ Owned(out'[s], s)
  BY ZenonT(30) DEF StreamInv
<1>3. \A s \in Sessions : pc'[s] \in {"none", "hello"} => net'[s] = <<>> /\ out'[s] = <<>>
  BY ZenonT(30) DEF StreamInv
<1>4. /\ pend' # NoPend => NodeOf[pend'.msg.pod] = SessNode[pend'.sess]
      /\ \A s \in Sessions : pc'[s] = "replay" => \A p \in todo' : NodeOf[p] = SessNode[s]
      /\ \A s, r \in Sessions : pc'[s] = "replay" /\ pc'[r] = "replay" => s = r
  BY DEF StreamInv
<1> QED BY <1>1, <1>2, <1>3, <1>4, ZenonT(30) DEF StreamInv, Owned

\* The send of enqueue, and the sender.
LEMMA SendStream ==
    ASSUME TableInv, StreamInv, EnqueueSend \/ \E t \in Sessions : SenderSend(t)
    PROVE  StreamInv'
<1>1. TypeOK
  BY ZenonT(30) DEF TableInv
<1> USE DEF disp, server, stream, agent
<1>2. CASE EnqueueSend
  <2>1. PICK t \in Sessions, m \in Msgs : pend # NoPend /\ t = pend.sess /\ m = pend.msg /\ ~closed[t]
    BY <1>1, <1>2, ZenonT(30) DEF TypeOK, Pends, EnqueueSend, TableInv, PendSafe
  <2>2. pc[t] \notin {"none", "hello"} /\ NodeOf[m.pod] = SessNode[t]
    <3>1. sessions[SessNode[t]] = t /\ SessNode[t] \in Nodes
      BY <2>1, SessNodeAssumption, ZenonT(30) DEF TableInv, PendSafe
    <3>2. pc[t] \in {"replay", "loop", "unreg"}
      BY <3>1, NoneAssumption, Registered, ZenonT(30)
    <3> QED BY <2>1, <3>2, ZenonT(30) DEF StreamInv
  <2>3. UNCHANGED <<net, conn, pc, todo>> /\ pend' = NoPend
    BY <1>2, ZenonT(30) DEF EnqueueSend
  <2>4. out' = [out EXCEPT ![t] = Append(out[t], m)] \/ out' = out
    BY <1>2, <2>1, ZenonT(30) DEF EnqueueSend
  <2>5. out[t] \in Seq(Msgs) /\ Owned(out[t], t) /\ Owned(net[t], t)
    BY <1>1, ZenonT(30) DEF TypeOK, StreamInv
  <2>6. Owned(Append(out[t], m), t)
    BY <2>2, <2>5, OwnedParts, ZenonT(30)
  <2>7. /\ \A s \in Sessions : s # t => out'[s] = out[s]
        /\ out'[t] = Append(out[t], m) \/ out'[t] = out[t]
    BY <1>1, <2>4 DEF TypeOK
  <2>8. Owned(out'[t], t)
    BY <2>5, <2>6, <2>7, ZenonT(30)
  <2> QED BY <2>2, <2>3, <2>5, <2>7, <2>8, MoveStream, ZenonT(30)
<1>3. ASSUME NEW t \in Sessions, SenderSend(t) PROVE StreamInv'
  <2>1. /\ out[t] # <<>> /\ out' = [out EXCEPT ![t] = Tail(out[t])]
        /\ net' = net \/ net' = [net EXCEPT ![t] = Append(net[t], Head(out[t]))]
        /\ UNCHANGED <<conn, pc, todo, pend>>
    BY <1>3, ZenonT(30) DEF SenderSend
  <2>2. pc[t] \notin {"none", "hello"}
    BY <2>1, ZenonT(30) DEF StreamInv
  <2>3. out[t] \in Seq(Msgs) /\ net[t] \in Seq(Msgs) /\ Owned(out[t], t) /\ Owned(net[t], t)
    BY <1>1, ZenonT(30) DEF TypeOK, StreamInv
  <2>4. Owned(Tail(out[t]), t) /\ Head(out[t]) \in Msgs /\ NodeOf[Head(out[t]).pod] = SessNode[t]
    BY <2>1, <2>3, OwnedParts, ZenonT(30)
  <2>5. Owned(Append(net[t], Head(out[t])), t)
    BY <2>3, <2>4, OwnedParts, ZenonT(30)
  <2>6. /\ \A s \in Sessions : s # t => out'[s] = out[s] /\ net'[s] = net[s]
        /\ out'[t] = Tail(out[t])
        /\ net'[t] = Append(net[t], Head(out[t])) \/ net'[t] = net[t]
    BY <1>1, <2>1 DEF TypeOK
  <2>7. Owned(out'[t], t) /\ Owned(net'[t], t)
    BY <2>3, <2>4, <2>5, <2>6, ZenonT(30)
  <2> QED BY <2>1, <2>2, <2>6, <2>7, MoveStream
<1> QED BY <1>2, <1>3

\* The agent consumes a delta, loses its stream, or restarts.
LEMMA AgentStream ==
    ASSUME TableInv, StreamInv, NEW k \in Nodes,
           AgentHandle(k) \/ AgentDrop(k) \/ AgentRestart(k)
    PROVE  StreamInv'
<1>1. TypeOK
  BY DEF TableInv
<1> USE DEF disp, queue, server, stream, agent
<1>2. PICK t : t = conn[k]
  BY ZenonT(30)
<1>3. t \in Sessions
  BY <1>1, <1>2, ZenonT(30) DEF TypeOK, AgentHandle, AgentDrop, AgentRestart
<1>4. net[t] \in Seq(Msgs) /\ Owned(net[t], t) /\ Owned(out[t], t)
  BY <1>1, <1>3, ZenonT(30) DEF TypeOK, StreamInv
<1>5. CASE AgentHandle(k)
  <2>1. /\ net[t] # <<>> /\ net' = [net EXCEPT ![t] = Tail(net[t])]
        /\ UNCHANGED <<out, conn, pc, todo, pend>>
    BY <1>2, <1>5, ZenonT(30) DEF AgentHandle
  <2>2. pc[t] \notin {"none", "hello"}
    BY <1>3, <2>1, ZenonT(30) DEF StreamInv
  <2>3. Owned(Tail(net[t]), t)
    BY <1>4, <2>1, OwnedParts, ZenonT(30)
  <2>4. net'[t] = Tail(net[t]) /\ \A s \in Sessions : s # t => net'[s] = net[s]
    BY <1>1, <1>3, <2>1, ZenonT(30) DEF TypeOK
  <2>5. Owned(net'[t], t) /\ Owned(out'[t], t)
    BY <1>4, <2>1, <2>3, <2>4, ZenonT(30)
  <2> QED BY <2>1, <2>2, <2>4, <2>5, MoveStream, ZenonT(30)
<1>6. CASE AgentDrop(k) \/ AgentRestart(k)
  <2>1. /\ net' = [net EXCEPT ![t] = <<>>] /\ conn' = [conn EXCEPT ![k] = NoSession]
        /\ UNCHANGED <<out, pc, todo, pend>>
    BY <1>2, <1>6, ZenonT(30) DEF AgentDrop, AgentRestart
  <2>2. /\ net'[t] = <<>> /\ \A s \in Sessions : s # t => net'[s] = net[s]
        /\ \A n \in Nodes : conn'[n] \in {conn[n], NoSession}
    BY <1>1, <1>3, <2>1, ZenonT(30) DEF TypeOK
  <2>3. Owned(net'[t], t) /\ Owned(out'[t], t)
    <3>1. Owned(<<>>, t)
      BY <1>4, OwnedParts, ZenonT(30)
    <3> QED BY <1>4, <2>1, <2>2, <3>1, ZenonT(30)
  <2> QED BY <2>1, <2>2, <2>3, MoveStream, ZenonT(30)
<1> QED BY <1>5, <1>6

\* A new leader starts with no session and nothing queued.
LEMMA FailoverStream ==
    ASSUME TableInv, StreamInv, Failover
    PROVE  StreamInv'
<1>1. /\ pend' = NoPend /\ todo' = {} /\ UNCHANGED <<net, conn>>
      /\ \A s \in Sessions : out'[s] = <<>> /\ pc'[s] = IF pc[s] # "none" THEN "done" ELSE pc[s]
  BY ZenonT(30) DEF Failover, agent
<1>2. \A s \in Sessions : Owned(net'[s], s) /\ Owned(out'[s], s)
  <2>1. ASSUME NEW s \in Sessions PROVE Owned(net'[s], s) /\ Owned(out'[s], s)
    <3>1. net[s] \in Seq(Msgs) /\ Owned(net[s], s)
      BY ZenonT(30) DEF TableInv, TypeOK, StreamInv
    <3>2. Owned(<<>>, s)
      BY <3>1, OwnedParts, ZenonT(30)
    <3> QED BY <1>1, <3>1, <3>2, ZenonT(30)
  <2> QED BY <2>1, ZenonT(30)
<1>3. /\ \A n \in Nodes : conn'[n] # NoSession => SessNode[conn'[n]] = n
      /\ \A s \in Sessions : pc'[s] \in {"none", "hello"} => net'[s] = <<>> /\ out'[s] = <<>>
      /\ \A s \in Sessions : pc'[s] # "replay"
  BY <1>1, ZenonT(30) DEF StreamInv
<1> QED BY <1>1, <1>2, <1>3, ZenonT(30) DEF StreamInv, Owned

\* Nothing is on a stream before a session is registered.
LEMMA StreamInit == Init => StreamInv
<1> SUFFICES ASSUME Init PROVE StreamInv
  BY ZenonT(30)
<1>1. \A s \in Sessions : Owned(<<>>, s)
  BY SMT DEF Owned
<1> QED BY <1>1, ZenonT(30) DEF Init, StreamInv

\* A stream carries only the deltas of its node's pods, in every interleaving.
LEMMA StreamStep ==
    ASSUME TableInv, StreamInv, [Next]_vars
    PROVE  StreamInv'
<1>1. TypeOK
  BY DEF TableInv
<1>2. CASE Quietly
  BY <1>2, QuietStream, ZenonT(30)
<1>3. ASSUME NEW s \in Sessions, HandlerStep(s) \/ HandlerStatus(s) \/ SenderStep(s) \/ AgentDial(s)
      PROVE StreamInv'
  BY <1>1, <1>2, <1>3, QuietActions, QuietAgent, RegisterStream, DeltaStream, SendStream, ZenonT(30)
  DEF HandlerStep, SenderStep
<1>4. ASSUME NEW n \in Nodes, AgentStep(n) \/ AgentDrop(n) \/ AgentRestart(n) PROVE StreamInv'
  BY <1>1, <1>2, <1>4, QuietAgent, AgentStream DEF AgentStep
<1>5. CASE EnqueueSend
  BY <1>5, SendStream
<1>6. ASSUME NEW p \in Pods, ApplyDelta(p) PROVE StreamInv'
  BY <1>6, DeltaStream
<1>7. CASE Failover
  BY <1>7, FailoverStream
<1>8. CASE \/ RecomputeList \/ ApplyLock \/ ApplyUnlock \/ UNCHANGED vars
           \/ \E p \in Pods, v \in MaybeSpec : ClusterChange(p, v)
  BY <1>1, <1>2, <1>8, QuietEngine, ZenonT(30)
<1> QED BY <1>3, <1>4, <1>5, <1>6, <1>7, <1>8 DEF Next, EngineStep

\* What the Dispatcher believes and what the agent will stay the same thing.
LEMMA PipelineStep ==
    ASSUME TableInv, TypeOK', StreamInv, PipelineAgrees, [Next]_vars
    PROVE  PipelineAgrees'
<1>1. TypeOK
  BY ZenonT(30) DEF TableInv
<1>2. ASSUME NEW n \in Nodes, NEW p \in PodsOf(n), Due(n, p)'
      PROVE  Believes(n, p)'
  <2>1. CASE Quietly
    BY <1>2, <2>1, QuietBelief, ZenonT(30)
  <2>2. ASSUME NEW s \in Sessions, HandlerStep(s) \/ HandlerStatus(s) \/ SenderStep(s) \/ AgentDial(s)
        PROVE Believes(n, p)'
    BY <1>1, <1>2, <2>1, <2>2, QuietActions, QuietAgent, RegisterAgrees, ReplayAgrees, SenderAgrees, ZenonT(30)
    DEF HandlerStep, SenderStep
  <2>3. ASSUME NEW k \in Nodes, AgentStep(k) \/ AgentDrop(k) \/ AgentRestart(k)
        PROVE Believes(n, p)'
    BY <1>1, <1>2, <2>1, <2>3, QuietAgent, HandleAgrees, DropAgrees DEF AgentStep
  <2>4. CASE EnqueueSend
    BY <1>2, <2>4, EnqueueAgrees
  <2>5. ASSUME NEW r \in Pods, ApplyDelta(r) PROVE Believes(n, p)'
    BY <1>2, <2>5, ApplyAgrees, ZenonT(30)
  <2>6. CASE Failover
    BY <1>2, <2>6, ZenonT(30) DEF Failover, Due
  <2>7. CASE \/ RecomputeList \/ ApplyLock \/ ApplyUnlock \/ UNCHANGED vars
             \/ \E q \in Pods, v \in MaybeSpec : ClusterChange(q, v)
    BY <1>1, <2>1, <2>7, QuietEngine
  <2> QED BY <2>2, <2>3, <2>4, <2>5, <2>6, <2>7 DEF Next, EngineStep
<1>3. (\A n \in Nodes : \A p \in PodsOf(n) : Due(n, p) => Believes(n, p))'
  BY <1>2
<1> QED BY <1>3, ZenonT(30) DEF PipelineAgrees, Due, Believes, Agrees, Mine

\* Whatever the interleaving of recomputes, replays, sends, disconnects, restarts
\* and failovers, for any number of nodes, pods and streams and queues of any
\* capacity: an agent that consumes its registered stream ends up with exactly
\* what the Dispatcher believes, but for the removals the replay never sends.
THEOREM DispatcherKnowsAgent == Spec => []PipelineAgrees
<1> DEFINE Joint == TableInv /\ StreamInv /\ PipelineAgrees
<1>1. Init => Joint
  BY TableInit, StreamInit, ZenonT(30) DEF Init, PipelineAgrees
<1>2. Joint /\ [Next]_vars => Joint'
  <2> SUFFICES ASSUME Joint, [Next]_vars PROVE Joint'
    OBVIOUS
  <2>1. TableInv' /\ TypeOK'
    BY TableStep DEF TableInv
  <2> QED BY <2>1, StreamStep, PipelineStep
<1>3. Joint => PipelineAgrees
  OBVIOUS
<1> QED BY <1>1, <1>2, <1>3, PTL DEF Spec
=============================================================================
