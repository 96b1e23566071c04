----------------------------- MODULE QueryProofs ----------------------------
(***************************************************************************)
(* Proofs about what answers queries, for any agents, sinks, requests and  *)
(* failures.  The query service: an answer names the agents it misses, a   *)
(* subscriber is sent away with every span taken for it, and a decision is *)
(* not used past its time.  The OpenTelemetry query server: the registry   *)
(* counts streams, a search leaves out no shard with a record it promises, *)
(* and an answer of all sinks lacks nothing that was there.                *)
(***************************************************************************)
EXTENDS QueryService, QueryServer, FiniteSetTheorems, TLAPS

-----------------------------------------------------------------------------
(* The query service.  Its components share no variable, so that each has   *)
(* an invariant of its own.                                                 *)

(* Each component of the service sees a few of the actions.                 *)
AuthNext ==
    \/ \E r \in Requests :
          \/ \E path \in Paths, who \in Tokens \union {"loopback", "anonymous"} :
                Wrap(r, path, who)
          \/ \E cn \in Names : ClientCert(r, "object", cn)
          \/ AuthStep(r) \/ Serving(r) \/ Release(r)
    \/ \E k \in Keys : PermissionChanges(k)
    \/ AuthTick

FanNext ==
    \/ \E r \in Requests :
          \/ Querier(r)
          \/ Reject(r, {400, 404, 501})
          \/ \E a \in Agents : Select(r, a)
          \/ execAndWrite(r) \/ serveMetric(r)
          \/ Forgotten(r) /\ UNCHANGED <<dns, rolls, addrs, caFile, clients>>
    \/ resolve \/ Roll \/ Mount

MuxNext ==
    \E r \in Requests :
        \/ \E filterOK \in BOOLEAN : SubscribeSpans(r, filterOK)
        \/ Handler(r) \/ Leave(r) \/ \E a \in Agents : ForwardAgent(r, a)
        \/ mux' = [mux EXCEPT ![r] = NoSub]

(* A step of the service is, to each component, one of its own or none.     *)
LEMMA ComponentSteps ==
    [Next]_vars =>
        [AuthNext]_authVars /\ [FanNext]_fanVars /\ [MuxNext]_mux
<1> SUFFICES ASSUME [Next]_vars
             PROVE  [AuthNext]_authVars /\ [FanNext]_fanVars /\ [MuxNext]_mux
    OBVIOUS
<1>1. ASSUME NEW r \in Requests, Arrive(r) \/ Authorize(r)
      PROVE  [AuthNext]_authVars /\ [FanNext]_fanVars /\ [MuxNext]_mux
    BY <1>1, ZenonT(30) DEF Arrive, Authorize, AuthNext
<1>2. ASSUME NEW r \in Requests, Refuse(r) \/ Unsubscribed(r) \/ Stream(r)
      PROVE  [AuthNext]_authVars /\ [FanNext]_fanVars /\ [MuxNext]_mux
    BY <1>2, ZenonT(30) DEF Refuse, Unsubscribed, Stream, AuthNext, MuxNext
<1>3. ASSUME NEW r \in Requests, Admit(r)
      PROVE  [AuthNext]_authVars /\ [FanNext]_fanVars /\ [MuxNext]_mux
  <2>1. AuthNext
    BY <1>3, ZenonT(30) DEF Admit, AuthNext
  <2>2. [MuxNext]_mux
    BY <1>3, ZenonT(30) DEF Admit, MuxNext
  <2>3. ASSUME Reject(r, {400}) PROVE Reject(r, {400, 404, 501})
    BY <2>3, ZenonT(30) DEF Reject
  <2>4. [FanNext]_fanVars
    BY <1>3, <2>3, ZenonT(30) DEF Admit, FanNext
  <2> QED BY <2>1, <2>2, <2>4, ZenonT(30)
<1>4. ASSUME NEW r \in Requests, Evaluate(r) \/ Reply(r)
      PROVE  [AuthNext]_authVars /\ [FanNext]_fanVars /\ [MuxNext]_mux
    BY <1>4 DEF Evaluate, Reply, AuthNext, FanNext
<1>5. ASSUME Discover \/ Cluster \/ ApiServer \/ Tick
      PROVE  [AuthNext]_authVars /\ [FanNext]_fanVars /\ [MuxNext]_mux
    BY <1>5, ZenonT(30) DEF Discover, Cluster, ApiServer, Tick, AuthNext, FanNext
<1>6. ASSUME UNCHANGED vars
      PROVE  [AuthNext]_authVars /\ [FanNext]_fanVars /\ [MuxNext]_mux
    BY <1>6, ZenonT(30) DEF vars
<1> QED BY <1>1, <1>2, <1>3, <1>4, <1>5, <1>6, ZenonT(30) DEF Next, ThreadStep

QueryType == [at : {"none", "select", "answered"}, addrs : SUBSET Agents, left : SUBSET Agents,
          blind : SUBSET Agents, missing : SUBSET Agents, full : SUBSET Agents,
          part : SUBSET Agents, code : Nat]

(* The agents of a query are those it has read whole, those it misses and   *)
(* those it has not asked yet: three sets apart.                            *)
Parted(q) ==
    /\ q.at = "select" =>
          /\ q.addrs = q.left \union q.missing \union q.full
          /\ q.left \intersect (q.missing \union q.full) = {}
          /\ q.missing \intersect q.full = {}
    /\ q.at = "answered" /\ q.code = 200 => q.missing = q.addrs \ q.full

FanInv ==
    /\ dns \subseteq Agents /\ addrs \subseteq Agents
    /\ fan \in [Requests -> QueryType]
    /\ \A r \in Requests : Parted(fan[r])

(* It is enough to look at the query of the request that steps.             *)
LEMMA OneQuery ==
    ASSUME FanInv, NEW r \in Requests, NEW q \in QueryType, Parted(q),
           fan' = [fan EXCEPT ![r] = q], UNCHANGED <<dns, addrs>>
    PROVE  FanInv'
<1>1. fan' \in [Requests -> QueryType]
    BY ZenonT(30) DEF FanInv
<1>2. ASSUME NEW s \in Requests PROVE Parted(fan'[s])
  <2>1. CASE s = r
    BY <2>1, ZenonT(30) DEF FanInv
  <2>2. CASE s # r
    BY <2>2, ZenonT(30) DEF FanInv
  <2> QED BY <2>1, <2>2, ZenonT(30)
<1> QED BY <1>1, <1>2, ZenonT(30) DEF FanInv

(* A query starts with every agent before it.                               *)
LEMMA QuerierParts == ASSUME FanInv, NEW r \in Requests, Querier(r) PROVE FanInv'
<1> DEFINE q == [NoQuery EXCEPT !.at = "select", !.addrs = addrs, !.left = addrs,
                                !.blind = addrs \ clients']
<1>1. q \in QueryType /\ Parted(q)
    BY ZenonT(30) DEF FanInv, QueryType, Parted, NoQuery
<1>2. fan' = [fan EXCEPT ![r] = q] /\ UNCHANGED <<dns, addrs>>
    BY ZenonT(30) DEF Querier
<1> HIDE DEF q
<1> QED BY <1>1, <1>2, OneQuery, ZenonT(30)

(* An agent moves from those before the query to one of the two others.     *)
LEMMA SelectParts ==
    ASSUME FanInv, NEW r \in Requests, NEW a \in Agents, Select(r, a)
    PROVE  FanInv'
<1> DEFINE q == fan[r]
           whole == [q EXCEPT !.left = @ \ {a}, !.full = @ \union {a}]
           none == [q EXCEPT !.left = @ \ {a}, !.missing = @ \union {a}]
           some == [q EXCEPT !.left = @ \ {a}, !.missing = @ \union {a},
                             !.part = @ \union {a}]
<1>1. q \in QueryType /\ Parted(q) /\ q.at = "select" /\ a \in q.left
    BY ZenonT(30) DEF FanInv, Select
<1>2. PICK z \in {whole, none, some} : fan' = [fan EXCEPT ![r] = z]
    BY ZenonT(30) DEF Select, FanInv
<1>3. UNCHANGED <<dns, addrs>>
    BY ZenonT(30) DEF Select
<1> HIDE DEF q
<1>4. whole \in QueryType /\ none \in QueryType /\ some \in QueryType
    BY <1>1, ZenonT(30) DEF QueryType
<1>5. Parted(whole) /\ Parted(none) /\ Parted(some)
    BY <1>1 DEF QueryType, Parted
<1> HIDE DEF whole, none, some
<1>6. z \in QueryType /\ Parted(z)
    BY <1>2, <1>4, <1>5, ZenonT(30)
<1> QED BY <1>2, <1>3, <1>6, OneQuery, ZenonT(30)

(* The answer is written once no agent is left.                             *)
LEMMA AnswerParts ==
    ASSUME FanInv, NEW r \in Requests, execAndWrite(r) \/ serveMetric(r)
    PROVE  FanInv'
<1> DEFINE q == fan[r]
           z(code) == [q EXCEPT !.at = "answered", !.code = code]
<1>1. q \in QueryType /\ Parted(q) /\ q.at = "select" /\ q.left = {}
    BY ZenonT(30) DEF FanInv, execAndWrite, serveMetric
<1>2. PICK code \in {200, 422, 500, 404} : fan' = [fan EXCEPT ![r] = z(code)]
  <2>1. \E code \in {200, 422, 500, 404} : Answer(r, code)
    BY DEF execAndWrite, serveMetric
  <2>2. ASSUME NEW code PROVE Answer(r, code) => fan' = [fan EXCEPT ![r] = z(code)]
    BY ZenonT(30) DEF Answer, FanInv
  <2> HIDE DEF z
  <2> QED BY <2>1, <2>2
<1>3. UNCHANGED <<dns, addrs>>
    BY ZenonT(30) DEF execAndWrite, serveMetric
<1> HIDE DEF q
<1>4. z(code) \in QueryType
  <2>1. code \in Nat
    BY <1>2
  <2> QED BY <1>1, <2>1, ZenonT(30) DEF QueryType
<1>5. Parted(z(code))
    BY <1>1, ZenonT(30) DEF QueryType, Parted
<1> HIDE DEF z
<1> QED BY <1>2, <1>3, <1>4, <1>5, OneQuery, ZenonT(30)

(* Every step keeps the three sets apart.                                   *)
LEMMA FanStep == FanInv /\ [FanNext]_fanVars => FanInv'
<1> SUFFICES ASSUME FanInv, [FanNext]_fanVars PROVE FanInv'
    OBVIOUS
<1>1. ASSUME NEW r \in Requests, Reject(r, {400, 404, 501}) PROVE FanInv'
  <2>1. PICK c \in {400, 404, 501} :
            fan' = [fan EXCEPT ![r] = [NoQuery EXCEPT !.at = "answered", !.code = c]]
    BY <1>1, ZenonT(30) DEF Reject
  <2> DEFINE q == [NoQuery EXCEPT !.at = "answered", !.code = c]
  <2>2. c \in Nat /\ c # 200
    BY <2>1
  <2>3. q \in QueryType /\ Parted(q)
    BY <2>2, ZenonT(30) DEF QueryType, Parted, NoQuery
  <2>4. fan' = [fan EXCEPT ![r] = q] /\ UNCHANGED <<dns, addrs>>
    BY <1>1, <2>1, ZenonT(30) DEF Reject
  <2> HIDE DEF q
  <2> QED BY <2>3, <2>4, OneQuery, ZenonT(30)
<1>2. ASSUME NEW r \in Requests, Forgotten(r), UNCHANGED <<dns, addrs>> PROVE FanInv'
  <2>1. NoQuery \in QueryType /\ Parted(NoQuery)
    BY ZenonT(30) DEF QueryType, Parted, NoQuery
  <2> QED BY <1>2, <2>1, OneQuery, ZenonT(30) DEF Forgotten
<1>3. ASSUME resolve \/ Roll \/ Mount PROVE FanInv'
    BY <1>3, ZenonT(30) DEF resolve, Roll, Mount, FanInv
<1>4. ASSUME UNCHANGED fanVars PROVE FanInv'
    BY <1>4, ZenonT(30) DEF fanVars, FanInv
<1> QED BY <1>1, <1>2, <1>3, <1>4, QuerierParts, SelectParts, AnswerParts, ZenonT(30) DEF FanNext

(* An answer names exactly the agents whose series are not all in it, for   *)
(* any agents that come, go and fail under any number of queries            *)
(* (Querier, Select, Err, execAndWrite, serveMetric).                       *)
THEOREM MissingExact == Spec => []MissingIsExact
<1>1. Init => FanInv
    BY DEF Init, FanInit, FanInv, QueryType, Parted, NoQuery
<1>2. FanInv /\ [Next]_vars => FanInv'
    BY ComponentSteps, FanStep, ZenonT(30)
<1>3. FanInv => MissingIsExact
    BY ZenonT(30) DEF FanInv, Parted, MissingIsExact
<1> QED BY <1>1, <1>2, <1>3, PTL DEF Spec

Subscription == [at : {"none", "select", "drain", "ended"},
                 fw : [Agents -> {"none", "dial", "recv", "push", "gone"}],
                 ctx : BOOLEAN, taken : Nat, buf : Nat, sent : Nat,
                 why : {"none", "InvalidArgument", "NoAgents", "SendFailed",
                        "Unavailable", "Left"}]

Pushing(fw) == {a \in Agents : fw[a] = "push"}

NoneLeft(fw) == \A a \in Agents : fw[a] \in {"none", "gone"}

(* While the handler runs, a span that was taken is sent, in the channel or *)
(* in the hands of a forwarder; it drains the channel after the last of     *)
(* them, and only then tells the subscriber to come back.                   *)
Conserves(m) ==
    /\ m.at = "select" => m.ctx
    /\ m.at \in {"select", "drain"} =>
          m.taken = m.sent + m.buf + Cardinality(Pushing(m.fw))
    /\ m.at = "drain" => NoneLeft(m.fw)
    /\ m.why = "Unavailable" => m.at = "ended" /\ NoneLeft(m.fw) /\ m.sent = m.taken

MuxInv ==
    /\ mux \in [Requests -> Subscription]
    /\ \A r \in Requests : Conserves(mux[r])

(* It is enough to look at the subscription that steps.                     *)
LEMMA OneSubscription ==
    ASSUME MuxInv, NEW r \in Requests, NEW m \in Subscription, Conserves(m),
           mux' = [mux EXCEPT ![r] = m]
    PROVE  MuxInv'
<1>1. mux' \in [Requests -> Subscription]
    BY ZenonT(30) DEF MuxInv
<1>2. ASSUME NEW s \in Requests PROVE Conserves(mux'[s])
  <2>1. CASE s = r
    BY <2>1, ZenonT(30) DEF MuxInv
  <2>2. CASE s # r
    BY <2>2, ZenonT(30) DEF MuxInv
  <2> QED BY <2>1, <2>2, ZenonT(30)
<1> QED BY <1>1, <1>2, ZenonT(30) DEF MuxInv

(* The forwarders that hold a span can be counted.                          *)
LEMMA PushingNat ==
    ASSUME NEW fw
    PROVE  /\ IsFiniteSet(Pushing(fw)) /\ Cardinality(Pushing(fw)) \in Nat
           /\ NoneLeft(fw) => Cardinality(Pushing(fw)) = 0
<1>1. Pushing(fw) \subseteq Agents
    BY ZenonT(30) DEF Pushing
<1>2. NoneLeft(fw) => Pushing(fw) = {}
    BY ZenonT(30) DEF NoneLeft, Pushing
<1> QED BY <1>1, <1>2, FanAssumption, FS_Subset, FS_CardinalityType, FS_EmptySet, ZenonT(30)

(* One of them more, one less.                                              *)
LEMMA PushingCount ==
    ASSUME NEW fw \in [Agents -> {"none", "dial", "recv", "push", "gone"}],
           NEW a \in Agents
    PROVE  /\ fw[a] # "push" =>
                 Cardinality(Pushing([fw EXCEPT ![a] = "push"])) = Cardinality(Pushing(fw)) + 1
           /\ fw[a] = "push" => \A x \in {"recv", "gone"} :
                 Cardinality(Pushing([fw EXCEPT ![a] = x])) = Cardinality(Pushing(fw)) - 1
           /\ fw[a] # "push" => \A x \in {"recv", "gone"} :
                 Pushing([fw EXCEPT ![a] = x]) = Pushing(fw)
<1>1. IsFiniteSet(Pushing(fw)) /\ Cardinality(Pushing(fw)) \in Nat
    BY PushingNat, ZenonT(30)
<1>3. fw[a] # "push" =>
         Pushing([fw EXCEPT ![a] = "push"]) = Pushing(fw) \union {a} /\ a \notin Pushing(fw)
    BY ZenonT(30) DEF Pushing
<1>4. fw[a] = "push" => \A x \in {"recv", "gone"} :
         Pushing([fw EXCEPT ![a] = x]) = Pushing(fw) \ {a} /\ a \in Pushing(fw)
    BY ZenonT(30) DEF Pushing
<1>5. fw[a] # "push" => \A x \in {"recv", "gone"} :
         Pushing([fw EXCEPT ![a] = x]) = Pushing(fw)
    BY ZenonT(30) DEF Pushing
<1>6. fw[a] # "push" =>
         Cardinality(Pushing([fw EXCEPT ![a] = "push"])) = Cardinality(Pushing(fw)) + 1
    BY <1>1, <1>3, FS_AddElement, ZenonT(30)
<1>7. fw[a] = "push" => \A x \in {"recv", "gone"} :
         Cardinality(Pushing([fw EXCEPT ![a] = x])) = Cardinality(Pushing(fw)) - 1
    BY <1>1, <1>4, FS_RemoveElement, ZenonT(30)
<1> QED BY <1>5, <1>6, <1>7, ZenonT(30)

(* The steps of a forwarder.                                                *)
LEMMA ForwarderConserves ==
    ASSUME MuxInv, NEW r \in Requests, NEW a \in Agents, ForwardAgent(r, a)
    PROVE  MuxInv'
<1> DEFINE m == mux[r]
           turned(x) == [m EXCEPT !.fw = [m.fw EXCEPT ![a] = x]]
           taking == [m EXCEPT !.fw = [m.fw EXCEPT ![a] = "push"], !.taken = @ + 1]
           pushed == [m EXCEPT !.fw = [m.fw EXCEPT ![a] = "recv"], !.buf = @ + 1]
<1>1. m \in Subscription /\ Conserves(m)
    BY ZenonT(30) DEF MuxInv
<1>2. m.fw \in [Agents -> {"none", "dial", "recv", "push", "gone"}]
    BY <1>1, ZenonT(30) DEF Subscription
<1>3. ASSUME NEW x \in {"recv", "gone"}, m.fw[a] \in {"dial", "recv"} \/ ~m.ctx,
             m.fw[a] \in {"dial", "recv", "push"},
             mux' = [mux EXCEPT ![r] = turned(x)]
      PROVE  MuxInv'
  <2> HIDE DEF m
  <2>1. turned(x) \in Subscription
    BY <1>1, <1>2, ZenonT(30) DEF Subscription
  <2>2. ~NoneLeft(m.fw)
    BY <1>3, ZenonT(30) DEF NoneLeft
  <2>3. m.at = "select" => m.ctx /\ Pushing([m.fw EXCEPT ![a] = x]) = Pushing(m.fw)
    BY <1>1, <1>2, <1>3, PushingCount, ZenonT(30) DEF Conserves
  <2>4. /\ turned(x).at = m.at /\ turned(x).ctx = m.ctx /\ turned(x).why = m.why
        /\ turned(x).taken = m.taken /\ turned(x).sent = m.sent /\ turned(x).buf = m.buf
        /\ turned(x).fw = [m.fw EXCEPT ![a] = x]
    BY <1>1, <1>2, ZenonT(30) DEF Subscription
  <2> HIDE DEF turned
  <2>5. Conserves(turned(x))
    BY <1>1, <2>2, <2>3, <2>4, ZenonT(30) DEF Conserves
  <2> QED BY <1>3, <2>1, <2>5, OneSubscription, ZenonT(30) DEF m
<1>4. ASSUME RecvSpan(r, a) PROVE MuxInv'
  <2>1. mux' = [mux EXCEPT ![r] = taking] /\ m.fw[a] = "recv"
    BY <1>4, ZenonT(30) DEF RecvSpan, MuxInv
  <2> HIDE DEF m
  <2>2. taking \in Subscription
    <3>1. [m.fw EXCEPT ![a] = "push"] \in [Agents -> {"none", "dial", "recv", "push", "gone"}]
      BY <1>2, ZenonT(30)
    <3>2. m.taken + 1 \in Nat
      BY <1>1 DEF Subscription
    <3> QED BY <1>1, <3>1, <3>2, ZenonT(30) DEF Subscription
  <2>3. /\ taking.at = m.at /\ taking.ctx = m.ctx /\ taking.why = m.why
        /\ taking.taken = m.taken + 1 /\ taking.sent = m.sent /\ taking.buf = m.buf
        /\ taking.fw = [m.fw EXCEPT ![a] = "push"]
    BY <1>1, <1>2, ZenonT(30) DEF Subscription
  <2> HIDE DEF taking
  <2>4. Cardinality(Pushing(taking.fw)) = Cardinality(Pushing(m.fw)) + 1
    <3>1. m.fw[a] # "push"
      BY <2>1, ZenonT(30)
    <3>2. Cardinality(Pushing([m.fw EXCEPT ![a] = "push"])) = Cardinality(Pushing(m.fw)) + 1
      BY <1>2, <3>1, PushingCount, ZenonT(30)
    <3> QED BY <2>3, <3>2, ZenonT(30)
  <2>5. ~NoneLeft(m.fw)
    BY <2>1, ZenonT(30) DEF NoneLeft
  <2>6. m.taken \in Nat /\ m.sent \in Nat /\ m.buf \in Nat /\ Cardinality(Pushing(m.fw)) \in Nat
    BY <1>1, PushingNat, ZenonT(30) DEF Subscription
  <2>7. Conserves(taking)
    BY <1>1, <2>3, <2>4, <2>5, <2>6 DEF Conserves
  <2> QED BY <2>1, <2>2, <2>7, OneSubscription, ZenonT(30)
<1>5. ASSUME m.fw[a] = "push", mux' = [mux EXCEPT ![r] = pushed] PROVE MuxInv'
  <2> HIDE DEF m
  <2>2. pushed \in Subscription
    <3>1. [m.fw EXCEPT ![a] = "recv"] \in [Agents -> {"none", "dial", "recv", "push", "gone"}]
      BY <1>2, ZenonT(30)
    <3>2. m.buf + 1 \in Nat
      BY <1>1 DEF Subscription
    <3> QED BY <1>1, <3>1, <3>2, ZenonT(30) DEF Subscription
  <2>3. /\ pushed.at = m.at /\ pushed.ctx = m.ctx /\ pushed.why = m.why
        /\ pushed.taken = m.taken /\ pushed.sent = m.sent /\ pushed.buf = m.buf + 1
        /\ pushed.fw = [m.fw EXCEPT ![a] = "recv"]
    BY <1>1, <1>2, ZenonT(30) DEF Subscription
  <2> HIDE DEF pushed
  <2>4. Cardinality(Pushing(pushed.fw)) = Cardinality(Pushing(m.fw)) - 1
    <3>1. \A x \in {"recv", "gone"} :
             Cardinality(Pushing([m.fw EXCEPT ![a] = x])) = Cardinality(Pushing(m.fw)) - 1
      BY <1>2, <1>5, PushingCount, ZenonT(30)
    <3>2. Cardinality(Pushing([m.fw EXCEPT ![a] = "recv"])) = Cardinality(Pushing(m.fw)) - 1
      BY <3>1, ZenonT(30)
    <3> QED BY <2>3, <3>2, ZenonT(30)
  <2>5. ~NoneLeft(m.fw)
    BY <1>5, ZenonT(30) DEF NoneLeft
  <2>6. m.taken \in Nat /\ m.sent \in Nat /\ m.buf \in Nat /\ Cardinality(Pushing(m.fw)) \in Nat
    BY <1>1, PushingNat, ZenonT(30) DEF Subscription
  <2>7. Conserves(pushed)
    BY <1>1, <2>3, <2>4, <2>5, <2>6 DEF Conserves
  <2> QED BY <1>5, <2>2, <2>7, OneSubscription, ZenonT(30) DEF m
<1>6. ASSUME NEW ok \in BOOLEAN, Dial(r, a, ok) PROVE MuxInv'
  <2>1. m.fw[a] = "dial" /\ \E x \in {"recv", "gone"} : mux' = [mux EXCEPT ![r] = turned(x)]
    BY <1>6, ZenonT(30) DEF Dial, MuxInv
  <2> HIDE DEF m, turned
  <2> QED BY <1>3, <2>1, ZenonT(30)
<1>7. ASSUME RecvFails(r, a) PROVE MuxInv'
  <2>1. m.fw[a] = "recv" /\ mux' = [mux EXCEPT ![r] = turned("gone")]
    BY <1>7, ZenonT(30) DEF RecvFails, MuxInv
  <2> HIDE DEF m, turned
  <2> QED BY <1>3, <2>1, ZenonT(30)
<1>8. ASSUME Push(r, a) PROVE MuxInv'
  <2>1. /\ m.fw[a] = "push"
        /\ \/ mux' = [mux EXCEPT ![r] = pushed]
           \/ ~m.ctx /\ mux' = [mux EXCEPT ![r] = turned("gone")]
    <3>1. mux' = [mux EXCEPT ![r].fw[a] = "recv", ![r].buf = @ + 1] =>
              mux' = [mux EXCEPT ![r] = pushed]
      BY ZenonT(30) DEF MuxInv
    <3>2. mux' = [mux EXCEPT ![r].fw[a] = "gone"] => mux' = [mux EXCEPT ![r] = turned("gone")]
      BY ZenonT(30) DEF MuxInv
    <3>3. /\ m.fw[a] = "push"
          /\ \/ mux' = [mux EXCEPT ![r].fw[a] = "recv", ![r].buf = @ + 1]
             \/ ~m.ctx /\ mux' = [mux EXCEPT ![r].fw[a] = "gone"]
      BY <1>8, ZenonT(30) DEF Push
    <3> QED BY <3>1, <3>2, <3>3, Zenon
  <2> HIDE DEF m, turned, pushed
  <2> QED BY <1>3, <1>5, <2>1, ZenonT(30)
<1> HIDE DEF m, turned, taking, pushed
<1> QED BY <1>4, <1>6, <1>7, <1>8, ZenonT(30) DEF ForwardAgent

(* The steps of the handler, and the subscriber's.                          *)
LEMMA HandlerConserves ==
    ASSUME MuxInv, NEW r \in Requests, Handler(r) \/ Leave(r) PROVE MuxInv'
<1> DEFINE m == mux[r]
           sending == [m EXCEPT !.buf = @ - 1, !.sent = @ + 1]
           draining == [m EXCEPT !.at = "drain"]
           ended(why) == [m EXCEPT !.at = "ended", !.ctx = FALSE, !.why = why]
<1>1. m \in Subscription /\ Conserves(m)
    BY ZenonT(30) DEF MuxInv
<1>2. m.fw \in [Agents -> {"none", "dial", "recv", "push", "gone"}]
    BY <1>1, ZenonT(30) DEF Subscription
<1>3. m.taken \in Nat /\ m.sent \in Nat /\ m.buf \in Nat
    BY <1>1, ZenonT(30) DEF Subscription
<1>4. ASSUME NEW why \in {"SendFailed", "Unavailable", "Left"}, Ended(r, why),
             why = "Unavailable" => NoneLeft(m.fw) /\ m.sent = m.taken
      PROVE  MuxInv'
  <2>1. mux' = [mux EXCEPT ![r] = ended(why)]
    BY <1>4, ZenonT(30) DEF Ended, MuxInv
  <2> HIDE DEF m
  <2>2. ended(why) \in Subscription
    BY <1>1, ZenonT(30) DEF Subscription
  <2>3. /\ ended(why).at = "ended" /\ ended(why).why = why /\ ended(why).fw = m.fw
        /\ ended(why).sent = m.sent /\ ended(why).taken = m.taken
    BY <1>1, ZenonT(30) DEF Subscription
  <2> HIDE DEF ended
  <2>4. Conserves(ended(why))
    BY <1>4, <2>3, ZenonT(30) DEF Conserves
  <2> QED BY <2>1, <2>2, <2>4, OneSubscription, ZenonT(30)
<1>5. ASSUME Deliver(r) PROVE MuxInv'
  <2>1. CASE mux' = [mux EXCEPT ![r].buf = @ - 1, ![r].sent = @ + 1]
    <3>1. mux' = [mux EXCEPT ![r] = sending]
      BY <2>1, ZenonT(30) DEF MuxInv
    <3>2. m.buf > 0 /\ m.at \in {"select", "drain"}
      BY <1>5, ZenonT(30) DEF Deliver
    <3> HIDE DEF m
    <3>3. m.buf - 1 \in Nat /\ m.sent + 1 \in Nat
      BY <1>3, <3>2
    <3>4. sending \in Subscription
      BY <1>1, <3>3, ZenonT(30) DEF Subscription
    <3>5. /\ sending.at = m.at /\ sending.ctx = m.ctx /\ sending.why = m.why
          /\ sending.fw = m.fw /\ sending.taken = m.taken
          /\ sending.buf = m.buf - 1 /\ sending.sent = m.sent + 1
      BY <1>1, ZenonT(30) DEF Subscription
    <3> HIDE DEF sending
    <3>6. Conserves(sending)
      BY <1>1, <1>2, <1>3, <3>2, <3>5, PushingNat DEF Conserves
    <3> QED BY <3>1, <3>4, <3>6, OneSubscription, ZenonT(30)
  <2>2. CASE Ended(r, "SendFailed")
    BY <1>4, <2>2, ZenonT(30)
  <2> QED BY <1>5, <2>1, <2>2, ZenonT(30) DEF Deliver
<1>6. ASSUME AllGone(r) PROVE MuxInv'
  <2>1. mux' = [mux EXCEPT ![r] = draining] /\ m.at = "select" /\ NoneLeft(m.fw)
    BY <1>6, ZenonT(30) DEF AllGone, Gone, NoneLeft, MuxInv
  <2> HIDE DEF m
  <2>2. draining \in Subscription
    BY <1>1, ZenonT(30) DEF Subscription
  <2>3. /\ draining.at = "drain" /\ draining.why = m.why /\ draining.fw = m.fw
        /\ draining.taken = m.taken /\ draining.buf = m.buf /\ draining.sent = m.sent
    BY <1>1, ZenonT(30) DEF Subscription
  <2> HIDE DEF draining
  <2>4. Conserves(draining)
    BY <1>1, <2>1, <2>3, ZenonT(30) DEF Conserves
  <2> QED BY <2>1, <2>2, <2>4, OneSubscription, ZenonT(30)
<1>7. ASSUME Drained(r) PROVE MuxInv'
  <2>1. m.at = "drain" /\ m.buf = 0 /\ Ended(r, "Unavailable")
    BY <1>7, ZenonT(30) DEF Drained
  <2>2. NoneLeft(m.fw) /\ m.taken = m.sent + m.buf + Cardinality(Pushing(m.fw))
    BY <1>1, <2>1, ZenonT(30) DEF Conserves
  <2>3. Cardinality(Pushing(m.fw)) = 0
    BY <1>2, <2>2, PushingNat, ZenonT(30)
  <2> HIDE DEF m
  <2>4. m.sent = m.taken
    BY <1>3, <2>1, <2>2, <2>3
  <2> QED BY <1>4, <2>1, <2>2, <2>4, ZenonT(30)
<1>8. ASSUME Leave(r) PROVE MuxInv'
    BY <1>4, <1>8, ZenonT(30) DEF Leave
<1> QED BY <1>5, <1>6, <1>7, <1>8, ZenonT(30) DEF Handler

(* A subscription begins with nothing taken, whatever becomes of it.        *)
LEMMA SubscribeConserves ==
    ASSUME MuxInv, NEW r \in Requests, NEW filterOK \in BOOLEAN, SubscribeSpans(r, filterOK)
    PROVE  MuxInv'
<1> DEFINE refused(why) == [NoSub EXCEPT !.at = "ended", !.why = why]
           fw == [a \in Agents |-> IF a \in addrs THEN "dial" ELSE "none"]
           opened == [NoSub EXCEPT !.at = "select", !.ctx = TRUE, !.fw = fw]
<1>1. ASSUME NEW why \in {"InvalidArgument", "NoAgents"}
      PROVE  refused(why) \in Subscription /\ Conserves(refused(why))
    BY ZenonT(30) DEF Subscription, Conserves, NoSub
<1>2. fw \in [Agents -> {"none", "dial", "recv", "push", "gone"}] /\ Pushing(fw) = {}
    BY ZenonT(30) DEF Pushing
<1> HIDE DEF fw
<1>3. opened \in Subscription
    BY <1>2, ZenonT(30) DEF Subscription, NoSub
<1>4. /\ opened.at = "select" /\ opened.ctx = TRUE /\ opened.why = "none" /\ opened.fw = fw
      /\ opened.taken = 0 /\ opened.buf = 0 /\ opened.sent = 0
    BY ZenonT(30) DEF NoSub
<1>5. \E m \in {refused("InvalidArgument"), refused("NoAgents"), opened} :
         mux' = [mux EXCEPT ![r] = m]
    BY ZenonT(30) DEF SubscribeSpans, fw
<1> HIDE DEF refused, opened
<1>6. Conserves(opened)
    BY <1>2, <1>4, FS_EmptySet DEF Conserves
<1> QED BY <1>1, <1>3, <1>5, <1>6, OneSubscription, ZenonT(30)

(* Every step conserves the spans of every subscription.                    *)
LEMMA MuxStep == MuxInv /\ [MuxNext]_mux => MuxInv'
<1> SUFFICES ASSUME MuxInv, [MuxNext]_mux PROVE MuxInv'
    OBVIOUS
<1>1. NoSub \in Subscription /\ Conserves(NoSub)
    BY ZenonT(30) DEF NoSub, Subscription, Conserves
<1>2. ASSUME NEW r \in Requests, mux' = [mux EXCEPT ![r] = NoSub] PROVE MuxInv'
    BY <1>1, <1>2, OneSubscription, ZenonT(30)
<1>3. ASSUME UNCHANGED mux PROVE MuxInv'
    BY <1>3, ZenonT(30) DEF MuxInv
<1> QED BY <1>2, <1>3, ForwarderConserves, HandlerConserves, SubscribeConserves, ZenonT(30) DEF MuxNext

(* A subscriber that is told to resubscribe has been sent every span the    *)
(* forwarders took, for any agents, capacity and order of their ends        *)
(* (SubscribeSpans, forwardAgent).                                          *)
THEOREM ResubscribeAfterAll == Spec => []UnavailableAfterAll
<1>1. Init => MuxInv
    BY DEF Init, MuxInit, MuxInv, Subscription, Conserves, NoSub
<1>2. MuxInv /\ [Next]_vars => MuxInv'
    BY ComponentSteps, MuxStep, ZenonT(30)
<1>3. MuxInv => UnavailableAfterAll
    BY ZenonT(30) DEF MuxInv, Conserves, UnavailableAfterAll
<1> QED BY <1>1, <1>2, <1>3, PTL DEF Spec

-----------------------------------------------------------------------------
TTL(status) == IF status = 200 THEN AllowedTTL ELSE DeniedTTL

(* The API server would say the same now.                                   *)
Agrees(k, status) == status = 200 <=> k \in allowed

CallType == [at : {"idle", "authorize", "review", "store", "decided", "serving"},
             path : Paths \union {"none", "object"},
             who : Tokens \union {"none", "loopback", "anonymous", "certificate"},
             status : {0, 200, 401, 403, 500}, age : Nat]

AuthTypes ==
    /\ now \in Nat /\ changes \in Nat /\ allowed \subseteq Keys
    /\ changed \in [Keys -> Nat] /\ \A k \in Keys : changed[k] <= now
    /\ call \in [Requests -> CallType]
    /\ cache \in [DOMAIN cache -> [status : {200, 403}, expires : Nat]]
    /\ DOMAIN cache \subseteq Keys

(* An entry differs from the API server's mind for a bounded time only.     *)
Aging(k, e) ==
    /\ e.expires <= now + TTL(e.status)
    /\ Agrees(k, e.status) \/ e.expires - changed[k] <= ReviewTime + TTL(e.status)

(* So do the outcome of a review, which is as old as the review is slow,    *)
(* and a decision.                                                          *)
Sound(c) ==
    /\ c.at \in {"authorize", "review", "store"} => c.who \in Tokens
    /\ c.at \in {"authorize", "review", "store", "decided"} /\ c.who \in Tokens =>
          c.path \in Paths
    /\ c.at \in {"authorize", "review"} => c.age = 0
    /\ c.at = "store" =>
          /\ c.status \in {200, 403, 500} /\ c.age <= ReviewTime
          /\ \/ c.status = 500
             \/ Agrees(<<c.who, c.path>>, c.status)
             \/ now - changed[<<c.who, c.path>>] <= c.age
    /\ c.at = "decided" /\ c.who \in Tokens =>
          \/ c.status = 500
          \/ Agrees(<<c.who, c.path>>, c.status)
          \/ now - changed[<<c.who, c.path>>] <= ReviewTime + TTL(c.status)

AuthInv ==
    /\ AuthTypes
    /\ \A k \in DOMAIN cache : Aging(k, cache[k])
    /\ \A r \in Requests : Sound(call[r])

(* A step of one request that leaves the clock, the API server and the      *)
(* cache alone.                                                             *)
LEMMA OneCall ==
    ASSUME AuthInv, NEW r \in Requests, NEW c \in CallType, Sound(c),
           call' = [call EXCEPT ![r] = c], UNCHANGED <<now, allowed, changed, changes, cache>>
    PROVE  AuthInv'
<1>1. AuthTypes'
    BY ZenonT(30) DEF AuthInv, AuthTypes
<1>2. \A k \in DOMAIN cache' : Aging(k, cache[k])'
    BY ZenonT(30) DEF AuthInv, Aging, Agrees
<1>3. ASSUME NEW s \in Requests PROVE Sound(call[s])'
  <2>1. call'[s] = IF s = r THEN c ELSE call[s]
    BY DEF AuthInv, AuthTypes
  <2>2. Sound(call'[s])
    BY <2>1, ZenonT(30) DEF AuthInv
  <2> QED BY <2>2 DEF Sound, Agrees
<1> QED BY <1>1, <1>2, <1>3, ZenonT(30) DEF AuthInv

(* Requests that come and go, and decisions without a review.               *)
LEMMA ArrivalsSound ==
    ASSUME AuthInv, NEW r \in Requests,
           \/ \E path \in Paths, who \in Tokens \union {"loopback", "anonymous"} :
                 Wrap(r, path, who)
           \/ \E cn \in Names : ClientCert(r, "object", cn)
           \/ Serving(r) \/ Release(r)
    PROVE  AuthInv'
<1>1. ASSUME NEW path \in Paths, NEW who \in Tokens \union {"loopback", "anonymous"},
             Wrap(r, path, who)
      PROVE  AuthInv'
  <2> DEFINE d(status) == [at |-> "decided", path |-> path, who |-> who,
                           status |-> status, age |-> 0]
             a == [NoCall EXCEPT !.at = "authorize", !.path = path, !.who = who]
  <2>1. ASSUME NEW status \in {200, 401}, who \in {"loopback", "anonymous"}
        PROVE  d(status) \in CallType /\ Sound(d(status))
    <3>1. who \notin Tokens
      BY <2>1, AuthAssumption, ZenonT(30)
    <3> QED BY <2>1, <3>1, ZenonT(30) DEF CallType, Sound
  <2>2. ASSUME who \in Tokens PROVE a \in CallType /\ Sound(a)
    BY <2>2, ZenonT(30) DEF CallType, Sound, NoCall
  <2>3. \/ \E status \in {200, 401} : who \in {"loopback", "anonymous"}
                                      /\ call' = [call EXCEPT ![r] = d(status)]
        \/ who \in Tokens /\ call' = [call EXCEPT ![r] = a]
    BY <1>1, ZenonT(30) DEF Wrap, Decided
  <2>4. UNCHANGED <<now, allowed, changed, changes, cache>>
    BY <1>1, ZenonT(30) DEF Wrap
  <2> HIDE DEF d, a
  <2> QED BY <2>1, <2>2, <2>3, <2>4, OneCall, SMTT(30)
<1>2. ASSUME NEW cn \in Names, ClientCert(r, "object", cn) PROVE AuthInv'
  <2> DEFINE d(status) == [at |-> "decided", path |-> "object", who |-> "certificate",
                           status |-> status, age |-> 0]
  <2>1. ASSUME NEW status \in {200, 403} PROVE d(status) \in CallType /\ Sound(d(status))
    BY AuthAssumption DEF CallType, Sound
  <2>2. PICK status \in {200, 403} : call' = [call EXCEPT ![r] = d(status)]
    BY <1>2, ZenonT(30) DEF ClientCert, Decided
  <2>3. UNCHANGED <<now, allowed, changed, changes, cache>>
    BY <1>2, ZenonT(30) DEF ClientCert
  <2>4. d(status) \in CallType /\ Sound(d(status))
    BY <2>1, ZenonT(30)
  <2> HIDE DEF d
  <2> QED BY <2>2, <2>3, <2>4, OneCall, ZenonT(30)
<1>3. ASSUME Serving(r) PROVE AuthInv'
  <2> DEFINE c == [call[r] EXCEPT !.at = "serving"]
  <2>1. c \in CallType /\ Sound(c)
    BY DEF AuthInv, AuthTypes, CallType, Sound
  <2>2. call' = [call EXCEPT ![r] = c] /\ UNCHANGED <<now, allowed, changed, changes, cache>>
    BY <1>3, ZenonT(30) DEF Serving, AuthInv, AuthTypes
  <2> HIDE DEF c
  <2> QED BY <2>1, <2>2, OneCall, ZenonT(30)
<1>4. ASSUME Release(r) PROVE AuthInv'
  <2>1. NoCall \in CallType /\ Sound(NoCall)
    BY ZenonT(30) DEF NoCall, CallType, Sound
  <2> QED BY <1>4, <2>1, OneCall, ZenonT(30) DEF Release
<1> QED BY <1>1, <1>2, <1>3, <1>4, ZenonT(30)

(* A decision from the cache: the entry has not expired.                    *)
LEMMA CachedSound == ASSUME AuthInv, NEW r \in Requests, Cached(r) PROVE AuthInv'
<1> DEFINE c == call[r]
           k == KeyOf(r)
           d == [at |-> "decided", path |-> c.path, who |-> c.who,
                 status |-> cache[k].status, age |-> 0]
           m == [c EXCEPT !.at = "review"]
<1>1. c \in CallType /\ Sound(c) /\ c.at = "authorize" /\ k = <<c.who, c.path>>
    BY DEF AuthInv, AuthTypes, Cached, KeyOf
<1>2. k \in Keys /\ c.who \in Tokens /\ c.path \in Paths
    BY <1>1 DEF Sound, Keys
<1>3. UNCHANGED <<now, allowed, changed, changes, cache>>
    BY ZenonT(30) DEF Cached
<1>4. CASE Fresh(k)
  <2>1. /\ k \in DOMAIN cache /\ now <= cache[k].expires
        /\ cache[k] \in [status : {200, 403}, expires : Nat] /\ Aging(k, cache[k])
    BY <1>4, ZenonT(30) DEF Fresh, AuthInv, AuthTypes
  <2>2. now \in Nat /\ changed[k] \in Nat /\ TTL(cache[k].status) \in Nat /\ ReviewTime \in Nat
    BY <1>2, AuthAssumption DEF AuthInv, AuthTypes, TTL
  <2>3. \/ Agrees(k, cache[k].status)
        \/ now - changed[k] <= ReviewTime + TTL(cache[k].status)
    BY <2>1, <2>2 DEF Aging
  <2>4. d \in CallType
    BY <1>1, <2>1 DEF CallType
  <2>5. Sound(d)
    BY <1>1, <1>2, <2>3, ZenonT(30) DEF Sound
  <2>6. call' = [call EXCEPT ![r] = d]
    BY <1>4, ZenonT(30) DEF Cached, Decided
  <2> HIDE DEF d
  <2> QED BY <1>3, <2>4, <2>5, <2>6, OneCall, ZenonT(30)
<1>5. CASE ~Fresh(k)
  <2>1. call' = [call EXCEPT ![r] = m]
    BY <1>5, ZenonT(30) DEF Cached, AuthInv, AuthTypes
  <2> HIDE DEF c
  <2>2. m \in CallType /\ Sound(m)
    BY <1>1 DEF CallType, Sound
  <2> HIDE DEF m
  <2> QED BY <1>3, <2>1, <2>2, OneCall, ZenonT(30)
<1> QED BY <1>4, <1>5, ZenonT(30)

(* A review says what the API server thinks now.                            *)
LEMMA ReviewSound == ASSUME AuthInv, NEW r \in Requests, Review(r) PROVE AuthInv'
<1> DEFINE c == call[r]
           z(s) == [at |-> "store", path |-> c.path, who |-> c.who, status |-> s,
                    age |-> c.age]
<1>1. c \in CallType /\ Sound(c) /\ c.at = "review" /\ KeyOf(r) = <<c.who, c.path>>
    BY ZenonT(30) DEF AuthInv, AuthTypes, Review, KeyOf
<1>2. PICK status \in {500} \union (IF KeyOf(r) \in allowed THEN {200} ELSE {403}) :
          call' = [call EXCEPT ![r] = z(status)]
  <2>0. call \in [Requests -> CallType]
    BY ZenonT(30) DEF AuthInv, AuthTypes
  <2>1. ASSUME NEW s, call' = [call EXCEPT ![r].at = "store", ![r].status = s]
        PROVE  call' = [call EXCEPT ![r] = z(s)]
    <3>1. call' = [call EXCEPT ![r] = [[c EXCEPT !.at = "store"] EXCEPT !.status = s]]
      BY <2>0, <2>1, ZenonT(30)
    <3> HIDE DEF c
    <3> DEFINE b == [at |-> "store", path |-> c.path, who |-> c.who, status |-> c.status,
                     age |-> c.age]
    <3>2. [c EXCEPT !.at = "store"] = b
      BY <1>1 DEF CallType
    <3>3. [b EXCEPT !.status = s] = z(s)
      OBVIOUS
    <3> HIDE DEF b, z
    <3> QED BY <3>1, <3>2, <3>3, ZenonT(30)
  <2>2. PICK s \in {500} \union (IF KeyOf(r) \in allowed THEN {200} ELSE {403}) :
            call' = [call EXCEPT ![r].at = "store", ![r].status = s]
    BY ZenonT(30) DEF Review
  <2>3. call' = [call EXCEPT ![r] = z(s)]
    BY <2>1, <2>2, ZenonT(30)
  <2> HIDE DEF z
  <2> QED BY <2>2, <2>3, ZenonT(30)
<1>3. UNCHANGED <<now, allowed, changed, changes, cache>>
    BY ZenonT(30) DEF Review
<1>4. status \in {200, 403, 500} /\ (status # 500 => Agrees(KeyOf(r), status))
    BY <1>2 DEF Agrees
<1> HIDE DEF c
<1>5. z(status) \in CallType
  <2>1. status \in {0, 200, 401, 403, 500}
    BY <1>4, ZenonT(30)
  <2> QED BY <1>1, <2>1 DEF CallType
<1>6. Sound(z(status))
    BY <1>1, <1>4, AuthAssumption DEF Sound, CallType
<1> HIDE DEF z
<1> QED BY <1>2, <1>3, <1>5, <1>6, OneCall, ZenonT(30)

(* What there is room for was in the cache before.                          *)
LEMMA RoomKeeps ==
    ASSUME AuthTypes
    PROVE  /\ DOMAIN Room(cache) \subseteq DOMAIN cache
           /\ \A k \in DOMAIN Room(cache) : Room(cache)[k] = cache[k]
<1> DEFINE live == {k \in DOMAIN cache : now <= cache[k].expires}
<1>1. DOMAIN Restrict(cache, live) = live /\ live \subseteq DOMAIN cache
    BY ZenonT(30) DEF Restrict
<1>2. \A k \in live : Restrict(cache, live)[k] = cache[k]
    BY ZenonT(30) DEF Restrict
<1>3. DOMAIN <<>> = {}
    OBVIOUS
<1>4. Room(cache) \in {cache, Restrict(cache, live), <<>>}
    BY ZenonT(30) DEF Room
<1> HIDE DEF live
<1> QED BY <1>1, <1>2, <1>3, <1>4, ZenonT(30)

(* The outcome of a review becomes a decision and an entry.                 *)
LEMMA StoreSound == ASSUME AuthInv, NEW r \in Requests, Store(r) PROVE AuthInv'
<1> DEFINE c == call[r]
           k == KeyOf(r)
           s == c.status
           d == [at |-> "decided", path |-> c.path, who |-> c.who, status |-> s, age |-> 0]
           e == [status |-> s, expires |-> now + TTL(s)]
<1>1. c \in CallType /\ Sound(c) /\ c.at = "store" /\ k = <<c.who, c.path>>
    BY DEF AuthInv, AuthTypes, Store, KeyOf
<1>2. k \in Keys /\ c.who \in Tokens /\ c.path \in Paths
    BY <1>1 DEF Sound, Keys
<1>3. now \in Nat /\ changed[k] \in Nat /\ TTL(s) \in Nat /\ ReviewTime \in Nat /\ c.age \in Nat
    BY <1>1, <1>2, AuthAssumption, SMTT(30) DEF AuthInv, AuthTypes, TTL, CallType
<1>4. s \in {200, 403, 500} /\ c.age <= ReviewTime
    BY <1>1, ZenonT(30) DEF Sound
<1>5. s = 500 \/ Agrees(k, s) \/ now - changed[k] <= c.age
    BY <1>1 DEF Sound
<1>6. d \in CallType
    BY <1>1, SMTT(30) DEF CallType
<1>7. Sound(d)
  <2>1. s = 500 \/ Agrees(k, s) \/ now - changed[k] <= ReviewTime + TTL(s)
    <3>1. now - changed[k] <= c.age => now - changed[k] <= ReviewTime + TTL(s)
      BY <1>3, <1>4
    <3> QED BY <1>5, <3>1, ZenonT(30)
  <2> QED BY <1>1, <1>2, <2>1, SMTT(30) DEF Sound
<1>8. call' = [call EXCEPT ![r] = d] /\ UNCHANGED <<now, allowed, changed, changes>>
    BY ZenonT(30) DEF Store, Decided
<1>9. cache' = IF s = 500 THEN cache
               ELSE [x \in DOMAIN Room(cache) \union {k} |-> IF x = k THEN e ELSE Room(cache)[x]]
    BY ZenonT(30) DEF Store, TTL
<1>10. ASSUME s # 500
       PROVE  e \in [status : {200, 403}, expires : Nat] /\ Aging(k, e)
  <2>1. e.status = s /\ e.expires = now + TTL(s)
    OBVIOUS
  <2>2. now + TTL(s) \in Nat /\ s \in {200, 403}
    BY <1>3, <1>4, <1>10
  <2>3. Agrees(k, s) \/ (now + TTL(s)) - changed[k] <= ReviewTime + TTL(s)
    <3>1. now - changed[k] <= c.age => (now + TTL(s)) - changed[k] <= ReviewTime + TTL(s)
      BY <1>3, <1>4
    <3> QED BY <1>5, <1>10, <3>1, ZenonT(30)
  <2>4. now + TTL(s) <= now + TTL(s)
    BY <1>3
  <2> QED BY <2>1, <2>2, <2>3, <2>4, ZenonT(30) DEF Aging
<1> HIDE DEF d, e, c, s, k
<1>11. /\ cache' \in [DOMAIN cache' -> [status : {200, 403}, expires : Nat]]
       /\ DOMAIN cache' \subseteq Keys
       /\ \A x \in DOMAIN cache' : Aging(x, cache'[x])
  <2>1. CASE s = 500
    BY <1>9, <2>1, ZenonT(30) DEF AuthInv, AuthTypes
  <2>2. CASE s # 500
    BY <1>2, <1>9, <1>10, <2>2, RoomKeeps DEF AuthInv, AuthTypes
  <2> QED BY <2>1, <2>2, ZenonT(30)
<1>12. AuthTypes'
    BY <1>6, <1>8, <1>11, ZenonT(30) DEF AuthInv, AuthTypes
<1>13. \A x \in DOMAIN cache' : Aging(x, cache[x])'
    BY <1>8, <1>11, ZenonT(30) DEF Aging, Agrees
<1>14. ASSUME NEW q \in Requests PROVE Sound(call[q])'
  <2>1. call'[q] = IF q = r THEN d ELSE call[q]
    BY <1>8 DEF AuthInv, AuthTypes
  <2>2. Sound(call'[q])
    BY <1>7, <2>1, ZenonT(30) DEF AuthInv
  <2> QED BY <1>8, <2>2 DEF Sound, Agrees
<1> QED BY <1>12, <1>13, <1>14, ZenonT(30) DEF AuthInv

(* The API server changes its mind: no entry and no decision is older than  *)
(* that, and if one was wrong it is right now.                              *)
LEMMA PermissionSound == ASSUME AuthInv, NEW k \in Keys, PermissionChanges(k) PROVE AuthInv'
<1>0. now \in Nat /\ changed \in [Keys -> Nat] /\ ReviewTime \in Nat
    BY AuthAssumption, ZenonT(30) DEF AuthInv, AuthTypes
<1>1. /\ changed' = [changed EXCEPT ![k] = now] /\ UNCHANGED <<now, cache, call>>
      /\ \A x \in Keys \ {k} : changed'[x] = changed[x] /\ (x \in allowed' <=> x \in allowed)
      /\ changed'[k] = now
    BY <1>0, ZenonT(30) DEF PermissionChanges
<1>2. AuthTypes'
    BY <1>0, <1>1 DEF PermissionChanges, AuthInv, AuthTypes
<1>3. ASSUME NEW x \in DOMAIN cache' PROVE Aging(x, cache[x])'
  <2>1. Aging(x, cache[x]) /\ x \in Keys /\ cache[x].expires \in Nat /\ TTL(cache[x].status) \in Nat
    BY <1>1, AuthAssumption, ZenonT(30) DEF AuthInv, AuthTypes, TTL
  <2>2. CASE x = k
    BY <1>0, <1>1, <2>1, <2>2, SMTT(30) DEF Aging
  <2>3. CASE x # k
    BY <1>1, <2>1, <2>3, ZenonT(30) DEF Aging, Agrees
  <2> QED BY <2>2, <2>3, ZenonT(30)
<1>4. ASSUME NEW q \in Requests PROVE Sound(call[q])'
  <2> DEFINE c == call[q]
             x == <<c.who, c.path>>
  <2>1. Sound(c) /\ c \in CallType
    BY DEF AuthInv, AuthTypes
  <2>2. c.age \in Nat /\ TTL(c.status) \in Nat
    BY <2>1, AuthAssumption, ZenonT(30) DEF CallType, TTL
  <2>3. c.at \in {"store", "decided"} /\ c.who \in Tokens => x \in Keys
    BY <2>1, ZenonT(30) DEF Sound, Keys
  <2>4. call'[q] = c
    BY <1>1, ZenonT(30)
  <2> HIDE DEF c
  <2>5. CASE x = k
    <3>1. now - changed'[x] = 0
      BY <1>0, <1>1, <2>5
    <3>2. now' - changed'[x] <= c.age /\ now' - changed'[x] <= ReviewTime + TTL(c.status)
      BY <1>0, <1>1, <2>2, <3>1, SMTT(30)
    <3> QED BY <2>1, <2>4, <3>2, ZenonT(30) DEF Sound
  <2>6. CASE x # k
    <3>1. x \in Keys => changed'[x] = changed[x] /\ (x \in allowed' <=> x \in allowed)
      BY <1>1, <2>6, ZenonT(30)
    <3>2. c.at = "store" => c.who \in Tokens
      BY <2>1, ZenonT(30) DEF Sound
    <3> QED BY <1>1, <2>1, <2>3, <2>4, <3>1, <3>2 DEF Sound, Agrees
  <2> QED BY <2>5, <2>6, ZenonT(30)
<1> QED BY <1>2, <1>3, <1>4, ZenonT(30) DEF AuthInv

(* Time passes: a review in flight ages, and nothing is decided yet.        *)
LEMMA TickSound == ASSUME AuthInv, AuthTick PROVE AuthInv'
<1>0. now \in Nat /\ changed \in [Keys -> Nat] /\ ReviewTime \in Nat
    BY AuthAssumption, ZenonT(30) DEF AuthInv, AuthTypes
<1>1. now' = now + 1 /\ UNCHANGED <<allowed, changed, changes, cache>>
    BY ZenonT(30) DEF AuthTick
<1>2. ASSUME NEW q \in Requests PROVE call'[q] \in CallType /\ Sound(call[q])'
  <2> DEFINE c == call[q]
             x == <<c.who, c.path>>
             z == [c EXCEPT !.age = @ + 1]
  <2>1. Sound(c) /\ c \in CallType /\ c.age \in Nat
    BY DEF AuthInv, AuthTypes, CallType
  <2>2. \/ c.at \in {"idle", "authorize", "review"}
        \/ c.at = "store" /\ c.age < ReviewTime
    BY ZenonT(30) DEF AuthTick
  <2>3. call'[q] = IF c.at = "store" THEN z ELSE c
    BY ZenonT(30) DEF AuthTick
  <2> HIDE DEF c
  <2>4. CASE c.at = "store"
    <3>1. z \in CallType
      BY <2>1 DEF CallType
    <3>2. z.at = "store" /\ z.who = c.who /\ z.path = c.path /\ z.status = c.status
          /\ z.age = c.age + 1
      BY <2>1, <2>4, ZenonT(30) DEF CallType
    <3>3. z.age <= ReviewTime
      BY <1>0, <2>1, <2>2, <2>4, <3>2, SMTT(30)
    <3>4. x \in Keys /\ c.who \in Tokens /\ c.path \in Paths /\ changed[x] \in Nat
      BY <1>0, <2>1, <2>4 DEF Sound, Keys
    <3>5. now - changed[x] <= c.age => now' - changed'[x] <= z.age
      BY <1>0, <1>1, <2>1, <3>2, <3>4
    <3>6. c.status = 500 \/ Agrees(x, c.status) \/ now - changed[x] <= c.age
      BY <2>1, <2>4, ZenonT(30) DEF Sound
    <3>8. call'[q] = z
      BY <2>3, <2>4, ZenonT(30)
    <3>9. c.status \in {200, 403, 500}
      BY <2>1, <2>4, ZenonT(30) DEF Sound
    <3> HIDE DEF z
    <3> QED BY <1>1, <3>1, <3>2, <3>3, <3>4, <3>5, <3>6, <3>8, <3>9 DEF Sound, Agrees
  <2>5. CASE c.at # "store"
    <3>1. call'[q] = c /\ c.at \in {"idle", "authorize", "review"}
      BY <2>2, <2>3, <2>5, ZenonT(30)
    <3> QED BY <2>1, <3>1, ZenonT(30) DEF Sound
  <2> QED BY <2>4, <2>5, ZenonT(30)
<1>3. call' \in [Requests -> CallType]
  <2>1. call' = [q \in Requests |-> call'[q]]
    BY ZenonT(30) DEF AuthTick
  <2> QED BY <1>2, <2>1, ZenonT(30)
<1>4. AuthTypes'
    BY <1>0, <1>1, <1>3 DEF AuthInv, AuthTypes
<1>5. ASSUME NEW x \in DOMAIN cache' PROVE Aging(x, cache[x])'
  <2>1. Aging(x, cache[x]) /\ cache[x].expires \in Nat /\ TTL(cache[x].status) \in Nat
    BY <1>1, AuthAssumption DEF AuthInv, AuthTypes, TTL
  <2> QED BY <1>0, <1>1, <2>1 DEF Aging, Agrees
<1> QED BY <1>2, <1>4, <1>5, ZenonT(30) DEF AuthInv

(* Every step keeps entries and decisions within their time.                *)
LEMMA AuthSteps == AuthInv /\ [AuthNext]_authVars => AuthInv'
<1> SUFFICES ASSUME AuthInv, [AuthNext]_authVars PROVE AuthInv'
    BY ZenonT(30)
<1>1. ASSUME UNCHANGED authVars PROVE AuthInv'
  <2>1. AuthTypes'
    BY <1>1, ZenonT(30) DEF authVars, AuthInv, AuthTypes
  <2> QED BY <1>1, <2>1 DEF authVars, AuthInv, Aging, Sound, Agrees
<1> QED BY <1>1, ArrivalsSound, CachedSound, ReviewSound, StoreSound, PermissionSound,
           TickSound, ZenonT(30) DEF AuthNext, AuthStep

(* A decision differs from the API server's for no longer than the TTL of   *)
(* its kind and the review that led to it, for any times, any size of the   *)
(* cache and any number of requests that share it (Authorize, store).       *)
THEOREM DecisionsAge == Spec => []DecisionsAgeOut
<1>1. Init => AuthInv
  <2> SUFFICES ASSUME AuthInit PROVE AuthInv
    BY ZenonT(30) DEF Init
  <2>1. AuthTypes
    BY DEF AuthInit, AuthTypes, NoCall, CallType
  <2> QED BY <2>1 DEF AuthInit, AuthInv, NoCall, Sound
<1>2. AuthInv /\ [Next]_vars => AuthInv'
    BY ComponentSteps, AuthSteps, ZenonT(30)
<1>3. AuthInv => DecisionsAgeOut
    BY DEF AuthInv, Sound, Agrees, TTL, DecisionsAgeOut, KeyOf
<1> QED BY <1>1, <1>2, <1>3, PTL DEF Spec

-----------------------------------------------------------------------------
(* The query server: its registry, and the shards of the sinks.             *)

Announcing(s) == {i \in Streams : server[i].address = s}

Types ==
    /\ registry \in [Sinks -> Nat]
    /\ client \in [Sinks -> Streams \union {"none"}]
    /\ acked \subseteq Sinks
    /\ server \in [Streams -> [up : BOOLEAN, address : Sinks \union {"none"}]]

(* A stream is of one sink at most.                                         *)
Exclusive ==
    \A s, t \in Sinks : client[s] = client[t] /\ client[s] \in Streams => s = t

(* A handler that has returned announces nothing.                           *)
ReturnedSilent == \A i \in Streams : ~server[i].up => server[i].address = "none"

(* The registry counts, per address, the handlers that announce it.         *)
Counted == \A s \in Sinks : registry[s] = Cardinality(Announcing(s))

(* A sink with an answer has a stream, whose handler announces the sink.    *)
AckedAnnounce ==
    \A s \in acked :
        /\ client[s] \in Streams
        /\ server[client[s]].up => server[client[s]].address = s

RegistryInv == Types /\ Exclusive /\ ReturnedSilent /\ Counted /\ AckedAnnounce

-----------------------------------------------------------------------------
(* The streams that announce a sink are finitely many.                      *)
LEMMA AnnouncingFinite ==
    ASSUME NEW s \in Sinks
    PROVE  IsFiniteSet(Announcing(s)) /\ Cardinality(Announcing(s)) \in Nat
<1>1. Announcing(s) \in SUBSET Streams
    BY ZenonT(30) DEF Announcing
<1>2. IsFiniteSet(Announcing(s))
    BY <1>1, FS_Subset, ServerAssumption, ZenonT(30)
<1> QED BY <1>2, FS_CardinalityType, ZenonT(30)

(* One stream more or less.                                                 *)
LEMMA CountStep ==
    ASSUME NEW S, NEW T, NEW i, IsFiniteSet(S)
    PROVE  /\ T = S \union {i} /\ i \notin S => Cardinality(T) = Cardinality(S) + 1
           /\ T = S \ {i} /\ i \in S => Cardinality(T) = Cardinality(S) - 1
  BY FS_AddElement, FS_RemoveElement, ZenonT(30)

(* Nothing is registered at first, and nobody has a stream.                 *)
LEMMA RegistryInit == ServerInit => RegistryInv
<1> SUFFICES ASSUME ServerInit PROVE RegistryInv
    OBVIOUS
<1>1. Types
    BY ZenonT(30) DEF ServerInit, Types, NoStream
<1>2. Exclusive
    BY ServerAssumption, ZenonT(30) DEF ServerInit, Exclusive
<1>3. ReturnedSilent /\ AckedAnnounce
    BY ZenonT(30) DEF ServerInit, ReturnedSilent, AckedAnnounce, NoStream
<1>4. \A s \in Sinks : Announcing(s) = {}
    BY ServerAssumption, ZenonT(30) DEF ServerInit, Announcing, NoStream
<1>5. Counted
    BY <1>4, FS_EmptySet, ZenonT(30) DEF ServerInit, Counted
<1> QED BY <1>1, <1>2, <1>3, <1>5, ZenonT(30) DEF RegistryInv

(* A handler returns: its address is counted once less, the others as       *)
(* before.                                                                  *)
LEMMA ReturnCounts ==
    ASSUME RegistryInv, NEW i \in Streams, Returns(i)
    PROVE  /\ registry' \in [Sinks -> Nat]
           /\ server' \in [Streams -> [up : BOOLEAN, address : Sinks \union {"none"}]]
           /\ Counted' /\ ReturnedSilent'
<1>0. Types /\ Counted /\ ReturnedSilent
    BY ZenonT(30) DEF RegistryInv
<1>1. server' \in [Streams -> [up : BOOLEAN, address : Sinks \union {"none"}]]
    BY <1>0, ZenonT(30) DEF Types, Returns, NoStream
<1>2. ReturnedSilent'
    BY <1>0, ZenonT(30) DEF Types, Returns, NoStream, ReturnedSilent
<1>3. \A s \in Sinks : Announcing(s)' = Announcing(s) \ {i}
    BY <1>0, ServerAssumption, ZenonT(30) DEF Types, Returns, NoStream, Announcing
<1>4. CASE server[i].address \notin Sinks
  <2>1. registry' = registry
      BY <1>4, ZenonT(30) DEF Returns
  <2>2. \A s \in Sinks : Announcing(s)' = Announcing(s)
      BY <1>3, <1>4, ZenonT(30) DEF Announcing
  <2>3. \A s \in Sinks : Cardinality(Announcing(s)') = Cardinality(Announcing(s))
      BY <2>2, ZenonT(30)
  <2>4. Counted'
      BY <1>0, <2>1, <2>3, ZenonT(30) DEF Counted
  <2> QED BY <1>0, <1>1, <1>2, <2>1, <2>4, ZenonT(30) DEF Types
<1>5. CASE server[i].address \in Sinks
  <2>0. PICK a \in Sinks : a = server[i].address
      BY <1>5, ZenonT(30)
  <2>1. registry' = [registry EXCEPT ![a] = IF @ <= 1 THEN 0 ELSE @ - 1]
      BY <1>5, <2>0, ZenonT(30) DEF Returns, Unregister
  <2>2. i \in Announcing(a)
      BY <2>0, ZenonT(30) DEF Announcing
  <2>3. Cardinality(Announcing(a)') = Cardinality(Announcing(a)) - 1
      BY <1>3, <1>5, <2>2, AnnouncingFinite, CountStep, ZenonT(30)
  <2>4. Cardinality(Announcing(a)) >= 1
    <3>1. IsFiniteSet(Announcing(a)) /\ Cardinality(Announcing(a)) \in Nat
        BY <1>5, AnnouncingFinite, ZenonT(30)
    <3>2. Cardinality(Announcing(a)) # 0
        BY <2>2, <3>1, FS_EmptySet, ZenonT(30)
    <3> QED BY <3>1, <3>2
  <2>5. registry[a] = Cardinality(Announcing(a)) /\ registry[a] \in Nat
      BY <1>0, <1>5, ZenonT(30) DEF Counted, Types
  <2>6. registry'[a] = registry[a] - 1
      BY <1>0, <1>5, <2>1, <2>4, <2>5 DEF Types
  <2>7. \A s \in Sinks \ {a} : /\ registry'[s] = registry[s]
                               /\ Announcing(s)' = Announcing(s)
      BY <1>0, <1>3, <2>0, <2>1, ZenonT(30) DEF Types, Announcing
  <2>8. \A s \in Sinks : registry'[s] = Cardinality(Announcing(s)')
      BY <1>0, <2>3, <2>5, <2>6, <2>7, ZenonT(30) DEF Counted
  <2>9. registry' \in [Sinks -> Nat]
      BY <1>0, <1>5, <2>1 DEF Types
  <2> QED BY <1>1, <1>2, <2>8, <2>9, ZenonT(30) DEF Counted
<1> QED BY <1>4, <1>5, ZenonT(30)

(* Every step keeps the registry's invariant.                               *)
LEMMA RegistryStep == RegistryInv /\ [ServerNext]_serverVars => RegistryInv'
<1> SUFFICES ASSUME RegistryInv, [ServerNext]_serverVars PROVE RegistryInv'
    OBVIOUS
<1>0. Types /\ Exclusive /\ ReturnedSilent /\ Counted /\ AckedAnnounce
    BY ZenonT(30) DEF RegistryInv
<1>1. ASSUME UNCHANGED <<registry, client, acked, server>> PROVE RegistryInv'
  <2>1. \A s \in Sinks : Announcing(s)' = Announcing(s)
      BY <1>1, ZenonT(30) DEF Announcing
  <2> QED BY <1>0, <1>1, <2>1, ZenonT(30) DEF RegistryInv, Types, Exclusive, ReturnedSilent,
                                 Counted, AckedAnnounce
<1>2. ASSUME NEW s \in Sinks, Open(s) PROVE RegistryInv'
  <2>1. PICK i \in Streams :
            /\ ~server[i].up /\ \A x \in Sinks : client[x] # i
            /\ client' = [client EXCEPT ![s] = i]
            /\ server' = [server EXCEPT ![i].up = TRUE]
      BY <1>2, ZenonT(30) DEF Open
  <2>2. client[s] = "none" /\ UNCHANGED <<registry, acked>>
      BY <1>2, ZenonT(30) DEF Open
  <2>3. \A j \in Streams : server'[j].address = server[j].address
      BY <1>0, <2>1, ZenonT(30) DEF Types
  <2>4. \A t \in Sinks : Announcing(t)' = Announcing(t)
      BY <2>3, ZenonT(30) DEF Announcing
  <2>5. Types' /\ Counted'
      BY <1>0, <2>1, <2>2, <2>4, ZenonT(30) DEF Types, Counted
  <2>6. Exclusive' /\ ReturnedSilent'
      BY <1>0, <2>1, <2>2, ZenonT(30) DEF Types, Exclusive, ReturnedSilent
  <2>7. s \notin acked
      BY <1>0, <2>2, ServerAssumption, ZenonT(30) DEF AckedAnnounce
  <2>8. AckedAnnounce'
      BY <1>0, <2>1, <2>2, <2>7, ZenonT(30) DEF Types, AckedAnnounce
  <2> QED BY <2>5, <2>6, <2>8, ZenonT(30) DEF RegistryInv
<1>3. ASSUME NEW s \in Sinks, Heartbeat(s) PROVE RegistryInv'
  <2>1. PICK i \in Streams : i = client[s]
      BY <1>3, ZenonT(30) DEF Heartbeat
  <2>2. PICK old \in Sinks \union {"none"} : old = server[i].address
      BY <1>0, <2>1, ZenonT(30) DEF Types
  <2>3. /\ server[i].up
        /\ registry' = [x \in Sinks |->
               IF x = old /\ old # s THEN registry[x] - 1
               ELSE IF x = s /\ old # s THEN registry[x] + 1 ELSE registry[x]]
        /\ server' = [server EXCEPT ![i].address = s]
        /\ acked' = acked \union {s} /\ client' = client
      BY <1>3, <2>1, <2>2, ZenonT(30) DEF Heartbeat
  <2>4. server' \in [Streams -> [up : BOOLEAN, address : Sinks \union {"none"}]]
      BY <1>0, <2>3, ZenonT(30) DEF Types
  <2>5. /\ server'[i].address = s /\ server'[i].up
        /\ \A j \in Streams \ {i} : server'[j] = server[j]
      BY <1>0, <2>3, ZenonT(30) DEF Types
  <2>6. \A t \in Sinks : /\ registry[t] \in Nat
                         /\ IsFiniteSet(Announcing(t))
                         /\ registry[t] = Cardinality(Announcing(t))
      BY <1>0, AnnouncingFinite, ZenonT(30) DEF Types, Counted
  <2>7. \A t \in Sinks : registry'[t] \in Nat /\ registry'[t] = Cardinality(Announcing(t)')
    <3> SUFFICES ASSUME NEW t \in Sinks
                 PROVE  registry'[t] \in Nat /\ registry'[t] = Cardinality(Announcing(t)')
        OBVIOUS
    <3>1. CASE old = s \/ t \notin {old, s}
      <4>1. registry'[t] = registry[t]
          BY <2>3, <3>1, ZenonT(30)
      <4>2. Announcing(t)' = Announcing(t)
          BY <2>2, <2>5, <3>1, ZenonT(30) DEF Announcing
      <4> QED BY <2>6, <4>1, <4>2, ZenonT(30)
    <3>2. CASE old # s /\ t = s
      <4>1. registry'[t] = registry[t] + 1
          BY <2>3, <3>2, ZenonT(30)
      <4>2. Announcing(t)' = Announcing(t) \union {i} /\ i \notin Announcing(t)
          BY <2>2, <2>5, <3>2, ZenonT(30) DEF Announcing
      <4> QED BY <2>6, <4>1, <4>2, CountStep
    <3>3. CASE old # s /\ t = old
      <4>1. registry'[t] = registry[t] - 1
          BY <2>3, <3>3, ZenonT(30)
      <4>2. Announcing(t)' = Announcing(t) \ {i} /\ i \in Announcing(t)
          BY <2>2, <2>5, <3>3 DEF Announcing
      <4>3. Cardinality(Announcing(t)') = Cardinality(Announcing(t)) - 1
          BY <2>6, <4>2, CountStep, ZenonT(30)
      <4>4. Cardinality(Announcing(t)) # 0
          BY <2>6, <4>2, FS_EmptySet, ZenonT(30)
      <4> QED BY <2>6, <4>1, <4>3, <4>4
    <3> QED BY <3>1, <3>2, <3>3, ZenonT(30)
  <2>8. Types'
      BY <1>0, <2>3, <2>4, <2>7, ZenonT(30) DEF Types
  <2>9. Counted'
      BY <2>7, ZenonT(30) DEF Counted
  <2>10. Exclusive' /\ ReturnedSilent'
      BY <1>0, <2>3, <2>5, ZenonT(30) DEF Exclusive, ReturnedSilent
  <2>11. AckedAnnounce'
    <3>1. \A t \in acked : t # s => client[t] # i
        BY <1>0, <2>1, ZenonT(30) DEF Types, Exclusive
    <3> QED BY <1>0, <2>1, <2>3, <2>5, <3>1, ZenonT(30) DEF Types, AckedAnnounce
  <2> QED BY <2>8, <2>9, <2>10, <2>11, ZenonT(30) DEF RegistryInv
<1>4. ASSUME NEW s \in Sinks, ClientBreaks(s) \/ ClientNotices(s) PROVE RegistryInv'
  <2>1. /\ client' = [client EXCEPT ![s] = "none"] /\ acked' = acked \ {s}
        /\ UNCHANGED <<registry, server>>
      BY <1>4, ZenonT(30) DEF ClientBreaks, ClientNotices, Left
  <2>2. \A t \in Sinks : Announcing(t)' = Announcing(t)
      BY <2>1, ZenonT(30) DEF Announcing
  <2>3. Types' /\ Counted' /\ ReturnedSilent'
      BY <1>0, <2>1, <2>2, ZenonT(30) DEF Types, Counted, ReturnedSilent
  <2>4. Exclusive' /\ AckedAnnounce'
      BY <1>0, <2>1, ServerAssumption, ZenonT(30) DEF Types, Exclusive, AckedAnnounce
  <2> QED BY <2>3, <2>4, ZenonT(30) DEF RegistryInv
<1>5. ASSUME NEW i \in Streams, ServerBreaks(i) \/ ServerNotices(i) PROVE RegistryInv'
  <2>1. /\ Returns(i) /\ client' = client /\ acked' \subseteq acked
        /\ \A s \in acked' : client[s] # i
      BY <1>0, <1>5, ZenonT(30) DEF ServerBreaks, ServerNotices, Types
  <2>2. \A j \in Streams \ {i} : server'[j] = server[j]
      BY <1>0, <2>1, ZenonT(30) DEF Returns, Types
  <2>3. Types' /\ Counted' /\ ReturnedSilent'
      BY <1>0, <2>1, ReturnCounts, ZenonT(30) DEF Types
  <2>4. Exclusive' /\ AckedAnnounce'
      BY <1>0, <2>1, <2>2, ZenonT(30) DEF Types, Exclusive, AckedAnnounce
  <2> QED BY <2>3, <2>4, ZenonT(30) DEF RegistryInv
<1>6. ASSUME Restart PROVE RegistryInv'
  <2>1. \A s \in Sinks : Announcing(s)' = {}
      BY <1>6, ServerAssumption, ZenonT(30) DEF Restart, NoStream, Announcing
  <2>2. Counted'
      BY <1>6, <2>1, FS_EmptySet, ZenonT(30) DEF Restart, Counted
  <2>3. Types' /\ Exclusive' /\ ReturnedSilent' /\ AckedAnnounce'
      BY <1>0, <1>6, ZenonT(30) DEF Restart, NoStream, Types, Exclusive, ReturnedSilent, AckedAnnounce
  <2> QED BY <2>2, <2>3, ZenonT(30) DEF RegistryInv
<1> QED
  BY <1>1, <1>2, <1>3, <1>4, <1>5, <1>6, ZenonT(30) DEF ServerNext, Registration, registryVars, serverVars

(* A sink that was told it is registered is in the registry while both ends *)
(* hold its stream, however many earlier streams of it are still to end     *)
(* (Register, Unregister).                                                  *)
THEOREM AckedRegistered == ServerSpec => []AckedAreRegistered
<1>1. RegistryInv => AckedAreRegistered
  <2> SUFFICES ASSUME RegistryInv, NEW s \in acked, client[s] \in Streams,
                      server[client[s]].up
               PROVE  registry[s] > 0
      BY ZenonT(30) DEF AckedAreRegistered
  <2>1. s \in Sinks /\ client[s] \in Announcing(s)
      BY ZenonT(30) DEF RegistryInv, Types, AckedAnnounce, Announcing
  <2>2. Cardinality(Announcing(s)) # 0 /\ Cardinality(Announcing(s)) \in Nat
      BY <2>1, AnnouncingFinite, FS_EmptySet, ZenonT(30)
  <2> QED BY <2>1, <2>2 DEF RegistryInv, Counted
<1> QED BY <1>1, RegistryInit, RegistryStep, PTL DEF ServerSpec

(* GetAddresses is exact: an address is asked as long as some handler       *)
(* announces it, and no longer.                                             *)
THEOREM RegistryExact ==
    ServerSpec => [](\A s \in Sinks : s \in GetAddresses <=> Announcing(s) # {})
<1>1. RegistryInv => \A s \in Sinks : s \in GetAddresses <=> Announcing(s) # {}
  <2> SUFFICES ASSUME RegistryInv, NEW s \in Sinks
               PROVE  s \in GetAddresses <=> Announcing(s) # {}
      OBVIOUS
  <2>1. /\ Cardinality(Announcing(s)) \in Nat
        /\ Cardinality(Announcing(s)) = 0 <=> Announcing(s) = {}
      BY AnnouncingFinite, FS_EmptySet, ZenonT(30)
  <2> QED BY <2>1 DEF RegistryInv, Counted, GetAddresses
<1> QED BY <1>1, RegistryInit, RegistryStep, PTL DEF ServerSpec

-----------------------------------------------------------------------------
(* What the names of the shards say of the records in them: a record was    *)
(* written after its shard was opened and before the next one was.          *)
Records == [id : Nat, ts : Nat, at : Nat]

ShardTypes == [start : Nat, recs : Seq(Records)]

DiskTypes ==
    /\ clock \in Nat /\ ids \in Nat
    /\ disk \in [Sinks -> Seq(ShardTypes)]
    /\ \A s \in Sinks : Len(disk[s]) > 0

Dated(shards, t) ==
    \A i \in DOMAIN shards :
        /\ shards[i].start <= t
        /\ \A k \in DOMAIN shards[i].recs :
              /\ shards[i].start <= shards[i].recs[k].at
              /\ shards[i].recs[k].at <= t
              /\ i < Len(shards) => shards[i].recs[k].at <= shards[i + 1].start

DiskInv == DiskTypes /\ \A s \in Sinks : Dated(disk[s], clock)

(* Every search of any range reads the shard of every record it promises.   *)
SearchReadsAll ==
    \A s \in Sinks : \A i \in DOMAIN disk[s] : \A k \in DOMAIN disk[s][i].recs :
        \A lo, hi \in Nat :
            LET r == disk[s][i].recs[k]
            IN WithinSlack(r) /\ lo <= r.ts /\ r.ts <= hi =>
                  disk[s][i].start \in candidateShards(s, lo, hi)

(* A shard without records, and what a shard consists of.                   *)
LEMMA FreshShard == ASSUME NEW t \in Nat PROVE [start |-> t, recs |-> <<>>] \in ShardTypes
<1>1. <<>> \in Seq(Records)
    OBVIOUS
<1> QED BY <1>1, ZenonT(30) DEF ShardTypes

\* A shard of the disk has a start, and its records have times.
LEMMA ShardFields ==
    ASSUME NEW shards \in Seq(ShardTypes), NEW i \in DOMAIN shards
    PROVE  /\ shards[i].start \in Nat /\ shards[i].recs \in Seq(Records)
           /\ \A k \in DOMAIN shards[i].recs : shards[i].recs[k] \in Records
<1>1. shards[i] \in ShardTypes
    OBVIOUS
<1>2. shards[i].start \in Nat /\ shards[i].recs \in Seq(Records)
    BY <1>1, ZenonT(30) DEF ShardTypes
<1>3. \A recs \in Seq(Records) : \A k \in DOMAIN recs : recs[k] \in Records
    OBVIOUS
<1> QED BY <1>2, <1>3, ZenonT(30)

(* A record is appended to the newest shard.                                *)
LEMMA WriteDated ==
    ASSUME DiskInv, NEW s \in Sinks, NEW ts \in Nat, Write(s, ts)
    PROVE  DiskInv'
<1>0. DiskTypes /\ \A x \in Sinks : Dated(disk[x], clock)
    BY ZenonT(30) DEF DiskInv
<1>1. /\ disk[s] \in Seq(ShardTypes) /\ Len(disk[s]) \in DOMAIN disk[s]
      /\ clock \in Nat /\ ids \in Nat
    BY <1>0 DEF DiskTypes
<1>2. PICK n \in DOMAIN disk[s] : n = Len(disk[s])
    BY <1>1, ZenonT(30)
<1>3. PICK rec \in Records : rec = [id |-> ids, ts |-> ts, at |-> clock]
    BY <1>1, ZenonT(30) DEF Records
<1>4. PICK old \in ShardTypes : old = disk[s][n]
    BY <1>1
<1>5. PICK new \in ShardTypes : new = [old EXCEPT !.recs = Append(@, rec)]
  <2>1. old.recs \in Seq(Records)
      BY ZenonT(30) DEF ShardTypes
  <2>2. Append(old.recs, rec) \in Seq(Records)
      BY <2>1
  <2> QED BY <2>2, ZenonT(30) DEF ShardTypes
<1>6. clock' = clock /\ ids' = ids + 1
    BY ZenonT(30) DEF Write
<1>7. PICK shards \in Seq(ShardTypes) : shards = [disk[s] EXCEPT ![n] = new]
  <2>1. n \in 1 .. Len(disk[s])
      BY <1>1, <1>2
  <2>2. [disk[s] EXCEPT ![n] = new] \in Seq(ShardTypes)
      BY <1>1, <2>1
  <2> QED BY <2>2, ZenonT(30)
<1>8. /\ Len(shards) = n /\ DOMAIN shards = DOMAIN disk[s]
       /\ \A i \in DOMAIN shards : shards[i] = IF i = n THEN new ELSE disk[s][i]
    BY <1>1, <1>2, <1>7
<1>9. disk' = [disk EXCEPT ![s] = shards]
    BY <1>2, <1>3, <1>4, <1>5, <1>7, ZenonT(30) DEF Write
<1>10. Dated(shards, clock)
  <2>0. /\ new.start = old.start /\ new.recs = Append(old.recs, rec)
        /\ old.recs \in Seq(Records)
      BY <1>5, ZenonT(30) DEF ShardTypes
  <2>1. \A k \in DOMAIN new.recs :
           \/ k \in DOMAIN old.recs /\ new.recs[k] = old.recs[k]
           \/ new.recs[k].at = clock
      BY <1>3, <2>0
  <2>2. Dated(disk[s], clock)
      BY <1>0, ZenonT(30)
  <2> SUFFICES ASSUME NEW i \in DOMAIN shards
               PROVE  /\ shards[i].start <= clock
                      /\ \A k \in DOMAIN shards[i].recs :
                            /\ shards[i].start <= shards[i].recs[k].at
                            /\ shards[i].recs[k].at <= clock
                            /\ i < n => shards[i].recs[k].at <= shards[i + 1].start
      BY <1>8, ZenonT(30) DEF Dated
  <2>3. CASE i = n
    <3>1. shards[i] = new /\ old.start <= clock
        BY <1>2, <1>4, <1>8, <2>2, <2>3, ZenonT(30) DEF Dated
    <3>2. \A k \in DOMAIN old.recs : old.start <= old.recs[k].at /\ old.recs[k].at <= clock
        BY <1>2, <1>4, <2>2, ZenonT(30) DEF Dated
    <3>3. ASSUME NEW k \in DOMAIN new.recs
          PROVE  new.start <= new.recs[k].at /\ new.recs[k].at <= clock
      <4>1. CASE new.recs[k].at = clock
          BY <1>1, <2>0, <3>1, <4>1
      <4>2. CASE k \in DOMAIN old.recs /\ new.recs[k] = old.recs[k]
          BY <2>0, <3>2, <4>2, ZenonT(30)
      <4> QED BY <2>1, <4>1, <4>2, ZenonT(30)
    <3>4. new.start <= clock
        BY <2>0, <3>1, ZenonT(30)
    <3>5. ~(i < n)
        BY <1>1, <1>2, <2>3, SMTT(30)
    <3> QED BY <3>1, <3>3, <3>4, <3>5, ZenonT(30)
  <2>4. CASE i # n
    <3>1. i \in 1 .. n - 1 /\ i + 1 \in DOMAIN disk[s] /\ i \in DOMAIN disk[s]
        BY <1>1, <1>2, <1>8, <2>4
    <3>2. shards[i] = disk[s][i] /\ shards[i + 1].start = disk[s][i + 1].start
        BY <1>4, <1>8, <2>0, <2>4, <3>1, ZenonT(30)
    <3> QED BY <1>2, <2>2, <3>1, <3>2, ZenonT(30) DEF Dated
  <2> QED BY <2>3, <2>4, ZenonT(30)
<1> QED BY <1>0, <1>6, <1>8, <1>9, <1>10 DEF DiskInv, DiskTypes

(* A shard opened now follows every record written so far.                  *)
LEMMA RotateDated ==
    ASSUME DiskInv, NEW s \in Sinks, Rotate(s)
    PROVE  DiskInv'
<1>0. /\ DiskTypes /\ disk[s] \in Seq(ShardTypes) /\ clock \in Nat
      /\ Dated(disk[s], clock)
    BY ZenonT(30) DEF DiskInv, DiskTypes
<1>1. PICK new \in ShardTypes : new = [start |-> clock, recs |-> <<>>]
    BY <1>0, FreshShard, ZenonT(30)
<1>2. PICK n \in Nat : n = Len(disk[s])
    BY <1>0
<1>3. PICK shards \in Seq(ShardTypes) : shards = Append(disk[s], new)
  <2>1. Append(disk[s], new) \in Seq(ShardTypes)
      BY <1>0
  <2> QED BY <2>1, ZenonT(30)
<1>4. /\ Len(shards) = n + 1 /\ shards[n + 1] = new
      /\ \A i \in 1 .. n : shards[i] = disk[s][i]
    BY <1>0, <1>2, <1>3
<1>5. disk' = [disk EXCEPT ![s] = shards] /\ clock' = clock /\ ids' = ids
    BY <1>1, <1>3, ZenonT(30) DEF Rotate
<1>6. Dated(shards, clock)
  <2> SUFFICES ASSUME NEW i \in 1 .. n + 1
               PROVE  /\ shards[i].start <= clock
                      /\ \A k \in DOMAIN shards[i].recs :
                            /\ shards[i].start <= shards[i].recs[k].at
                            /\ shards[i].recs[k].at <= clock
                            /\ i < n + 1 => shards[i].recs[k].at <= shards[i + 1].start
      BY <1>4 DEF Dated
  <2>1. CASE i = n + 1
      BY <1>0, <1>1, <1>4, <2>1, SMTT(30)
  <2>2. CASE i = n
      BY <1>0, <1>1, <1>2, <1>4, <2>2, SMTT(30) DEF Dated
  <2>3. CASE i < n
    <3>1. i \in DOMAIN disk[s] /\ shards[i] = disk[s][i] /\ shards[i + 1] = disk[s][i + 1]
        BY <1>0, <1>2, <1>4, <2>3
    <3> QED BY <1>0, <1>2, <2>3, <3>1, ZenonT(30) DEF Dated
  <2> QED BY <2>1, <2>2, <2>3
<1> QED BY <1>0, <1>2, <1>4, <1>5, <1>6 DEF DiskInv, DiskTypes

(* The oldest shard goes.                                                   *)
LEMMA ExpireDated ==
    ASSUME DiskInv, NEW s \in Sinks, Expire(s)
    PROVE  DiskInv'
<1>0. /\ DiskTypes /\ disk[s] \in Seq(ShardTypes) /\ Dated(disk[s], clock)
      /\ Len(disk[s]) > 1
    BY ZenonT(30) DEF DiskInv, DiskTypes, Expire
<1>1. PICK shards \in Seq(ShardTypes) : shards = Tail(disk[s])
  <2>1. Tail(disk[s]) \in Seq(ShardTypes)
      BY <1>0
  <2> QED BY <2>1, ZenonT(30)
<1>2. PICK n \in Nat : n = Len(shards)
    BY <1>1, SMTT(30)
<1>3. Len(disk[s]) = n + 1 /\ n > 0 /\ \A i \in 1 .. n : shards[i] = disk[s][i + 1]
    BY <1>0, <1>1, <1>2
<1>4. disk' = [disk EXCEPT ![s] = shards] /\ clock' = clock /\ ids' = ids
    BY <1>1, ZenonT(30) DEF Expire
<1>5. Dated(shards, clock)
  <2> SUFFICES ASSUME NEW i \in 1 .. n
               PROVE  /\ shards[i].start <= clock
                      /\ \A k \in DOMAIN shards[i].recs :
                            /\ shards[i].start <= shards[i].recs[k].at
                            /\ shards[i].recs[k].at <= clock
                            /\ i < n => shards[i].recs[k].at <= shards[i + 1].start
      BY <1>2 DEF Dated
  <2>1. i + 1 \in DOMAIN disk[s] /\ shards[i] = disk[s][i + 1]
      BY <1>0, <1>3
  <2>2. i < n => shards[i + 1] = disk[s][i + 2] /\ i + 1 < Len(disk[s])
      BY <1>3
  <2> QED BY <1>0, <2>1, <2>2 DEF Dated
<1> QED BY <1>0, <1>2, <1>3, <1>4, <1>5, ZenonT(30) DEF DiskInv, DiskTypes

(* Every other step leaves the directories alone, or lets time pass.        *)
LEMMA DiskStep == DiskInv /\ [ServerNext]_serverVars => DiskInv'
<1> SUFFICES ASSUME DiskInv, [ServerNext]_serverVars PROVE DiskInv'
    OBVIOUS
<1>1. ASSUME UNCHANGED <<clock, disk, ids>> PROVE DiskInv'
    BY <1>1, ZenonT(30) DEF DiskInv, DiskTypes, Dated
<1>2. ASSUME SearchTick PROVE DiskInv'
  <2>1. clock \in Nat /\ clock' = clock + 1 /\ UNCHANGED <<disk, ids>>
      BY <1>2, ZenonT(30) DEF SearchTick, DiskInv, DiskTypes
  <2>2. DiskTypes'
      BY <2>1 DEF DiskInv, DiskTypes
  <2>3. ASSUME NEW s \in Sinks PROVE Dated(disk[s], clock + 1)
    <3>1. disk[s] \in Seq(ShardTypes) /\ Dated(disk[s], clock)
        BY ZenonT(30) DEF DiskInv, DiskTypes
    <3>2. \A i \in DOMAIN disk[s] :
             /\ disk[s][i].start \in Nat
             /\ \A k \in DOMAIN disk[s][i].recs : disk[s][i].recs[k].at \in Nat
        BY <3>1, ShardFields, ZenonT(30) DEF Records
    <3> QED BY <2>1, <3>1, <3>2 DEF Dated
  <2> QED BY <2>1, <2>2, <2>3, ZenonT(30) DEF DiskInv
<1>3. ASSUME NEW s \in Sinks, SinkStep(s) PROVE DiskInv'
  <2>1. ASSUME NEW ts \in 0 .. MaxClock + 1, Write(s, ts) PROVE DiskInv'
    <3>1. ts \in Nat
        BY SearchAssumption, SMTT(30)
    <3> QED BY <2>1, <3>1, WriteDated, ZenonT(30)
  <2>2. CASE List(s) \/ Read(s) \/ Fails(s)
      BY <1>1, <2>2, ZenonT(30) DEF List, Read, Fails
  <2> QED BY <1>3, <2>1, <2>2, RotateDated, ExpireDated, ZenonT(30) DEF SinkStep
<1>4. ASSUME Request \/ Merge \/ Respond PROVE DiskInv'
    BY <1>1, <1>4, ZenonT(30) DEF Request, Ask, Merge, Respond
<1>5. ASSUME NEW s \in Sinks,
             Open(s) \/ Heartbeat(s) \/ ClientNotices(s) \/ ClientBreaks(s)
      PROVE  DiskInv'
    BY <1>1, <1>5, ZenonT(30) DEF Open, Heartbeat, ClientNotices, ClientBreaks, searchVars
<1>6. ASSUME NEW i \in Streams, ServerBreaks(i) \/ ServerNotices(i) PROVE DiskInv'
    BY <1>1, <1>6, ZenonT(30) DEF ServerBreaks, ServerNotices, searchVars
<1>7. ASSUME Restart PROVE DiskInv'
    BY <1>1, <1>7, ZenonT(30) DEF Restart
<1> QED
  BY <1>1, <1>2, <1>3, <1>4, <1>5, <1>6, <1>7, ZenonT(30)
  DEF ServerNext, Registration, serverVars, searchVars

(* The first shards.                                                        *)
LEMMA DiskStart == ServerInit => DiskInv
<1> SUFFICES ASSUME ServerInit PROVE DiskInv
    OBVIOUS
<1>1. PICK first \in ShardTypes : first = [start |-> 0, recs |-> <<>>]
    BY FreshShard, ZenonT(30)
<1>2. clock = 0 /\ ids = 0 /\ disk = [s \in Sinks |-> <<first>>]
    BY <1>1, ZenonT(30) DEF ServerInit, SearchInit
<1> QED BY <1>1, <1>2 DEF DiskInv, DiskTypes, Dated

(* The slack is enough for whatever the shards hold.                        *)
LEMMA ShardsPromised == DiskInv => SearchReadsAll
<1> SUFFICES ASSUME DiskInv, NEW s \in Sinks, NEW i \in DOMAIN disk[s],
                    NEW k \in DOMAIN disk[s][i].recs, NEW lo \in Nat, NEW hi \in Nat,
                    WithinSlack(disk[s][i].recs[k]),
                    lo <= disk[s][i].recs[k].ts, disk[s][i].recs[k].ts <= hi
             PROVE  disk[s][i].start \in candidateShards(s, lo, hi)
    BY ZenonT(30) DEF SearchReadsAll
<1>1. disk[s] \in Seq(ShardTypes) /\ Dated(disk[s], clock)
    BY ZenonT(30) DEF DiskInv, DiskTypes
<1>2. PICK r \in Records : r = disk[s][i].recs[k]
    BY <1>1, ShardFields, ZenonT(30)
<1>3. /\ r.ts \in Nat /\ r.at \in Nat /\ disk[s][i].start \in Nat
      /\ disk[s][i].start <= r.at
      /\ i < Len(disk[s]) => disk[s][i + 1].start \in Nat /\ r.at <= disk[s][i + 1].start
  <2>1. r.ts \in Nat /\ r.at \in Nat /\ disk[s][i].start \in Nat
      BY <1>1, ShardFields, ZenonT(30) DEF Records
  <2>2. i < Len(disk[s]) => i + 1 \in DOMAIN disk[s]
      BY <1>1
  <2> QED BY <1>1, <1>2, <2>1, <2>2, ShardFields, ZenonT(30) DEF Dated
<1>4. r.ts <= r.at + Slack /\ r.at <= r.ts + Slack /\ Slack \in Nat
    BY <1>2, SearchAssumption, ZenonT(30) DEF WithinSlack
<1>5. /\ disk[s][i].start <= hi + Slack
      /\ i < Len(disk[s]) => disk[s][i + 1].start + Slack >= lo
  <2>1. lo <= r.ts /\ r.ts <= hi
      BY <1>2, ZenonT(30)
  <2>2. disk[s][i].start <= hi + Slack
      BY <1>3, <1>4, <2>1
  <2>3. ASSUME i < Len(disk[s]) PROVE disk[s][i + 1].start + Slack >= lo
    <3>1. disk[s][i + 1].start \in Nat /\ r.at <= disk[s][i + 1].start
        BY <1>3, <2>3, ZenonT(30)
    <3> QED BY <1>3, <1>4, <2>1, <3>1, SMTT(30)
  <2> QED BY <2>2, <2>3, ZenonT(30)
<1> QED BY <1>5, ZenonT(30) DEF candidateShards

(* candidateShards drops no shard that holds a record of the range whose    *)
(* own timestamp is within the slack of the time it was written: no log     *)
(* search misses one, whenever shards rotate or expire (SearchLogs).        *)
THEOREM SearchMissesNoShard == ServerSpec => []SearchReadsAll
<1> QED BY DiskStart, ShardsPromised, DiskStep, PTL DEF ServerSpec

-----------------------------------------------------------------------------
(* The answers.  Of every record that is due, a sink that has not answered  *)
(* yet will read its shard, or what the others sent makes up for it.        *)
AskTypes ==
    [at : {"idle", "gather", "answered"}, lo : Nat, hi : Nat, failed : BOOLEAN,
     kind : {"none", "search", "query", "table", "latest"}, left : SUBSET Sinks,
     listed : [Sinks -> SUBSET Nat], got : SUBSET Records, due : SUBSET Records]

(* Records are read in the order in which they were written.                *)
InOrder(shards) ==
    \A i, j \in DOMAIN shards :
        \A k \in DOMAIN shards[i].recs, l \in DOMAIN shards[j].recs :
            i < j \/ (i = j /\ k <= l) => shards[i].recs[k].at <= shards[j].recs[l].at

(* A sink has the record, in a shard that it listed if it has listed any.   *)
Holds(s, r) ==
    \E i \in DOMAIN disk[s] :
        /\ r \in RecordsIn(disk[s][i])
        /\ ask.listed[s] # {} => disk[s][i].start \in ask.listed[s]

(* A record written later, and dated earlier, is there as long as r is.     *)
Outdone(r) ==
    \E s \in Sinks : \E i, j \in DOMAIN disk[s] :
        /\ i <= j /\ r \in RecordsIn(disk[s][i])
        /\ \E u \in RecordsIn(disk[s][j]) : u.at >= r.at /\ u.ts < r.ts

Outnumbered(r, got) ==
    \E T \in SUBSET got : Cardinality(T) = Limit /\ \A t \in T : t.ts >= r.ts

Newer(r, got) == \E t \in got : t.ts >= r.ts

MadeUp(r) ==
    \/ r \in ask.got
    \/ ask.kind = "search" /\ Outnumbered(r, ask.got)
    \/ ask.kind = "latest" /\ (Newer(r, ask.got) \/ Outdone(r))

Gathering ==
    ask.at = "gather" /\ ~ask.failed =>
        \A r \in ask.due : MadeUp(r) \/ \E s \in ask.left : Holds(s, r)

Final ==
    ask.at = "answered" /\ ~ask.failed =>
        \A r \in ask.due \ ask.got :
            \/ /\ ask.kind = "search"
               /\ Cardinality(ask.got) = Limit /\ \A t \in ask.got : t.ts >= r.ts
            \/ ask.kind = "latest" /\ (Newer(r, ask.got) \/ Outdone(r))

AnswerTypes ==
    /\ ask \in AskTypes /\ IsFiniteSet(ask.got)
    /\ ask.at # "idle" => ask.kind # "none"
    /\ ask.kind = "search" =>
          \A r \in ask.due : WithinSlack(r) /\ ask.lo <= r.ts /\ r.ts <= ask.hi

DiskOrder == \A s \in Sinks : IsFiniteSet(OnDisk(s)) /\ InOrder(disk[s])

AnswerInv == DiskInv /\ DiskOrder /\ AnswerTypes /\ Gathering /\ Final

(* What cutting a finite set to the newest leaves.                          *)
LEMMA NewestFacts ==
    ASSUME NEW S, IsFiniteSet(S), NEW n \in Nat, NEW T \in Newest(n, S)
    PROVE  /\ T \subseteq S /\ IsFiniteSet(T)
           /\ n > 0 /\ S # {} => T # {}
           /\ \A r \in S \ T : Cardinality(T) = n /\ \A t \in T : t.ts >= r.ts
<1>1. /\ T \subseteq S /\ \A t \in T, u \in S \ T : t.ts >= u.ts
      /\ Cardinality(T) = IF Cardinality(S) > n THEN n ELSE Cardinality(S)
    BY ZenonT(30) DEF Newest
<1>2. /\ IsFiniteSet(T) /\ Cardinality(S) \in Nat /\ Cardinality(T) \in Nat
      /\ Cardinality(S) = Cardinality(T) => S = T
    BY <1>1, FS_Subset, FS_CardinalityType, ZenonT(30)
<1>3. ASSUME NEW r \in S \ T PROVE Cardinality(T) = n
    BY <1>1, <1>2, <1>3, ZenonT(30)
<1>4. ASSUME n > 0, S # {} PROVE T # {}
  <2>1. Cardinality(S) # 0
      BY <1>4, FS_EmptySet, ZenonT(30)
  <2>2. Cardinality(T) # 0
      BY <1>1, <1>2, <1>4, <2>1, SMT
  <2> QED BY <2>2, FS_EmptySet, ZenonT(30)
<1> QED BY <1>1, <1>2, <1>3, <1>4, ZenonT(30)

(* Limit records of a set that are newer than t0 leave room for newer ones  *)
(* only.                                                                    *)
LEMMA NewestOutnumber ==
    ASSUME NEW S, S \subseteq Records, IsFiniteSet(S), NEW n \in Nat, NEW T \in Newest(n, S),
           NEW t0 \in Nat, NEW U \in SUBSET S, Cardinality(U) = n, \A u \in U : u.ts >= t0
    PROVE  Cardinality(T) = n /\ \A t \in T : t.ts >= t0
<1>1. /\ T \subseteq S /\ \A t \in T, u \in S \ T : t.ts >= u.ts
      /\ Cardinality(T) = IF Cardinality(S) > n THEN n ELSE Cardinality(S)
    BY ZenonT(30) DEF Newest
<1>2. /\ IsFiniteSet(T) /\ Cardinality(S) \in Nat /\ Cardinality(T) \in Nat
      /\ Cardinality(U) <= Cardinality(S)
    BY <1>1, FS_Subset, FS_CardinalityType, ZenonT(30)
<1>3. Cardinality(T) = n
    BY <1>1, <1>2, SMT
<1>4. ASSUME NEW t \in T, ~(t.ts >= t0) PROVE FALSE
  <2>1. t \notin U
      BY <1>4, ZenonT(30)
  <2>2. \A u \in S : u.ts \in Nat
      BY ZenonT(30) DEF Records
  <2>3. ASSUME NEW u \in U, u \notin T PROVE FALSE
    <3>1. t.ts >= u.ts /\ u.ts >= t0 /\ t.ts \in Nat /\ u.ts \in Nat
        BY <1>1, <2>2, <2>3, ZenonT(30)
    <3> QED BY <1>4, <3>1, SMT
  <2>4. U \subseteq T
      BY <2>3, ZenonT(30)
  <2>5. U = T
      BY <1>2, <1>3, <2>4, FS_Subset, ZenonT(30)
  <2> QED BY <2>1, <2>5, ZenonT(30)
<1> QED BY <1>3, <1>4, ZenonT(30)

(* The records of a shard.                                                  *)
LEMMA InShard ==
    ASSUME NEW sh, NEW r
    PROVE  r \in RecordsIn(sh) <=> \E k \in DOMAIN sh.recs : r = sh.recs[k]
  BY ZenonT(30) DEF RecordsIn, Range

(* A set of positions has a last one.                                       *)
LEMMA LastPosition ==
    ASSUME NEW n \in Nat, NEW T, T \subseteq 1 .. n, T # {}
    PROVE  \E x \in T : \A y \in T : y <= x
<1> DEFINE U == {n - y : y \in T}
           R == OpToRel(<, Nat)
<1>1. U \subseteq Nat /\ U # {}
  <2>1. \A y \in T : n - y \in Nat
      BY SMT
  <2> QED BY <2>1, ZenonT(30)
<1>2. PICK m \in U : \A y \in U : ~ (<<y, m>> \in R)
  <2>1. IsWellFoundedOn(R, Nat)
      BY NatLessThanWellFounded, ZenonT(30)
  <2> HIDE DEF R, U
  <2> QED BY <1>1, <2>1, WFMin, ZenonT(30)
<1>3. \A y \in U : ~ (y < m)
    BY <1>1, <1>2, ZenonT(30) DEF OpToRel
<1>4. PICK x \in T : m = n - x
    OBVIOUS
<1>5. \A y \in T : ~ (n - y < n - x)
    BY <1>3, <1>4, ZenonT(30)
<1> HIDE DEF U, R
<1>6. \A y \in 1 .. n : y \in Int
    BY SMT
<1>7. \A y \in T : y \in Int /\ x \in Int
    BY <1>6, ZenonT(30)
<1> QED BY <1>5, <1>7, SMT

(* The record that latest_only reads was written no earlier than another.   *)
LEMMA LastReadIsLast ==
    ASSUME DiskInv, DiskOrder, NEW s \in Sinks, NEW r \in AllRead(s)
    PROVE  \E u \in LastRead(s) : \E i, j \in DOMAIN disk[s] :
              /\ i <= j /\ r \in RecordsIn(disk[s][i])
              /\ u \in RecordsIn(disk[s][j]) /\ u.at >= r.at
<1>1. disk[s] \in Seq(ShardTypes) /\ InOrder(disk[s]) /\ Len(disk[s]) \in Nat
      /\ DOMAIN disk[s] = 1 .. Len(disk[s])
  <2>1. disk[s] \in Seq(ShardTypes) /\ InOrder(disk[s])
      BY ZenonT(30) DEF DiskInv, DiskTypes, DiskOrder
  <2> QED BY <2>1
<1>2. PICK i \in Readable(s) : r \in RecordsIn(disk[s][i])
    BY ZenonT(30) DEF AllRead
<1>3. PICK k \in DOMAIN disk[s][i].recs : r = disk[s][i].recs[k]
    BY <1>2, InShard, ZenonT(30)
<1> DEFINE Full == {x \in Readable(s) : disk[s][x].recs # <<>>}
<1>4. /\ \A x \in Readable(s) : x \in DOMAIN disk[s]
      /\ \A x \in Readable(s) : disk[s][x].recs \in Seq(Records)
    BY <1>1, ShardFields, ZenonT(30) DEF Readable
<1>5. i \in Full
  <2>1. PICK q \in Seq(Records) : q = disk[s][i].recs
      BY <1>2, <1>4, ZenonT(30)
  <2>2. k \in DOMAIN q
      BY <1>3, <2>1, ZenonT(30)
  <2>3. q # <<>>
      BY <2>2, SMT
  <2> QED BY <1>2, <2>1, <2>3, ZenonT(30)
<1>6. PICK j \in Full : \A x \in Full : x <= j
  <2>1. Full \subseteq 1 .. Len(disk[s]) /\ Full # {}
      BY <1>1, <1>4, <1>5, ZenonT(30)
  <2> HIDE DEF Full
  <2> QED BY <1>1, <2>1, LastPosition, ZenonT(30)
<1>7. i <= j /\ i \in DOMAIN disk[s] /\ j \in DOMAIN disk[s]
    BY <1>2, <1>4, <1>5, <1>6, ZenonT(30)
<1>8. PICK q \in Seq(Records) : q = disk[s][j].recs /\ q # <<>>
    BY <1>4, <1>6, ZenonT(30)
<1>9. Len(q) \in DOMAIN q /\ Len(q) \in Nat /\ \A x \in DOMAIN q : x <= Len(q)
    BY <1>8, SMT
<1>10. PICK u : u = q[Len(q)]
    OBVIOUS
<1>11. u \in RecordsIn(disk[s][j])
    BY <1>8, <1>9, <1>10, InShard, ZenonT(30)
<1>12. u \in LastRead(s)
  <2>1. ASSUME NEW x \in Readable(s), x > j PROVE disk[s][x].recs = <<>>
    <3>1. x \in Nat /\ j \in Nat
        BY <1>1, <1>4, <1>7, <2>1, SMT
    <3>2. ~(x <= j)
        BY <2>1, <3>1, SMT
    <3> QED BY <1>6, <3>2, ZenonT(30)
  <2> QED BY <1>6, <1>8, <1>10, <2>1, ZenonT(30) DEF LastRead
<1>13. r.at <= u.at
  <2>1. i \in Nat /\ j \in Nat
      BY <1>1, <1>7, SMT
  <2>2. i < j \/ (i = j /\ k <= Len(q))
    <3>1. i = j => k \in DOMAIN q
        BY <1>3, <1>8, ZenonT(30)
    <3> QED BY <1>7, <1>9, <2>1, <3>1, SMT
  <2>3. Len(q) \in DOMAIN disk[s][j].recs /\ u = disk[s][j].recs[Len(q)]
      BY <1>8, <1>9, <1>10, ZenonT(30)
  <2> QED BY <1>1, <1>3, <1>7, <2>2, <2>3, <1>8, ZenonT(30) DEF InOrder
<1>14. r.at \in Nat /\ u.at \in Nat
  <2>1. r \in Records /\ u \in Records
      BY <1>1, <1>3, <1>7, <1>8, <1>9, <1>10, ShardFields, ZenonT(30)
  <2> QED BY <2>1, ZenonT(30) DEF Records
<1>15. u.at >= r.at
    BY <1>13, <1>14, ZenonT(30)
<1> QED BY <1>2, <1>7, <1>11, <1>12, <1>15, ZenonT(30)

-----------------------------------------------------------------------------
(* Shards are added, and records to them.                                   *)
Grown ==
    \A x \in Sinks : \A i \in DOMAIN disk[x] :
        /\ i \in DOMAIN disk'[x] /\ disk'[x][i].start = disk[x][i].start
        /\ RecordsIn(disk[x][i]) \subseteq RecordsIn(disk'[x][i])

(* What is promised of a request is not disturbed by what is written.       *)
LEMMA GrownKeeps ==
    ASSUME AnswerTypes, Gathering, Final, Grown, UNCHANGED ask
    PROVE  Gathering' /\ Final'
<1>1. ASSUME NEW s \in Sinks, NEW r, Holds(s, r) PROVE Holds(s, r)'
    BY <1>1, ZenonT(30) DEF Holds, Grown
<1>2. ASSUME NEW r, Outdone(r) PROVE Outdone(r)'
  <2>1. PICK s \in Sinks : \E i, j \in DOMAIN disk[s] :
           /\ i <= j /\ r \in RecordsIn(disk[s][i])
           /\ \E u \in RecordsIn(disk[s][j]) : u.at >= r.at /\ u.ts < r.ts
      BY <1>2, ZenonT(30) DEF Outdone
  <2>2. PICK i \in DOMAIN disk[s], j \in DOMAIN disk[s] :
           /\ i <= j /\ r \in RecordsIn(disk[s][i])
           /\ \E u \in RecordsIn(disk[s][j]) : u.at >= r.at /\ u.ts < r.ts
      BY <2>1, ZenonT(30)
  <2>3. i \in DOMAIN disk'[s] /\ r \in RecordsIn(disk'[s][i]) /\ j \in DOMAIN disk'[s]
      BY <2>2, ZenonT(30) DEF Grown
  <2>4. \E u \in RecordsIn(disk'[s][j]) : u.at >= r.at /\ u.ts < r.ts
      BY <2>2, ZenonT(30) DEF Grown
  <2> QED BY <2>2, <2>3, <2>4, ZenonT(30) DEF Outdone
<1>3. ask' = ask /\ ask.left \subseteq Sinks
    BY ZenonT(30) DEF AnswerTypes, AskTypes
<1>4. ASSUME NEW r, MadeUp(r) PROVE MadeUp(r)'
    BY <1>2, <1>3, <1>4, ZenonT(30) DEF MadeUp
<1>5. Gathering'
    BY <1>1, <1>3, <1>4, ZenonT(30) DEF Gathering
<1>6. Final'
    BY <1>2, <1>3, ZenonT(30) DEF Final
<1> QED BY <1>5, <1>6, ZenonT(30)

(* What Append adds.                                                        *)
LEMMA AppendFacts ==
    ASSUME NEW q \in Seq(Records), NEW rec \in Records
    PROVE  /\ Append(q, rec) \in Seq(Records) /\ DOMAIN Append(q, rec) = 1 .. Len(q) + 1
           /\ DOMAIN q = 1 .. Len(q) /\ Len(q) \in Nat
           /\ Append(q, rec)[Len(q) + 1] = rec
           /\ \A k \in DOMAIN q : Append(q, rec)[k] = q[k]
           /\ Range(Append(q, rec)) = Range(q) \cup {rec}
<1>1. PICK w : w = Append(q, rec)
    BY ZenonT(30)
<1>2. /\ w \in Seq(Records) /\ DOMAIN w = 1 .. Len(q) + 1
      /\ DOMAIN q = 1 .. Len(q) /\ Len(q) \in Nat
      /\ w[Len(q) + 1] = rec
      /\ \A k \in DOMAIN q : w[k] = q[k]
    BY <1>1, SMT
<1>3. \A k \in DOMAIN w : k \in DOMAIN q \/ k = Len(q) + 1
    BY <1>2, SMT
<1>4. Len(q) + 1 \in DOMAIN w /\ \A k \in DOMAIN q : k \in DOMAIN w
    BY <1>2, SMT
<1>5. Range(w) = Range(q) \cup {rec}
    BY <1>2, <1>3, <1>4, ZenonT(30) DEF Range
<1> QED BY <1>1, <1>2, <1>5, ZenonT(30)

(* WriteObject appends to the newest shard.                                 *)
LEMMA WriteGrows ==
    ASSUME DiskInv, DiskOrder, NEW s \in Sinks, NEW ts \in Nat, Write(s, ts)
    PROVE  Grown /\ DiskOrder'
<1>1. /\ disk \in [Sinks -> Seq(ShardTypes)] /\ disk[s] \in Seq(ShardTypes)
      /\ clock \in Nat /\ ids \in Nat /\ Dated(disk[s], clock) /\ Len(disk[s]) > 0
      /\ InOrder(disk[s]) /\ IsFiniteSet(OnDisk(s))
    BY ZenonT(30) DEF DiskInv, DiskTypes, DiskOrder
<1>2. PICK n \in Nat : /\ n = Len(disk[s]) /\ n \in DOMAIN disk[s]
                       /\ DOMAIN disk[s] = 1 .. n
    BY <1>1, SMT
<1>3. PICK rec \in Records : rec = [id |-> ids, ts |-> ts, at |-> clock]
    BY <1>1, ZenonT(30) DEF Records
<1>4. PICK old \in ShardTypes : old = disk[s][n]
    BY <1>1, <1>2, SMT
<1>5. PICK q \in Seq(Records) : q = old.recs
    BY ZenonT(30) DEF ShardTypes
<1>6. PICK w \in Seq(Records) :
         /\ w = Append(q, rec) /\ DOMAIN w = 1 .. Len(q) + 1 /\ DOMAIN q = 1 .. Len(q)
         /\ Len(q) \in Nat /\ w[Len(q) + 1] = rec /\ \A k \in DOMAIN q : w[k] = q[k]
    BY AppendFacts, ZenonT(30)
<1>7. PICK new : new = [old EXCEPT !.recs = w] /\ new.start = old.start /\ new.recs = w
  <2>1. PICK new : new = [old EXCEPT !.recs = w]
      BY ZenonT(30)
  <2>2. new.start = old.start /\ new.recs = w
      BY <2>1, ZenonT(30) DEF ShardTypes
  <2> QED BY <2>1, <2>2, ZenonT(30)
<1>8. /\ disk'[s] = [disk[s] EXCEPT ![n] = new]
      /\ \A x \in Sinks : x # s => disk'[x] = disk[x]
    BY <1>1, <1>2, <1>3, <1>4, <1>5, <1>6, <1>7, ZenonT(30) DEF Write
<1>9. /\ DOMAIN disk'[s] = DOMAIN disk[s] /\ disk'[s][n] = new
      /\ \A i \in DOMAIN disk[s] : i # n => disk'[s][i] = disk[s][i]
    BY <1>2, <1>8, ZenonT(30)
<1>10. RecordsIn(new) = RecordsIn(old) \cup {rec}
  <2>1. new.recs = Append(q, rec) /\ old.recs = q
      BY <1>5, <1>6, <1>7, ZenonT(30)
  <2> QED BY <2>1, AppendFacts, ZenonT(30) DEF RecordsIn
<1>11. Grown
  <2>1. ASSUME NEW i \in DOMAIN disk[s]
        PROVE  /\ disk'[s][i].start = disk[s][i].start
               /\ RecordsIn(disk[s][i]) \subseteq RecordsIn(disk'[s][i])
      BY <1>4, <1>7, <1>9, <1>10, ZenonT(30)
  <2> QED BY <1>8, <1>9, <2>1, ZenonT(30) DEF Grown
<1>12. IsFiniteSet(OnDisk(s)')
  <2>1. OnDisk(s)' \subseteq OnDisk(s) \cup {rec}
    <3>1. ASSUME NEW i \in DOMAIN disk'[s], NEW r \in RecordsIn(disk'[s][i])
          PROVE  r \in OnDisk(s) \cup {rec}
        BY <1>4, <1>9, <1>10, <3>1, ZenonT(30) DEF OnDisk
    <3> QED BY <3>1, ZenonT(30) DEF OnDisk
  <2> QED BY <1>1, <2>1, FS_AddElement, FS_Subset, ZenonT(30)
<1>13. InOrder(disk'[s])
  <2> SUFFICES ASSUME NEW i \in DOMAIN disk'[s], NEW j \in DOMAIN disk'[s],
                      NEW k \in DOMAIN disk'[s][i].recs, NEW l \in DOMAIN disk'[s][j].recs,
                      i < j \/ (i = j /\ k <= l)
               PROVE  disk'[s][i].recs[k].at <= disk'[s][j].recs[l].at
      BY ZenonT(30) DEF InOrder
  <2>0. i \in 1 .. n /\ j \in 1 .. n
      BY <1>2, <1>9, ZenonT(30)
  <2>1. \A x \in DOMAIN disk[s] : \A y \in DOMAIN disk'[s][x].recs :
           \/ y \in DOMAIN disk[s][x].recs /\ disk'[s][x].recs[y] = disk[s][x].recs[y]
           \/ x = n /\ y = Len(q) + 1 /\ disk'[s][x].recs[y] = rec
    <3>1. ASSUME NEW y \in DOMAIN w
          PROVE  \/ y \in DOMAIN q /\ w[y] = q[y]
                 \/ y = Len(q) + 1 /\ w[y] = rec
      <4>1. y \in DOMAIN q \/ y = Len(q) + 1
          BY <1>6, SMT
      <4>2. w[Len(q) + 1] = rec /\ \A z \in DOMAIN q : w[z] = q[z]
          BY <1>6, ZenonT(30)
      <4>3. CASE y \in DOMAIN q
          BY <4>2, <4>3, ZenonT(30)
      <4>4. CASE y = Len(q) + 1
          BY <4>2, <4>4, ZenonT(30)
      <4> QED BY <4>1, <4>3, <4>4, ZenonT(30)
    <3>2. disk'[s][n].recs = w /\ disk[s][n].recs = q
        BY <1>4, <1>5, <1>7, <1>9, ZenonT(30)
    <3>3. ASSUME NEW x \in DOMAIN disk[s], NEW y \in DOMAIN disk'[s][x].recs, x # n
          PROVE  y \in DOMAIN disk[s][x].recs /\ disk'[s][x].recs[y] = disk[s][x].recs[y]
        BY <1>9, <3>3, ZenonT(30)
    <3> QED BY <3>1, <3>2, <3>3, ZenonT(30)
  <2>2. CASE l \in DOMAIN disk[s][j].recs /\ disk'[s][j].recs[l] = disk[s][j].recs[l]
    <3>1. ~(i = n /\ k = Len(q) + 1)
      <4>1. j = n => l \in 1 .. Len(q)
          BY <1>4, <1>5, <1>6, <2>2, ZenonT(30)
      <4> QED BY <1>6, <2>0, <4>1, SMT
    <3>2. k \in DOMAIN disk[s][i].recs /\ disk'[s][i].recs[k] = disk[s][i].recs[k]
        BY <1>9, <2>1, <3>1, ZenonT(30)
    <3> QED BY <1>1, <1>9, <2>2, <3>2, ZenonT(30) DEF InOrder
  <2>3. CASE disk'[s][j].recs[l] = rec
    <3>1. rec.at = clock
        BY <1>3, ZenonT(30) DEF Records
    <3>2. CASE k \in DOMAIN disk[s][i].recs /\ disk'[s][i].recs[k] = disk[s][i].recs[k]
        BY <1>1, <1>9, <2>3, <3>1, <3>2, ZenonT(30) DEF Dated
    <3>3. CASE disk'[s][i].recs[k] = rec
        BY <1>1, <2>3, <3>1, <3>3, SMT
    <3> QED BY <1>9, <2>1, <3>2, <3>3, ZenonT(30)
  <2> QED BY <1>9, <2>1, <2>2, <2>3, ZenonT(30)
<1>14. ASSUME NEW x \in Sinks, x # s PROVE IsFiniteSet(OnDisk(x)') /\ InOrder(disk'[x])
  <2>1. disk'[x] = disk[x]
      BY <1>8, <1>14, ZenonT(30)
  <2>2. OnDisk(x)' = OnDisk(x)
      BY <2>1, ZenonT(30) DEF OnDisk
  <2> QED BY <2>1, <2>2, ZenonT(30) DEF DiskOrder
<1> QED BY <1>11, <1>12, <1>13, <1>14, ZenonT(30) DEF DiskOrder

(* The writer goes on with a fresh shard.                                   *)
LEMMA RotateGrows ==
    ASSUME DiskInv, DiskOrder, NEW s \in Sinks, Rotate(s)
    PROVE  Grown /\ DiskOrder'
<1>1. /\ disk \in [Sinks -> Seq(ShardTypes)] /\ disk[s] \in Seq(ShardTypes) /\ clock \in Nat
      /\ InOrder(disk[s]) /\ IsFiniteSet(OnDisk(s))
    BY ZenonT(30) DEF DiskInv, DiskTypes, DiskOrder
<1>2. PICK new \in ShardTypes : new = [start |-> clock, recs |-> <<>>]
    BY <1>1, FreshShard, ZenonT(30)
<1>3. new.recs = <<>>
    BY <1>2, ZenonT(30)
<1>4. /\ disk'[s] = Append(disk[s], new)
      /\ \A x \in Sinks : x # s => disk'[x] = disk[x]
    BY <1>1, <1>2, ZenonT(30) DEF Rotate
<1>5. PICK n \in Nat : /\ DOMAIN disk[s] = 1 .. n /\ DOMAIN disk'[s] = 1 .. n + 1
                       /\ disk'[s][n + 1] = new
                       /\ \A i \in 1 .. n : disk'[s][i] = disk[s][i]
  <2>1. PICK q \in Seq(ShardTypes) : q = disk[s]
      BY <1>1, ZenonT(30)
  <2>2. /\ Len(q) \in Nat /\ DOMAIN q = 1 .. Len(q) /\ DOMAIN Append(q, new) = 1 .. Len(q) + 1
        /\ Append(q, new)[Len(q) + 1] = new /\ \A i \in 1 .. Len(q) : Append(q, new)[i] = q[i]
      BY SMT
  <2> QED BY <1>4, <2>1, <2>2, ZenonT(30)
<1>6. \A i \in 1 .. n : i \in 1 .. n + 1
    BY SMT
<1>7. \A i \in 1 .. n + 1 : i \in 1 .. n \/ i = n + 1
    BY SMT
<1>8. Grown
    BY <1>4, <1>5, <1>6, ZenonT(30) DEF Grown
<1>9. RecordsIn(new) = {} /\ DOMAIN new.recs = {}
  <2>1. DOMAIN <<>> = {}
      BY SMT
  <2> QED BY <1>3, <2>1, InShard, ZenonT(30)
<1>10. IsFiniteSet(OnDisk(s)')
  <2>1. ASSUME NEW i \in DOMAIN disk'[s], NEW r \in RecordsIn(disk'[s][i]) PROVE r \in OnDisk(s)
      BY <1>5, <1>7, <1>9, <2>1, ZenonT(30) DEF OnDisk
  <2>2. OnDisk(s)' \subseteq OnDisk(s)
      BY <2>1, ZenonT(30) DEF OnDisk
  <2> QED BY <1>1, <2>2, FS_Subset, ZenonT(30)
<1>11. InOrder(disk'[s])
  <2>1. ASSUME NEW i \in DOMAIN disk'[s], NEW k \in DOMAIN disk'[s][i].recs
        PROVE  i \in DOMAIN disk[s] /\ disk'[s][i] = disk[s][i]
      BY <1>5, <1>7, <1>9, <2>1, ZenonT(30)
  <2> QED BY <1>1, <2>1, ZenonT(30) DEF InOrder
<1>12. ASSUME NEW x \in Sinks, x # s PROVE IsFiniteSet(OnDisk(x)') /\ InOrder(disk'[x])
  <2>1. disk'[x] = disk[x]
      BY <1>4, <1>12, ZenonT(30)
  <2>2. OnDisk(x)' = OnDisk(x)
      BY <2>1, ZenonT(30) DEF OnDisk
  <2> QED BY <2>1, <2>2, ZenonT(30) DEF DiskOrder
<1> QED BY <1>8, <1>10, <1>11, <1>12, ZenonT(30) DEF DiskOrder

(* The oldest shard goes, and what it held is no longer due.                *)
LEMMA ExpireKeeps ==
    ASSUME AnswerInv, NEW s \in Sinks, Expire(s)
    PROVE  DiskOrder' /\ AnswerTypes' /\ Gathering' /\ Final'
<1>0. DiskInv /\ DiskOrder /\ AnswerTypes /\ Gathering /\ Final
    BY ZenonT(30) DEF AnswerInv
<1>1. /\ disk \in [Sinks -> Seq(ShardTypes)] /\ disk[s] \in Seq(ShardTypes)
      /\ InOrder(disk[s]) /\ IsFiniteSet(OnDisk(s)) /\ Len(disk[s]) > 1
    BY <1>0, ZenonT(30) DEF DiskInv, DiskTypes, DiskOrder, Expire
<1>2. /\ disk'[s] = Tail(disk[s])
      /\ \A x \in Sinks : x # s => disk'[x] = disk[x]
    BY <1>1, ZenonT(30) DEF Expire
<1>3. PICK n \in Nat : /\ DOMAIN disk[s] = 1 .. n + 1 /\ DOMAIN disk'[s] = 1 .. n
                       /\ \A i \in 1 .. n : disk'[s][i] = disk[s][i + 1]
  <2>1. PICK q \in Seq(ShardTypes) : q = disk[s] /\ Len(q) > 1
      BY <1>1, ZenonT(30)
  <2>2. PICK n \in Nat : n = Len(q) - 1
      BY <2>1, SMT
  <2>3. /\ DOMAIN q = 1 .. n + 1 /\ DOMAIN Tail(q) = 1 .. n
        /\ \A i \in 1 .. n : Tail(q)[i] = q[i + 1]
      BY <2>1, <2>2, SMT
  <2> QED BY <1>2, <2>1, <2>3, ZenonT(30)
<1>4. \A i \in 1 .. n : i + 1 \in 1 .. n + 1
    BY SMT
<1>5. \A i \in 1 .. n + 1 : i = 1 \/ \E j \in 1 .. n : i = j + 1
  <2>1. \A i \in 1 .. n + 1 : i = 1 \/ (i - 1 \in 1 .. n /\ i = (i - 1) + 1)
      BY SMT
  <2> QED BY <2>1, ZenonT(30)
<1>6. /\ ask \in AskTypes
      /\ ask' = [ask EXCEPT !.due = ask.due \ RecordsIn(disk[s][1])]
    BY <1>0, ZenonT(30) DEF AnswerTypes, Expire
<1>7. /\ ask'.due = ask.due \ RecordsIn(disk[s][1])
      /\ ask'.at = ask.at /\ ask'.failed = ask.failed /\ ask'.kind = ask.kind
      /\ ask'.got = ask.got /\ ask'.left = ask.left /\ ask'.listed = ask.listed
      /\ ask'.lo = ask.lo /\ ask'.hi = ask.hi /\ ask' \in AskTypes /\ ask.left \subseteq Sinks
    BY <1>6, ZenonT(30) DEF AskTypes
<1>8. IsFiniteSet(OnDisk(s)')
  <2>1. ASSUME NEW i \in DOMAIN disk'[s], NEW r \in RecordsIn(disk'[s][i]) PROVE r \in OnDisk(s)
      BY <1>3, <1>4, <2>1, ZenonT(30) DEF OnDisk
  <2>2. OnDisk(s)' \subseteq OnDisk(s)
      BY <2>1, ZenonT(30) DEF OnDisk
  <2> QED BY <1>1, <2>2, FS_Subset, ZenonT(30)
<1>9. InOrder(disk'[s])
  <2>1. ASSUME NEW i \in 1 .. n, NEW j \in 1 .. n, NEW k \in DOMAIN disk'[s][i].recs,
               NEW l \in DOMAIN disk'[s][j].recs, i < j \/ (i = j /\ k <= l)
        PROVE  disk'[s][i].recs[k].at <= disk'[s][j].recs[l].at
    <3>1. i + 1 < j + 1 \/ (i + 1 = j + 1 /\ k <= l)
        BY <2>1, SMT
    <3>2. PICK a \in DOMAIN disk[s], b \in DOMAIN disk[s] : a = i + 1 /\ b = j + 1
        BY <1>3, <1>4, ZenonT(30)
    <3>3. disk'[s][i] = disk[s][a] /\ disk'[s][j] = disk[s][b]
        BY <1>3, <3>2, ZenonT(30)
    <3>4. a < b \/ (a = b /\ k <= l)
        BY <3>1, <3>2, ZenonT(30)
    <3> QED BY <1>1, <3>3, <3>4, ZenonT(30) DEF InOrder
  <2> QED BY <1>3, <2>1, ZenonT(30) DEF InOrder
<1>10. DiskOrder'
  <2>1. ASSUME NEW x \in Sinks, x # s PROVE IsFiniteSet(OnDisk(x)') /\ InOrder(disk'[x])
    <3>1. disk'[x] = disk[x]
        BY <1>2, <2>1, ZenonT(30)
    <3>2. OnDisk(x)' = OnDisk(x)
        BY <3>1, ZenonT(30) DEF OnDisk
    <3> QED BY <1>0, <3>1, <3>2, ZenonT(30) DEF DiskOrder
  <2> QED BY <1>8, <1>9, <2>1, ZenonT(30) DEF DiskOrder
<1>11. AnswerTypes'
    BY <1>0, <1>7, ZenonT(30) DEF AnswerTypes
<1>12. ASSUME NEW x \in Sinks, NEW r \in ask'.due, Holds(x, r) PROVE Holds(x, r)'
  <2>1. CASE x # s
      BY <1>2, <1>7, <1>12, <2>1, ZenonT(30) DEF Holds
  <2>2. CASE x = s
    <3>1. PICK i \in 1 .. n + 1 : /\ r \in RecordsIn(disk[s][i])
                                  /\ ask.listed[s] # {} => disk[s][i].start \in ask.listed[s]
        BY <1>3, <1>12, <2>2, ZenonT(30) DEF Holds
    <3>2. PICK j \in 1 .. n : i = j + 1
        BY <1>5, <1>7, <3>1, ZenonT(30)
    <3> QED BY <1>3, <1>7, <2>2, <3>1, <3>2, ZenonT(30) DEF Holds
  <2> QED BY <2>1, <2>2, ZenonT(30)
<1>13. ASSUME NEW r \in ask'.due, Outdone(r) PROVE Outdone(r)'
  <2>1. PICK x \in Sinks : \E i, j \in DOMAIN disk[x] :
           /\ i <= j /\ r \in RecordsIn(disk[x][i])
           /\ \E u \in RecordsIn(disk[x][j]) : u.at >= r.at /\ u.ts < r.ts
      BY <1>13, ZenonT(30) DEF Outdone
  <2>2. PICK i \in DOMAIN disk[x], j \in DOMAIN disk[x] :
           /\ i <= j /\ r \in RecordsIn(disk[x][i])
           /\ \E u \in RecordsIn(disk[x][j]) : u.at >= r.at /\ u.ts < r.ts
      BY <2>1, ZenonT(30)
  <2>3. CASE x # s
    <3>1. disk'[x] = disk[x]
        BY <1>2, <2>3, ZenonT(30)
    <3> QED BY <2>2, <3>1, ZenonT(30) DEF Outdone
  <2>4. CASE x = s
    <3>1. PICK k \in 1 .. n : i = k + 1
        BY <1>3, <1>5, <1>7, <2>2, <2>4, ZenonT(30)
    <3>2. PICK l \in 1 .. n : j = l + 1 /\ k <= l
      <4>1. j \in 1 .. n + 1
          BY <1>3, <2>4, ZenonT(30)
      <4>2. j - 1 \in 1 .. n /\ j = (j - 1) + 1 /\ k <= j - 1
          BY <2>2, <3>1, <4>1, SMT
      <4> QED BY <4>2, ZenonT(30)
    <3>3. /\ k \in DOMAIN disk'[s] /\ r \in RecordsIn(disk'[s][k]) /\ l \in DOMAIN disk'[s]
          /\ \E u \in RecordsIn(disk'[s][l]) : u.at >= r.at /\ u.ts < r.ts
        BY <1>3, <2>2, <2>4, <3>1, <3>2, ZenonT(30)
    <3> QED BY <3>2, <3>3, ZenonT(30) DEF Outdone
  <2> QED BY <2>3, <2>4, ZenonT(30)
<1>14. \A r \in ask'.due : r \in ask.due
    BY <1>7, ZenonT(30)
<1>15. ASSUME NEW r \in ask'.due, MadeUp(r) PROVE MadeUp(r)'
    BY <1>7, <1>13, <1>15, ZenonT(30) DEF MadeUp
<1>16. Gathering'
    BY <1>0, <1>7, <1>12, <1>14, <1>15, ZenonT(30) DEF Gathering
<1>17. Final'
    BY <1>0, <1>7, <1>13, <1>14, ZenonT(30) DEF Final
<1> QED BY <1>10, <1>11, <1>16, <1>17, ZenonT(30)

(* A sink lists its shards: those with a record that is due are among them. *)
LEMMA ListKeeps ==
    ASSUME AnswerInv, SearchReadsAll, NEW s \in Sinks, List(s)
    PROVE  AnswerTypes' /\ Gathering' /\ Final'
<1>0. DiskInv /\ AnswerTypes /\ Gathering /\ Final
    BY ZenonT(30) DEF AnswerInv
<1>1. PICK found :
         /\ found = IF ask.kind = "search" THEN candidateShards(s, ask.lo, ask.hi)
                    ELSE {disk[s][i].start : i \in DOMAIN disk[s]}
         /\ ask' = [ask EXCEPT !.listed[s] = found] /\ UNCHANGED disk
         /\ ask.at = "gather"
    BY ZenonT(30) DEF List
<1>2. disk[s] \in Seq(ShardTypes) /\ \A i \in DOMAIN disk[s] : disk[s][i].start \in Nat
  <2>1. disk[s] \in Seq(ShardTypes)
      BY <1>0, ZenonT(30) DEF DiskInv, DiskTypes
  <2> QED BY <2>1, ShardFields, ZenonT(30)
<1>3. found \in SUBSET Nat
    BY <1>1, <1>2, ZenonT(30) DEF candidateShards
<1>4. ask \in AskTypes
    BY <1>0, ZenonT(30) DEF AnswerTypes
<1>5. /\ ask'.due = ask.due /\ ask'.at = ask.at /\ ask'.failed = ask.failed
      /\ ask'.kind = ask.kind /\ ask'.got = ask.got /\ ask'.left = ask.left
      /\ ask'.lo = ask.lo /\ ask'.hi = ask.hi
      /\ ask'.listed = [ask.listed EXCEPT ![s] = found]
      /\ ask.left \subseteq Sinks /\ ask.listed \in [Sinks -> SUBSET Nat]
    BY <1>1, <1>4, ZenonT(30) DEF AskTypes
<1>6. ask' \in AskTypes
    BY <1>1, <1>3, <1>4, ZenonT(30) DEF AskTypes
<1>7. AnswerTypes'
    BY <1>0, <1>5, <1>6, ZenonT(30) DEF AnswerTypes
<1>8. \A x \in Sinks : ask'.listed[x] = IF x = s THEN found ELSE ask.listed[x]
    BY <1>5, ZenonT(30)
<1>9. ASSUME NEW x \in Sinks, NEW r \in ask.due, Holds(x, r) PROVE Holds(x, r)'
  <2>1. CASE x # s
      BY <1>1, <1>8, <1>9, <2>1, ZenonT(30) DEF Holds
  <2>2. CASE x = s
    <3>1. PICK i \in DOMAIN disk[s] : r \in RecordsIn(disk[s][i])
        BY <1>9, <2>2, ZenonT(30) DEF Holds
    <3>2. disk[s][i].start \in found
      <4>1. CASE ask.kind = "search"
        <5>1. PICK k \in DOMAIN disk[s][i].recs : r = disk[s][i].recs[k]
            BY <3>1, InShard, ZenonT(30)
        <5>2. WithinSlack(r) /\ ask.lo <= r.ts /\ r.ts <= ask.hi /\ ask.lo \in Nat /\ ask.hi \in Nat
            BY <1>0, <1>4, <4>1, ZenonT(30) DEF AnswerTypes, AskTypes
        <5>3. disk[s][i].start \in candidateShards(s, ask.lo, ask.hi)
            BY <5>1, <5>2, ZenonT(30) DEF SearchReadsAll
        <5> QED BY <1>1, <4>1, <5>3, ZenonT(30)
      <4>2. CASE ask.kind # "search"
          BY <1>1, <4>2, ZenonT(30)
      <4> QED BY <4>1, <4>2, ZenonT(30)
    <3> QED BY <1>1, <1>8, <2>2, <3>1, <3>2, ZenonT(30) DEF Holds
  <2> QED BY <2>1, <2>2, ZenonT(30)
<1>10. ASSUME NEW r, MadeUp(r) PROVE MadeUp(r)'
    BY <1>1, <1>5, <1>10, ZenonT(30) DEF MadeUp, Outdone
<1>11. Gathering'
    BY <1>0, <1>5, <1>9, <1>10, ZenonT(30) DEF Gathering
<1>12. Final'
    BY <1>1, <1>5, ZenonT(30) DEF Final
<1> QED BY <1>7, <1>11, <1>12, ZenonT(30)

(* What a sink finds is on its disk.                                        *)
LEMMA FoundFacts ==
    ASSUME DiskInv, DiskOrder, NEW s \in Sinks, NEW found \in Found(s)
    PROVE  found \subseteq Records /\ IsFiniteSet(found)
<1>1. disk[s] \in Seq(ShardTypes) /\ IsFiniteSet(OnDisk(s))
    BY ZenonT(30) DEF DiskInv, DiskTypes, DiskOrder
<1>2. OnDisk(s) \subseteq Records
  <2>1. ASSUME NEW i \in DOMAIN disk[s], NEW r \in RecordsIn(disk[s][i]) PROVE r \in Records
    <3>1. PICK k \in DOMAIN disk[s][i].recs : r = disk[s][i].recs[k]
        BY <2>1, InShard, ZenonT(30)
    <3>2. PICK q \in Seq(Records) : q = disk[s][i].recs
        BY <1>1, ShardFields, ZenonT(30)
    <3>3. q[k] \in Records
        BY <3>1, <3>2, SMT
    <3> QED BY <3>1, <3>2, <3>3, ZenonT(30)
  <2> QED BY <2>1, ZenonT(30) DEF OnDisk
<1>3. AllRead(s) \subseteq OnDisk(s)
    BY ZenonT(30) DEF AllRead, OnDisk, Readable
<1>4. LastRead(s) \subseteq OnDisk(s)
  <2>1. ASSUME NEW i \in Readable(s), disk[s][i].recs # <<>>
        PROVE  disk[s][i].recs[Len(disk[s][i].recs)] \in OnDisk(s)
    <3>1. i \in DOMAIN disk[s]
        BY ZenonT(30) DEF Readable
    <3>2. PICK q \in Seq(Records) : q = disk[s][i].recs
        BY <1>1, <3>1, ShardFields, ZenonT(30)
    <3>3. Len(q) \in DOMAIN q
        BY <2>1, <3>2, SMT
    <3>4. q[Len(q)] \in RecordsIn(disk[s][i])
        BY <3>2, <3>3, InShard, ZenonT(30)
    <3> QED BY <3>1, <3>2, <3>4, ZenonT(30) DEF OnDisk
  <2> QED BY <2>1, ZenonT(30) DEF LastRead
<1>5. found \subseteq OnDisk(s)
    BY <1>3, <1>4, ZenonT(30) DEF Found, Query, SearchLogs, Newest
<1> QED BY <1>1, <1>2, <1>5, FS_Subset, ZenonT(30)

(* What a sink sends makes up for what is due of it.                        *)
LEMMA ReadMakesUp ==
    ASSUME AnswerInv, NEW s \in Sinks, NEW found \in Found(s), NEW r \in ask.due,
           r \in AllRead(s), ask.kind # "none"
    PROVE  \/ r \in found
           \/ ask.kind = "search" /\ Outnumbered(r, found)
           \/ ask.kind = "latest" /\ (Newer(r, found) \/ Outdone(r))
<1>0. DiskInv /\ DiskOrder /\ AnswerTypes
    BY ZenonT(30) DEF AnswerInv
<1>1. found \subseteq Records /\ IsFiniteSet(found)
    BY <1>0, FoundFacts, ZenonT(30)
<1>2. CASE ask.kind = "search"
  <2> DEFINE M == {x \in AllRead(s) : ask.lo <= x.ts /\ x.ts <= ask.hi}
  <2>1. r \in M /\ found \in Newest(Limit, M)
      BY <1>0, <1>2, ZenonT(30) DEF AnswerTypes, Found, SearchLogs
  <2>2. IsFiniteSet(M)
    <3>1. M \subseteq OnDisk(s)
        BY ZenonT(30) DEF AllRead, OnDisk, Readable
    <3>2. IsFiniteSet(OnDisk(s))
        BY <1>0, ZenonT(30) DEF DiskOrder
    <3> HIDE DEF M
    <3> QED BY <3>1, <3>2, FS_Subset, ZenonT(30)
  <2> HIDE DEF M
  <2>3. r \in M \ found => Cardinality(found) = Limit /\ \A t \in found : t.ts >= r.ts
      BY <2>1, <2>2, SearchAssumption, NewestFacts, ZenonT(30)
  <2>4. r \in found \/ Outnumbered(r, found)
      BY <2>1, <2>3, ZenonT(30) DEF Outnumbered
  <2> QED BY <1>2, <2>4, ZenonT(30)
<1>3. CASE ask.kind = "latest"
  <2>1. found = LastRead(s)
      BY <1>3, ZenonT(30) DEF Found, Query
  <2>2. PICK u \in found : \E i, j \in DOMAIN disk[s] :
              /\ i <= j /\ r \in RecordsIn(disk[s][i])
              /\ u \in RecordsIn(disk[s][j]) /\ u.at >= r.at
      BY <1>0, <2>1, LastReadIsLast, ZenonT(30)
  <2>3. r.ts \in Nat /\ u.ts \in Nat
      BY <1>0, <1>1, ZenonT(30) DEF AnswerTypes, AskTypes, Records
  <2>4. CASE u.ts >= r.ts
      BY <1>3, <2>4, ZenonT(30) DEF Newer
  <2>5. CASE u.ts < r.ts
      BY <1>3, <2>2, <2>5, ZenonT(30) DEF Outdone
  <2>6. u.ts >= r.ts \/ u.ts < r.ts
      BY <2>3, SMT
  <2> QED BY <2>4, <2>5, <2>6, ZenonT(30)
<1>4. CASE ask.kind \notin {"search", "latest"}
    BY <1>4, ZenonT(30) DEF Found, Query
<1> QED BY <1>2, <1>3, <1>4, ZenonT(30)

(* A sink answers.                                                          *)
LEMMA ReadKeeps ==
    ASSUME AnswerInv, SearchReadsAll, NEW s \in Sinks, Read(s)
    PROVE  AnswerTypes' /\ Gathering' /\ Final'
<1>0. DiskInv /\ DiskOrder /\ AnswerTypes /\ Gathering /\ ask \in AskTypes
    BY ZenonT(30) DEF AnswerInv, AnswerTypes
<1>1. PICK found \in Found(s) :
         ask' = [ask EXCEPT !.left = ask.left \ {s}, !.listed[s] = {}, !.got = ask.got \cup found]
    BY ZenonT(30) DEF Read
<1>2. /\ UNCHANGED disk /\ ask.at = "gather"
      /\ ask.listed[s] # {} \/ (ask.kind = "search" /\ candidateShards(s, ask.lo, ask.hi) = {})
    BY ZenonT(30) DEF Read
<1>3. found \in SUBSET Records /\ IsFiniteSet(found)
    BY <1>0, FoundFacts, ZenonT(30)
<1>4. /\ ask'.due = ask.due /\ ask'.at = ask.at /\ ask'.failed = ask.failed
      /\ ask'.kind = ask.kind /\ ask'.got = ask.got \cup found /\ ask'.left = ask.left \ {s}
      /\ ask'.lo = ask.lo /\ ask'.hi = ask.hi
      /\ ask'.listed = [ask.listed EXCEPT ![s] = {}]
      /\ ask.left \subseteq Sinks /\ ask.listed \in [Sinks -> SUBSET Nat] /\ ask.got \subseteq Records
    BY <1>0, <1>1, ZenonT(30) DEF AskTypes
<1>5. ask' \in AskTypes
  <2>1. ask.left \ {s} \in SUBSET Sinks /\ ask.got \cup found \in SUBSET Records
      BY <1>3, <1>4, ZenonT(30)
  <2>2. [ask.listed EXCEPT ![s] = {}] \in [Sinks -> SUBSET Nat]
      BY <1>4, ZenonT(30)
  <2> QED BY <1>0, <1>1, <2>1, <2>2, ZenonT(30) DEF AskTypes
<1>6. AnswerTypes'
  <2>0. IsFiniteSet(ask.got)
      BY <1>0, ZenonT(30) DEF AnswerTypes
  <2>1. IsFiniteSet(ask'.got)
    <3>1. IsFiniteSet(ask.got \cup found)
        BY <1>3, <2>0, FS_Union, ZenonT(30)
    <3> QED BY <1>4, <3>1, ZenonT(30)
  <2> QED BY <1>0, <1>4, <1>5, <2>1, ZenonT(30) DEF AnswerTypes
<1>7. ASSUME NEW r, MadeUp(r) PROVE MadeUp(r)'
  <2>1. \A T \in SUBSET ask.got : T \in SUBSET ask'.got
      BY <1>4, ZenonT(30)
  <2>2. Outnumbered(r, ask.got) => Outnumbered(r, ask'.got)
      BY <2>1, ZenonT(30) DEF Outnumbered
  <2>3. Newer(r, ask.got) => Newer(r, ask'.got)
      BY <1>4, ZenonT(30) DEF Newer
  <2>4. Outdone(r) => Outdone(r)'
      BY <1>2, ZenonT(30) DEF Outdone
  <2> QED BY <1>4, <1>7, <2>2, <2>3, <2>4, ZenonT(30) DEF MadeUp
<1>8. ASSUME NEW x \in Sinks, NEW r, x # s, Holds(x, r) PROVE Holds(x, r)'
  <2>1. ask'.listed[x] = ask.listed[x]
      BY <1>4, <1>8, ZenonT(30)
  <2> QED BY <1>2, <1>8, <2>1, ZenonT(30) DEF Holds
<1>9. ASSUME NEW r \in ask.due, Holds(s, r) PROVE MadeUp(r)'
  <2>1. PICK i \in DOMAIN disk[s] : /\ r \in RecordsIn(disk[s][i])
                                    /\ ask.listed[s] # {} => disk[s][i].start \in ask.listed[s]
      BY <1>9, ZenonT(30) DEF Holds
  <2>2. ask.listed[s] # {}
    <3>1. PICK k \in DOMAIN disk[s][i].recs : r = disk[s][i].recs[k]
        BY <2>1, InShard, ZenonT(30)
    <3>2. ask.kind = "search" => disk[s][i].start \in candidateShards(s, ask.lo, ask.hi)
      <4>1. ASSUME ask.kind = "search"
            PROVE  WithinSlack(r) /\ ask.lo <= r.ts /\ r.ts <= ask.hi /\ ask.lo \in Nat /\ ask.hi \in Nat
          BY <1>0, <4>1, ZenonT(30) DEF AnswerTypes, AskTypes
      <4> QED BY <3>1, <4>1, ZenonT(30) DEF SearchReadsAll
    <3> QED BY <1>2, <3>2, ZenonT(30)
  <2>3. r \in AllRead(s) /\ ask.kind # "none"
      BY <1>0, <1>2, <2>1, <2>2, ZenonT(30) DEF AllRead, Readable, AnswerTypes
  <2>4. \/ r \in found
        \/ ask.kind = "search" /\ Outnumbered(r, found)
        \/ ask.kind = "latest" /\ (Newer(r, found) \/ Outdone(r))
      BY <2>3, ReadMakesUp, ZenonT(30)
  <2>5. Outnumbered(r, found) => Outnumbered(r, ask'.got)
    <3>1. \A T \in SUBSET found : T \in SUBSET ask'.got
        BY <1>4, ZenonT(30)
    <3> QED BY <3>1, ZenonT(30) DEF Outnumbered
  <2>6. Newer(r, found) => Newer(r, ask'.got)
      BY <1>4, ZenonT(30) DEF Newer
  <2>7. Outdone(r) => Outdone(r)'
      BY <1>2, ZenonT(30) DEF Outdone
  <2> QED BY <1>4, <2>4, <2>5, <2>6, <2>7, ZenonT(30) DEF MadeUp
<1>10. Gathering'
    BY <1>0, <1>4, <1>7, <1>8, <1>9, ZenonT(30) DEF Gathering
<1>11. Final'
    BY <1>2, <1>4, ZenonT(30) DEF Final
<1> QED BY <1>6, <1>10, <1>11, ZenonT(30)

(* A sink fails: the answer promises nothing any more.                      *)
LEMMA FailsKeeps ==
    ASSUME AnswerInv, NEW s \in Sinks, Fails(s)
    PROVE  AnswerTypes' /\ Gathering' /\ Final'
<1>0. AnswerTypes /\ ask \in AskTypes
    BY ZenonT(30) DEF AnswerInv, AnswerTypes
<1>1. ask' = [ask EXCEPT !.left = ask.left \ {s}, !.failed = TRUE, !.listed[s] = {}]
    BY ZenonT(30) DEF Fails
<1>2. /\ ask'.due = ask.due /\ ask'.at = ask.at /\ ask'.failed = TRUE
      /\ ask'.kind = ask.kind /\ ask'.got = ask.got
      /\ ask'.lo = ask.lo /\ ask'.hi = ask.hi
      /\ ask.left \subseteq Sinks /\ ask.listed \in [Sinks -> SUBSET Nat]
    BY <1>0, <1>1, ZenonT(30) DEF AskTypes
<1>3. ask' \in AskTypes
  <2>1. ask.left \ {s} \in SUBSET Sinks
      BY <1>2, ZenonT(30)
  <2>2. [ask.listed EXCEPT ![s] = {}] \in [Sinks -> SUBSET Nat]
      BY <1>2, ZenonT(30)
  <2> QED BY <1>0, <1>1, <2>1, <2>2, ZenonT(30) DEF AskTypes
<1>4. AnswerTypes'
    BY <1>0, <1>2, <1>3, ZenonT(30) DEF AnswerTypes
<1> QED BY <1>2, <1>4, ZenonT(30) DEF Gathering, Final

(* A request starts: every sink asked holds what is due of it.              *)
LEMMA AskKeeps ==
    ASSUME AnswerInv, NEW kind \in {"search", "query", "table", "latest"},
           NEW lo \in Nat, NEW hi \in Nat, NEW S \in SUBSET Sinks, Ask(kind, lo, hi, S)
    PROVE  AnswerTypes' /\ Gathering' /\ Final'
<1>0. DiskInv /\ DiskOrder
    BY ZenonT(30) DEF AnswerInv
<1>1. PICK due : /\ due = {r \in UNION {OnDisk(s) : s \in S} :
                              kind = "search" => WithinSlack(r) /\ lo <= r.ts /\ r.ts <= hi}
                 /\ ask' = [NoAsk EXCEPT !.at = "gather", !.kind = kind, !.lo = lo, !.hi = hi,
                               !.left = S, !.due = due]
    BY ZenonT(30) DEF Ask
<1>2. UNCHANGED disk
    BY ZenonT(30) DEF Ask
<1>3. ask' = [at |-> "gather", kind |-> kind, lo |-> lo, hi |-> hi, left |-> S,
              listed |-> [s \in Sinks |-> {}], got |-> {}, failed |-> FALSE, due |-> due]
    BY <1>1, ZenonT(30) DEF NoAsk
<1>4. /\ ask'.at = "gather" /\ ask'.kind = kind /\ ask'.lo = lo /\ ask'.hi = hi
      /\ ask'.left = S /\ ask'.listed = [s \in Sinks |-> {}] /\ ask'.got = {}
      /\ ask'.due = due
    BY <1>3, ZenonT(30)
<1>5. due \in SUBSET Records
  <2>1. ASSUME NEW s \in S, NEW r \in OnDisk(s) PROVE r \in Records
    <3>1. s \in Sinks /\ disk[s] \in Seq(ShardTypes)
        BY <1>0, ZenonT(30) DEF DiskInv, DiskTypes
    <3>2. PICK i \in DOMAIN disk[s] : r \in RecordsIn(disk[s][i])
        BY <2>1, ZenonT(30) DEF OnDisk
    <3>3. PICK k \in DOMAIN disk[s][i].recs : r = disk[s][i].recs[k]
        BY <3>2, InShard, ZenonT(30)
    <3> QED BY <3>1, <3>3, ShardFields, ZenonT(30)
  <2> QED BY <1>1, <2>1, ZenonT(30)
<1>6. AnswerTypes'
  <2>1. ask' \in AskTypes
    <3>1. [s \in Sinks |-> {}] \in [Sinks -> SUBSET Nat] /\ {} \in SUBSET Records
        BY ZenonT(30)
    <3> QED BY <1>3, <1>5, <3>1, ZenonT(30) DEF AskTypes
  <2>2. IsFiniteSet(ask'.got)
    <3>1. IsFiniteSet({})
        BY FS_EmptySet, ZenonT(30)
    <3> QED BY <1>4, <3>1, ZenonT(30)
  <2>3. ASSUME kind = "search", NEW r \in due
        PROVE  WithinSlack(r) /\ lo <= r.ts /\ r.ts <= hi
      BY <1>1, <2>3, ZenonT(30)
  <2> QED BY <1>4, <2>1, <2>2, <2>3, ZenonT(30) DEF AnswerTypes
<1>7. ASSUME NEW r \in due PROVE \E s \in S : Holds(s, r)'
  <2>1. PICK s \in S : r \in OnDisk(s)
      BY <1>1, <1>7, ZenonT(30)
  <2>2. PICK i \in DOMAIN disk[s] : r \in RecordsIn(disk[s][i])
      BY <2>1, ZenonT(30) DEF OnDisk
  <2>3. ask'.listed[s] = {}
      BY <1>4, <2>1, ZenonT(30)
  <2> QED BY <1>2, <2>1, <2>2, <2>3, ZenonT(30) DEF Holds
<1>8. Gathering' /\ Final'
    BY <1>4, <1>7, ZenonT(30) DEF Gathering, Final
<1> QED BY <1>6, <1>8, ZenonT(30)

(* A handler merges what the sinks sent: all of it has been made up for.    *)
LEMMA MergeKeeps ==
    ASSUME AnswerInv, Merge
    PROVE  AnswerTypes' /\ Gathering' /\ Final'
<1>0. AnswerTypes /\ Gathering /\ ask \in AskTypes /\ IsFiniteSet(ask.got) /\ ask.got \subseteq Records
    BY ZenonT(30) DEF AnswerInv, AnswerTypes, AskTypes
<1>1. PICK T : /\ ask' = [ask EXCEPT !.at = "answered", !.got = T]
               /\ ask.kind = "search" => T \in Newest(Limit, ask.got)
               /\ ask.kind = "latest" => T \in Newest(1, ask.got)
               /\ ask.kind \in {"query", "table"} => T = ask.got
  <2>1. PICK T \in CASE ask.kind = "search" -> SearchLogsHandler(ask.got)
                     [] ask.kind = "latest" -> ApisHandler(ask.got)
                     [] ask.kind = "query" -> QueryHandler(ask.got)
                     [] ask.kind = "table" -> FrontendQuery(ask.got) :
             ask' = [ask EXCEPT !.at = "answered", !.got = T]
      BY ZenonT(30) DEF Merge
  <2>2. ask.kind = "search" => T \in Newest(Limit, ask.got)
      BY <2>1, ZenonT(30) DEF SearchLogsHandler
  <2>3. ask.kind = "latest" => T \in Newest(1, ask.got)
      BY <2>1, ZenonT(30) DEF ApisHandler
  <2>4. ask.kind \in {"query", "table"} => T = ask.got
      BY <2>1, ZenonT(30) DEF QueryHandler, FrontendQuery
  <2> QED BY <2>1, <2>2, <2>3, <2>4, ZenonT(30)
<1>2. ask.at = "gather" /\ ask.left = {} /\ UNCHANGED disk
    BY ZenonT(30) DEF Merge
<1>3. ask.kind \in {"search", "query", "table", "latest"}
    BY <1>0, <1>2, ZenonT(30) DEF AnswerTypes, AskTypes
<1>4. /\ T \subseteq ask.got /\ IsFiniteSet(T)
      /\ ask.kind = "search" =>
            \A r \in ask.got \ T : Cardinality(T) = Limit /\ \A t \in T : t.ts >= r.ts
      /\ ask.kind = "latest" =>
            /\ \A r \in ask.got \ T : \A t \in T : t.ts >= r.ts
            /\ ask.got # {} => T # {}
  <2>1. CASE ask.kind = "search"
    <3>1. Limit \in Nat /\ T \in Newest(Limit, ask.got)
        BY <1>1, <2>1, SearchAssumption, ZenonT(30)
    <3> QED BY <1>0, <2>1, <3>1, NewestFacts, ZenonT(30)
  <2>2. CASE ask.kind = "latest"
    <3>1. PICK n \in Nat : n > 0 /\ T \in Newest(n, ask.got)
        BY <1>1, <2>2, SMT
    <3>2. /\ T \subseteq ask.got /\ IsFiniteSet(T) /\ (ask.got # {} => T # {})
          /\ \A r \in ask.got \ T : \A t \in T : t.ts >= r.ts
      <4>1. PICK S : S = ask.got
          BY ZenonT(30)
      <4>2. IsFiniteSet(S) /\ T \in Newest(n, S)
          BY <1>0, <3>1, <4>1, ZenonT(30)
      <4>3. /\ T \subseteq S /\ IsFiniteSet(T)
            /\ n > 0 /\ S # {} => T # {}
            /\ \A r \in S \ T : Cardinality(T) = n /\ \A t \in T : t.ts >= r.ts
          BY <4>2, NewestFacts, ZenonT(30)
      <4> QED BY <3>1, <4>1, <4>3, ZenonT(30)
    <3> QED BY <2>2, <3>2, ZenonT(30)
  <2>3. CASE ask.kind \in {"query", "table"}
      BY <1>0, <1>1, <2>3, ZenonT(30)
  <2> QED BY <1>3, <2>1, <2>2, <2>3, ZenonT(30)
<1>5. /\ ask'.due = ask.due /\ ask'.at = "answered" /\ ask'.failed = ask.failed
      /\ ask'.kind = ask.kind /\ ask'.got = T
      /\ ask'.lo = ask.lo /\ ask'.hi = ask.hi
    BY <1>0, <1>1, ZenonT(30) DEF AskTypes
<1>6. AnswerTypes'
  <2>1. T \in SUBSET Records
      BY <1>0, <1>4, ZenonT(30)
  <2>2. ask' \in AskTypes
      BY <1>0, <1>1, <2>1, ZenonT(30) DEF AskTypes
  <2>3. IsFiniteSet(ask'.got)
      BY <1>4, <1>5, ZenonT(30)
  <2> QED BY <1>0, <1>3, <1>5, <2>2, <2>3, ZenonT(30) DEF AnswerTypes
<1>7. ASSUME ~ask.failed, NEW r \in ask.due \ T
      PROVE  \/ /\ ask.kind = "search"
                /\ Cardinality(T) = Limit /\ \A t \in T : t.ts >= r.ts
             \/ ask.kind = "latest" /\ (Newer(r, T) \/ Outdone(r))
  <2>1. MadeUp(r)
      BY <1>0, <1>2, <1>7, ZenonT(30) DEF Gathering
  <2>2. r.ts \in Nat /\ \A t \in ask.got : t.ts \in Nat
      BY <1>0, ZenonT(30) DEF AskTypes, Records
  <2>3. CASE ask.kind = "search"
    <3>1. CASE r \in ask.got
        BY <1>4, <2>3, <3>1, ZenonT(30)
    <3>2. CASE Outnumbered(r, ask.got)
      <4>1. PICK U \in SUBSET ask.got : Cardinality(U) = Limit /\ \A t \in U : t.ts >= r.ts
          BY <3>2, ZenonT(30) DEF Outnumbered
      <4>2. Limit \in Nat /\ T \in Newest(Limit, ask.got)
          BY <1>1, <2>3, SearchAssumption, ZenonT(30)
      <4>3. Cardinality(T) = Limit /\ \A t \in T : t.ts >= r.ts
        <5>1. PICK S : S = ask.got
            BY ZenonT(30)
        <5>2. PICK t0 \in Nat : t0 = r.ts
            BY <2>2, ZenonT(30)
        <5>3. /\ S \subseteq Records /\ IsFiniteSet(S) /\ T \in Newest(Limit, S)
              /\ U \in SUBSET S /\ \A u \in U : u.ts >= t0
            BY <1>0, <4>1, <4>2, <5>1, <5>2, ZenonT(30)
        <5>4. Cardinality(T) = Limit /\ \A t \in T : t.ts >= t0
          <6>1. PICK n \in Nat : n = Limit
              BY <4>2, ZenonT(30)
          <6>2. T \in Newest(n, S) /\ Cardinality(U) = n
              BY <4>1, <5>3, <6>1, ZenonT(30)
          <6>3. Cardinality(T) = n /\ \A t \in T : t.ts >= t0
              BY <5>3, <6>2, NewestOutnumber
          <6> QED BY <6>1, <6>3, ZenonT(30)
        <5> QED BY <5>2, <5>4, ZenonT(30)
      <4> QED BY <2>3, <4>3, ZenonT(30)
    <3> QED BY <2>1, <2>3, <3>1, <3>2, ZenonT(30) DEF MadeUp
  <2>4. CASE ask.kind = "latest"
    <3>1. ASSUME NEW u \in ask.got, u.ts >= r.ts PROVE Newer(r, T)
      <4>1. CASE u \in T
          BY <3>1, <4>1, ZenonT(30) DEF Newer
      <4>2. CASE u \notin T
        <5>1. PICK t \in T : t.ts >= u.ts
            BY <1>4, <2>4, <4>2, ZenonT(30)
        <5>2. t.ts >= r.ts
          <6>1. t.ts \in Nat /\ u.ts \in Nat /\ r.ts \in Nat
              BY <1>4, <2>2, <5>1, ZenonT(30)
          <6> QED BY <3>1, <5>1, <6>1, SMT
        <5> QED BY <5>2, ZenonT(30) DEF Newer
      <4> QED BY <4>1, <4>2, ZenonT(30)
    <3>2. r \in ask.got => r.ts >= r.ts
        BY <2>2, SMT
    <3>3. Newer(r, ask.got) => \E u \in ask.got : u.ts >= r.ts
        BY ZenonT(30) DEF Newer
    <3> QED BY <2>1, <2>4, <3>1, <3>2, <3>3, ZenonT(30) DEF MadeUp
  <2>5. CASE ask.kind \in {"query", "table"}
      BY <1>1, <1>7, <2>1, <2>5, ZenonT(30) DEF MadeUp
  <2> QED BY <1>3, <2>3, <2>4, <2>5, ZenonT(30)
<1>8. \A r : Outdone(r) => Outdone(r)'
    BY <1>2, ZenonT(30) DEF Outdone
<1>9. Gathering' /\ Final'
    BY <1>5, <1>7, <1>8, ZenonT(30) DEF Gathering, Final
<1> QED BY <1>6, <1>9, ZenonT(30)

(* The request is over, or lost.                                            *)
LEMMA IdleKeeps ==
    ASSUME ask' = NoAsk
    PROVE  AnswerTypes' /\ Gathering' /\ Final'
<1>1. [s \in Sinks |-> {}] \in [Sinks -> SUBSET Nat] /\ {} \in SUBSET Records /\ 0 \in Nat
    OBVIOUS
<1>2. ask' \in AskTypes
    BY <1>1, ZenonT(30) DEF NoAsk, AskTypes
<1>3. ask'.at = "idle" /\ ask'.kind = "none" /\ ask'.got = {}
    BY ZenonT(30) DEF NoAsk
<1>4. IsFiniteSet(ask'.got)
  <2>1. IsFiniteSet({})
      BY FS_EmptySet, ZenonT(30)
  <2> QED BY <1>3, <2>1, ZenonT(30)
<1> QED BY <1>2, <1>3, <1>4, ZenonT(30) DEF AnswerTypes, Gathering, Final

(* Nothing has been written nor asked.                                      *)
LEMMA AnswerStart == ServerInit => AnswerInv
<1> SUFFICES ASSUME ServerInit PROVE AnswerInv
    OBVIOUS
<1>1. DiskInv
    BY DiskStart, ZenonT(30)
<1>2. ask = NoAsk /\ disk = [s \in Sinks |-> <<[start |-> 0, recs |-> <<>>]>>]
    BY ZenonT(30) DEF ServerInit, SearchInit
<1>3. AnswerTypes /\ Gathering /\ Final
  <2>1. [s \in Sinks |-> {}] \in [Sinks -> SUBSET Nat] /\ {} \in SUBSET Records /\ 0 \in Nat
      OBVIOUS
  <2>2. ask \in AskTypes
      BY <1>2, <2>1, ZenonT(30) DEF NoAsk, AskTypes
  <2>3. ask.at = "idle" /\ ask.kind = "none" /\ ask.got = {}
      BY <1>2, ZenonT(30) DEF NoAsk
  <2>4. IsFiniteSet(ask.got)
      BY <2>3, FS_EmptySet, ZenonT(30)
  <2> QED BY <2>2, <2>3, <2>4, ZenonT(30) DEF AnswerTypes, Gathering, Final
<1>4. DiskOrder
  <2> SUFFICES ASSUME NEW s \in Sinks PROVE IsFiniteSet(OnDisk(s)) /\ InOrder(disk[s])
      BY ZenonT(30) DEF DiskOrder
  <2>1. PICK first \in ShardTypes : first = [start |-> 0, recs |-> <<>>]
      BY FreshShard, ZenonT(30)
  <2>2. disk[s] = <<first>> /\ first.recs = <<>>
      BY <1>2, <2>1, ZenonT(30)
  <2>3. DOMAIN disk[s] = {1} /\ disk[s][1].recs = <<>> /\ DOMAIN disk[s][1].recs = {}
      BY <2>2, SMT
  <2>4. OnDisk(s) = {}
    <3>1. \A i \in DOMAIN disk[s] : DOMAIN disk[s][i].recs = {}
        BY <2>3, ZenonT(30)
    <3>2. \A i \in DOMAIN disk[s] : \A r : r \notin RecordsIn(disk[s][i])
        BY <3>1, InShard, ZenonT(30)
    <3>3. \A r : r \notin OnDisk(s)
        BY <3>2, ZenonT(30) DEF OnDisk
    <3> QED BY <3>3, ZenonT(30)
  <2>5. InOrder(disk[s])
      BY <2>3, ZenonT(30) DEF InOrder
  <2> QED BY <2>4, <2>5, FS_EmptySet, ZenonT(30)
<1> QED BY <1>1, <1>3, <1>4, ZenonT(30) DEF AnswerInv

(* What every step of the server and the sinks does to the request.         *)
LEMMA AnswerStep == AnswerInv /\ [ServerNext]_serverVars => AnswerInv'
<1> SUFFICES ASSUME AnswerInv, [ServerNext]_serverVars PROVE AnswerInv'
    OBVIOUS
<1>0. DiskInv /\ DiskOrder /\ AnswerTypes /\ Gathering /\ Final
    BY ZenonT(30) DEF AnswerInv
<1>1. DiskInv' /\ SearchReadsAll
    BY <1>0, DiskStep, ShardsPromised, ZenonT(30)
<1>2. ASSUME UNCHANGED disk PROVE DiskOrder'
    BY <1>0, <1>2, ZenonT(30) DEF DiskOrder, OnDisk, RecordsIn
<1>3. ASSUME UNCHANGED <<disk, ask>> PROVE AnswerInv'
  <2>1. disk' = disk /\ ask' = ask
      BY <1>3, ZenonT(30)
  <2>2. AnswerTypes'
      BY <1>0, <2>1, ZenonT(30) DEF AnswerTypes
  <2>3. \A r : Outdone(r)' <=> Outdone(r)
      BY <2>1, ZenonT(30) DEF Outdone
  <2>4. \A s, r : Holds(s, r)' <=> Holds(s, r)
      BY <2>1, ZenonT(30) DEF Holds
  <2>5. \A r : MadeUp(r)' <=> MadeUp(r)
      BY <2>1, <2>3, ZenonT(30) DEF MadeUp
  <2>6. Gathering'
      BY <1>0, <2>1, <2>4, <2>5, ZenonT(30) DEF Gathering
  <2>7. Final'
      BY <1>0, <2>1, <2>3, ZenonT(30) DEF Final
  <2> QED BY <1>1, <1>2, <2>1, <2>2, <2>6, <2>7, ZenonT(30) DEF AnswerInv
<1>4. ASSUME Request PROVE AnswerInv'
  <2>1. UNCHANGED disk
      BY <1>4, ZenonT(30) DEF Request, Ask
  <2>2. PICK kind \in {"search", "query", "table", "latest"}, lo, hi \in 0 .. MaxClock + 1 :
            Ask(kind, lo, hi, GetAddresses)
    <3>1. 0 \in 0 .. MaxClock + 1 /\ MaxClock + 1 \in 0 .. MaxClock + 1
        BY SearchAssumption, SMT
    <3> QED BY <1>4, <3>1, ZenonT(30) DEF Request
  <2>3. lo \in Nat /\ hi \in Nat
      BY <2>2, SMT
  <2>4. GetAddresses \in SUBSET Sinks
      BY ZenonT(30) DEF GetAddresses
  <2>5. AnswerTypes' /\ Gathering' /\ Final'
      BY <2>2, <2>3, <2>4, AskKeeps, ZenonT(30)
  <2> QED BY <1>1, <1>2, <2>1, <2>5, ZenonT(30) DEF AnswerInv
<1>5. ASSUME Merge PROVE AnswerInv'
  <2>1. UNCHANGED disk
      BY <1>5, ZenonT(30) DEF Merge
  <2> QED BY <1>1, <1>2, <1>5, <2>1, MergeKeeps, ZenonT(30) DEF AnswerInv
<1>6. ASSUME ask' = NoAsk, UNCHANGED disk PROVE AnswerInv'
    BY <1>1, <1>2, <1>6, IdleKeeps, ZenonT(30) DEF AnswerInv
<1>7. ASSUME NEW s \in Sinks, SinkStep(s) PROVE AnswerInv'
  <2>1. ASSUME NEW ts \in 0 .. MaxClock + 1, Write(s, ts) PROVE AnswerInv'
    <3>1. ts \in Nat
        BY <2>1, SMT
    <3>2. ask' = ask
        BY <2>1, ZenonT(30) DEF Write
    <3>3. Grown /\ DiskOrder'
        BY <1>0, <2>1, <3>1, WriteGrows, ZenonT(30)
    <3>4. Gathering' /\ Final'
        BY <1>0, <3>2, <3>3, GrownKeeps, ZenonT(30)
    <3>5. AnswerTypes'
        BY <1>0, <3>2, ZenonT(30) DEF AnswerTypes
    <3> QED BY <1>1, <3>3, <3>4, <3>5, ZenonT(30) DEF AnswerInv
  <2>2. ASSUME Rotate(s) PROVE AnswerInv'
    <3>2. ask' = ask
        BY <2>2, ZenonT(30) DEF Rotate
    <3>3. Grown /\ DiskOrder'
        BY <1>0, <2>2, RotateGrows, ZenonT(30)
    <3>4. Gathering' /\ Final'
        BY <1>0, <3>2, <3>3, GrownKeeps, ZenonT(30)
    <3>5. AnswerTypes'
        BY <1>0, <3>2, ZenonT(30) DEF AnswerTypes
    <3> QED BY <1>1, <3>3, <3>4, <3>5, ZenonT(30) DEF AnswerInv
  <2>3. ASSUME Expire(s) PROVE AnswerInv'
      BY <1>1, <2>3, ExpireKeeps, ZenonT(30) DEF AnswerInv
  <2>4. ASSUME List(s) PROVE AnswerInv'
    <3>1. UNCHANGED disk
        BY <2>4, ZenonT(30) DEF List
    <3> QED BY <1>1, <1>2, <2>4, <3>1, ListKeeps, ZenonT(30) DEF AnswerInv
  <2>5. ASSUME Read(s) PROVE AnswerInv'
    <3>1. UNCHANGED disk
        BY <2>5, ZenonT(30) DEF Read
    <3> QED BY <1>1, <1>2, <2>5, <3>1, ReadKeeps, ZenonT(30) DEF AnswerInv
  <2>6. ASSUME Fails(s) PROVE AnswerInv'
    <3>1. UNCHANGED disk
        BY <2>6, ZenonT(30) DEF Fails
    <3> QED BY <1>1, <1>2, <2>6, <3>1, FailsKeeps, ZenonT(30) DEF AnswerInv
  <2> QED BY <1>7, <2>1, <2>2, <2>3, <2>4, <2>5, <2>6, ZenonT(30) DEF SinkStep
<1>8. ASSUME UNCHANGED searchVars PROVE AnswerInv'
    BY <1>3, <1>8, ZenonT(30) DEF searchVars
<1>9. ASSUME SearchTick PROVE AnswerInv'
    BY <1>3, <1>9, ZenonT(30) DEF SearchTick
<1>10. ASSUME Respond \/ Restart PROVE AnswerInv'
    BY <1>6, <1>10, ZenonT(30) DEF Respond, Restart
<1>11. ASSUME Registration PROVE AnswerInv'
    BY <1>8, <1>11, ZenonT(30) DEF Registration, Open, Heartbeat, ClientNotices
<1>12. ASSUME \E s \in Sinks : ClientBreaks(s) PROVE AnswerInv'
    BY <1>8, <1>12, ZenonT(30) DEF ClientBreaks
<1>13. ASSUME \E i \in Streams : ServerBreaks(i) \/ ServerNotices(i) PROVE AnswerInv'
    BY <1>8, <1>13, ZenonT(30) DEF ServerBreaks, ServerNotices
<1>14. ASSUME UNCHANGED serverVars PROVE AnswerInv'
    BY <1>8, <1>14, ZenonT(30) DEF serverVars
<1> QED
  BY <1>4, <1>5, <1>7, <1>9, <1>10, <1>11, <1>12, <1>13, <1>14, ZenonT(30) DEF ServerNext

(* Whatever is written, rotated or archived while the sinks answer one      *)
(* after the other, an answer of all of them lacks nothing that was there   *)
(* when the request came and should be in it (SearchLogs, Query and their   *)
(* handlers).                                                               *)
THEOREM AnswersLackNothing == ServerSpec => []AnswersComplete
<1>1. AnswerInv => AnswersComplete
  <2> SUFFICES ASSUME AnswerInv, ask.at = "answered", ~ask.failed, NEW r \in ask.due \ ask.got
               PROVE  CASE ask.kind = "search" ->
                              Cardinality(ask.got) = Limit /\ \A t \in ask.got : t.ts >= r.ts
                        [] ask.kind \in {"query", "table"} -> FALSE
                        [] ask.kind = "latest" ->
                              \/ \E t \in ask.got : t.ts >= r.ts
                              \/ \E s \in Sinks : \E u \in OnDisk(s) : u.at >= r.at /\ u.ts < r.ts
      BY ZenonT(30) DEF AnswersComplete
  <2>1. \/ /\ ask.kind = "search"
           /\ Cardinality(ask.got) = Limit /\ \A t \in ask.got : t.ts >= r.ts
        \/ ask.kind = "latest" /\ (Newer(r, ask.got) \/ Outdone(r))
      BY ZenonT(30) DEF AnswerInv, Final
  <2>2. Outdone(r) => \E s \in Sinks : \E u \in OnDisk(s) : u.at >= r.at /\ u.ts < r.ts
      BY ZenonT(30) DEF Outdone, OnDisk
  <2>3. CASE ask.kind = "search"
      BY <2>1, <2>3, ZenonT(30)
  <2>4. CASE ask.kind = "latest"
      BY <2>1, <2>2, <2>4, ZenonT(30) DEF Newer
  <2> QED BY <2>1, <2>3, <2>4, ZenonT(30)
<1> QED BY <1>1, AnswerStart, AnswerStep, PTL DEF ServerSpec
=============================================================================
