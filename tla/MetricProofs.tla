---------------------------- MODULE MetricProofs ----------------------------
(***************************************************************************)
(* Theorems about the agent's metric path, for every set of label keys and *)
(* values, every queue size and every number of events: each batch ends in *)
(* one counter or is still under way, each series the forwarder froze was  *)
(* counted, and the forwarder implements SeriesTotals.                     *)
(***************************************************************************)
EXTENDS MetricPipeline, TLAPS

(* The label sets a series, a sample or a marker may carry.                 *)
LabelValues == Values \union {Empty}
LabelSets == UNION {[K -> LabelValues] : K \in SUBSET Keys}

Batches == [samples : SUBSET LabelSets, markers : SUBSET LabelSets]

(* A series of the metric; only a histogram has bounds.                     *)
States ==
    {st \in [bounds : {0} \union Layouts, value : Int, age : Nat] :
        metric.data # "histogram" => st.bounds = 0}

(* Types of the forwarder: a stored series has the keys of the schema.      *)
SeriesType ==
    /\ schema \subseteq Keys
    /\ DOMAIN series \subseteq [schema -> LabelValues]
    /\ series \in [DOMAIN series -> States]

FwdType == SeriesType /\ eventsCh \in Seq(EventsOf(metric))

(* Types of the relays.                                                     *)
RelayType ==
    /\ queue \in [Relays -> Seq(Batches)]
    /\ work \in [Relays -> [at : {"select", "send", "backoff", "returned"},
                            item : Batches, attempt : Nat]]
    /\ count \in [Relays -> [offered : Nat, batches : Nat, dropped : Nat]]

(* What the remote writer remembers and what its endpoint shows.            *)
WriterType ==
    writer \in [prev : SUBSET LabelSets, live : SUBSET Ids(LabelSets)]

(* The remote writer, or a batch behind the i-th in its queue, will retire  *)
(* the series.                                                              *)
Told(x, i) ==
    \/ x \in Ids(writer.prev)
    \/ \E j \in (i + 1) .. Len(queue["rw"]) : x \in Ids(queue["rw"][j].markers)

(* A batch is lost, and counted, or the worker is gone.                     *)
Excused == count["rw"].dropped > 0 \/ work["rw"].at = "returned"

(* What the endpoint shows, and what a batch under way will make it show.   *)
Accounts ==
    /\ \A x \in writer.live :
          \/ Told(x, 0)
          \/ InFlight("rw") = 1 /\ x \in Ids(work["rw"].item.markers)
    /\ \A i \in DOMAIN queue["rw"] :
          \A x \in Ids(queue["rw"][i].samples) : Told(x, i)
    /\ InFlight("rw") = 1 =>
          \A x \in Ids(work["rw"].item.samples) : Told(x, 0)

RwInv == "rw" \in Relays => Excused \/ Accounts

StoreInv == store.live \subseteq Ids(store.prev) \/ store.errors

-----------------------------------------------------------------------------
(* Enqueue: a full queue counts the batch as dropped.                       *)
LEMMA EnqueueAccounts ==
    ASSUME RelayType, EveryBatchAccounted, NEW r \in Relays, NEW b \in Batches,
           Enqueue(r, b)
    PROVE  /\ RelayType' /\ EveryBatchAccounted' /\ Relays' = Relays
           /\ work' = work
           /\ \/ queue' = [queue EXCEPT ![r] = Append(@, b)]
              \/ count'[r].dropped > 0 /\ queue' = queue
           /\ count'[r].dropped >= count[r].dropped
           /\ \A s \in Relays \ {r} : count'[s] = count[s]
<1> DEFINE full == Len(queue[r]) >= QueueCap
           c == count[r]
           d == [offered |-> c.offered + 1, batches |-> c.batches,
                 dropped |-> IF full THEN c.dropped + 1 ELSE c.dropped]
<1>1. /\ c \in [offered : Nat, batches : Nat, dropped : Nat]
      /\ queue[r] \in Seq(Batches)
  BY ZenonT(30) DEF RelayType
<1>2. /\ queue' = IF full THEN queue ELSE [queue EXCEPT ![r] = Append(@, b)]
      /\ UNCHANGED <<ctx, work>>
  BY ZenonT(30) DEF Enqueue
<1>3. count' = [count EXCEPT ![r] = d]
  <2> DEFINE b1 == [offered |-> c.offered + 1, batches |-> c.batches,
                    dropped |-> c.dropped]
             c1 == [count EXCEPT ![r] = b1]
  <2>1. count' = [[count EXCEPT ![r].offered = @ + 1]
                     EXCEPT ![r].dropped = IF full THEN @ + 1 ELSE @]
    BY ZenonT(30) DEF Enqueue
  <2>2. [c EXCEPT !.offered = @ + 1] = b1
    BY <1>1
  <2>3. [count EXCEPT ![r].offered = @ + 1] = c1
    BY <2>2, ZenonT(30)
  <2>4. c1[r] = b1
    BY ZenonT(30) DEF RelayType
  <2>5. [b1 EXCEPT !.dropped = IF full THEN @ + 1 ELSE @] = d
    OBVIOUS
  <2>6. [c1 EXCEPT ![r].dropped = IF full THEN @ + 1 ELSE @] = [c1 EXCEPT ![r] = d]
    <3> HIDE DEF b1, c1, d, full
    <3> QED BY <2>4, <2>5, ZenonT(30)
  <2>7. [c1 EXCEPT ![r] = d] = [count EXCEPT ![r] = d]
    <3> HIDE DEF b1, d
    <3> QED BY ZenonT(30)
  <2>8. count' = [c1 EXCEPT ![r].dropped = IF full THEN @ + 1 ELSE @]
    <3> HIDE DEF c1, full
    <3> QED BY <2>1, <2>3, ZenonT(30)
  <2> HIDE DEF c1, d, full
  <2> QED BY <2>6, <2>7, <2>8, ZenonT(30)
<1>4. d \in [offered : Nat, batches : Nat, dropped : Nat]
  BY <1>1
<1>5. /\ Relays' = Relays
      /\ queue' \in [Relays -> Seq(Batches)]
      /\ \A s \in Relays \ {r} : queue'[s] = queue[s]
      /\ ~full => Len(queue'[r]) = Len(queue[r]) + 1
      /\ full => queue' = queue
  BY <1>1, <1>2 DEF RelayType, Relays
<1>6. /\ count' \in [Relays -> [offered : Nat, batches : Nat, dropped : Nat]]
      /\ count'[r] = d
      /\ \A s \in Relays \ {r} : count'[s] = count[s]
  <2> HIDE DEF d
  <2> QED BY <1>3, <1>4, ZenonT(30) DEF RelayType
<1>7. RelayType'
  BY <1>2, <1>5, <1>6, ZenonT(30) DEF RelayType
<1>8. EveryBatchAccounted'
  <2> SUFFICES ASSUME NEW s \in Relays, work[s].at # "returned"
               PROVE  (count[s].offered = count[s].batches + count[s].dropped
                              + Len(queue[s]) + InFlight(s))'
    BY <1>2, <1>5, ZenonT(30) DEF EveryBatchAccounted
  <2>1. /\ count[s].offered = count[s].batches + count[s].dropped
                              + Len(queue[s]) + InFlight(s)
        /\ InFlight(s)' = InFlight(s)
        /\ InFlight(s) \in Nat
    BY <1>2, <1>5, ZenonT(30) DEF EveryBatchAccounted, InFlight
  <2>2. CASE s = r
    <3>0. /\ c.offered = c.batches + c.dropped + Len(queue[r]) + InFlight(s)
          /\ c.offered \in Nat /\ c.batches \in Nat /\ c.dropped \in Nat
          /\ InFlight(s) \in Nat /\ InFlight(s)' = InFlight(s)
      BY <2>1, <2>2, <1>1, ZenonT(30)
    <3>1. Len(queue[r]) \in Nat
      BY <1>1
    <3> DEFINE o == c.offered  m == c.batches  n == c.dropped
               k == Len(queue[r])  f == InFlight(s)
               o1 == count'[s].offered  m1 == count'[s].batches
               n1 == count'[s].dropped  k1 == Len(queue'[s])  f1 == InFlight(s)'
    <3>2. /\ o = m + n + k + f /\ f1 = f /\ o1 = o + 1 /\ m1 = m
          /\ o \in Nat /\ m \in Nat /\ n \in Nat /\ k \in Nat /\ f \in Nat
      BY <3>0, <3>1, <2>2, <1>6
    <3>3. \/ k1 = k /\ n1 = n + 1
          \/ k1 = k + 1 /\ n1 = n
      BY <2>2, <1>5, <1>6
    <3>4. o1 = m1 + n1 + k1 + f1
      <4> HIDE DEF o, m, n, k, f, o1, m1, n1, k1, f1
      <4> QED BY <3>2, <3>3
    <3> QED BY <3>4, ZenonT(30)
  <2>3. CASE s # r
    BY <2>1, <2>3, <1>5, <1>6, ZenonT(30)
  <2> QED BY <2>2, <2>3, ZenonT(30)
<1> QED BY <1>1, <1>2, <1>5, <1>6, <1>7, <1>8

(* Worker: a batch leaves the queue for the worker's hands, and these only  *)
(* delivered, dropped or with the worker.                                   *)
LEMMA TakeAccounts ==
    ASSUME RelayType, EveryBatchAccounted, NEW r \in Relays, Take(r)
    PROVE  RelayType' /\ EveryBatchAccounted' /\ Relays' = Relays
<1> DEFINE w == [at |-> "send", item |-> Head(queue[r]), attempt |-> 0]
<1>1. queue[r] \in Seq(Batches) /\ queue[r] # <<>>
  BY ZenonT(30) DEF RelayType, Take
<1>2. /\ queue' = [queue EXCEPT ![r] = Tail(queue[r])]
      /\ work' = [work EXCEPT ![r] = w]
      /\ UNCHANGED <<ctx, count>>
      /\ work[r].at = "select"
  BY ZenonT(30) DEF Take
<1>3. /\ w \in [at : {"select", "send", "backoff", "returned"},
                 item : Batches, attempt : Nat]
      /\ Tail(queue[r]) \in Seq(Batches)
      /\ Len(Tail(queue[r])) = Len(queue[r]) - 1
  BY <1>1
<1>4. /\ Relays' = Relays
      /\ queue' \in [Relays -> Seq(Batches)]
      /\ queue'[r] = Tail(queue[r])
      /\ \A s \in Relays \ {r} : queue'[s] = queue[s]
  BY <1>1, <1>2, <1>3, ZenonT(30) DEF RelayType, Relays
<1>5. /\ work' \in [Relays -> [at : {"select", "send", "backoff", "returned"},
                               item : Batches, attempt : Nat]]
      /\ work'[r] = w
      /\ \A s \in Relays \ {r} : work'[s] = work[s]
  <2> HIDE DEF w
  <2> QED BY <1>2, <1>3, ZenonT(30) DEF RelayType
<1>6. RelayType'
  BY <1>2, <1>4, <1>5, ZenonT(30) DEF RelayType
<1>7. EveryBatchAccounted'
  <2> SUFFICES ASSUME NEW s \in Relays, work'[s].at # "returned"
               PROVE  (count[s].offered = count[s].batches + count[s].dropped
                              + Len(queue[s]) + InFlight(s))'
    BY <1>4, ZenonT(30) DEF EveryBatchAccounted
  <2>0. count[s] \in [offered : Nat, batches : Nat, dropped : Nat]
    BY ZenonT(30) DEF RelayType
  <2>1. CASE s = r
    <3>1. InFlight(s) = 0 /\ InFlight(s)' = 1
      BY <2>1, <1>2, <1>4, <1>5, ZenonT(30) DEF InFlight
    <3>2. count[s].offered = count[s].batches + count[s].dropped
                              + Len(queue[s]) + InFlight(s)
      BY <2>1, <1>2, ZenonT(30) DEF EveryBatchAccounted
    <3>3. Len(queue[s]) \in Nat
      BY <1>1, <2>1
    <3> QED BY <3>1, <3>2, <3>3, <2>0, <2>1, <1>2, <1>3, <1>4
  <2>2. CASE s # r
    <3>1. InFlight(s)' = InFlight(s)
      BY <2>2, <1>4, <1>5, ZenonT(30) DEF InFlight
    <3>2. count[s].offered = count[s].batches + count[s].dropped
                              + Len(queue[s]) + InFlight(s)
      BY <2>2, <1>5, ZenonT(30) DEF EveryBatchAccounted
    <3> QED BY <3>1, <3>2, <2>2, <1>2, <1>4, ZenonT(30)
  <2> QED BY <2>1, <2>2, ZenonT(30)
<1> QED BY <1>4, <1>6, <1>7, ZenonT(30)

(* A relay's work and counters, and what a worker's step has to show.       *)
Works == [at : {"select", "send", "backoff", "returned"},
          item : Batches, attempt : Nat]
Counts == [offered : Nat, batches : Nat, dropped : Nat]

(* A step that changes the work and the counters of one relay only.         *)
LEMMA WorkerAccounts ==
    ASSUME RelayType, EveryBatchAccounted, NEW r \in Relays,
           NEW w \in Works, NEW d \in Counts, queue' = queue,
           work' = [work EXCEPT ![r] = w], count' = [count EXCEPT ![r] = d],
           w.at # "returned" =>
              d.offered = d.batches + d.dropped + Len(queue[r])
                             + IF w.at \in {"send", "backoff"} THEN 1 ELSE 0
    PROVE  RelayType' /\ EveryBatchAccounted' /\ Relays' = Relays
<1>1. Relays' = Relays
  BY ZenonT(30) DEF Relays
<1>2. /\ work' \in [Relays -> Works] /\ work'[r] = w
      /\ \A s \in Relays \ {r} : work'[s] = work[s]
  BY ZenonT(30) DEF RelayType, Works
<1>3. /\ count' \in [Relays -> Counts] /\ count'[r] = d
      /\ \A s \in Relays \ {r} : count'[s] = count[s]
  BY ZenonT(30) DEF RelayType, Counts
<1>4. RelayType'
  BY <1>1, <1>2, <1>3, ZenonT(30) DEF RelayType, Works, Counts
<1>5. EveryBatchAccounted'
  <2> SUFFICES ASSUME NEW s \in Relays, work'[s].at # "returned"
               PROVE  (count[s].offered = count[s].batches + count[s].dropped
                              + Len(queue[s]) + InFlight(s))'
    BY <1>1, ZenonT(30) DEF EveryBatchAccounted
  <2>1. CASE s = r
    <3>1. InFlight(s)' = IF w.at \in {"send", "backoff"} THEN 1 ELSE 0
      BY <2>1, <1>1, <1>2, ZenonT(30) DEF InFlight
    <3>2. d.offered = d.batches + d.dropped + Len(queue[r])
                             + IF w.at \in {"send", "backoff"} THEN 1 ELSE 0
      BY <2>1, <1>2, ZenonT(30)
    <3> QED BY <3>1, <3>2, <2>1, <1>3, ZenonT(30)
  <2>2. CASE s # r
    <3>1. InFlight(s)' = InFlight(s)
      BY <2>2, <1>1, <1>2, ZenonT(30) DEF InFlight
    <3>2. count[s].offered = count[s].batches + count[s].dropped
                              + Len(queue[s]) + InFlight(s)
      BY <2>2, <1>2, ZenonT(30) DEF EveryBatchAccounted
    <3> QED BY <3>1, <3>2, <2>2, <1>3, ZenonT(30)
  <2> QED BY <2>1, <2>2, ZenonT(30)
<1> QED BY <1>1, <1>4, <1>5, ZenonT(30)

(* Where a relay stands before its worker's step.                           *)
LEMMA RelayFacts ==
    ASSUME RelayType, EveryBatchAccounted, NEW r \in Relays
    PROVE  /\ work[r] \in Works /\ count[r] \in Counts /\ Len(queue[r]) \in Nat
           /\ count = [count EXCEPT ![r] = count[r]]
           /\ work[r].at # "returned" =>
                count[r].offered = count[r].batches + count[r].dropped + Len(queue[r])
                    + IF work[r].at \in {"send", "backoff"} THEN 1 ELSE 0
<1>1. queue[r] \in Seq(Batches)
  BY ZenonT(30) DEF RelayType
<1> QED BY <1>1 DEF RelayType, EveryBatchAccounted, InFlight, Works, Counts

(* A worker without a batch, and the batch that is not looked into.         *)
LEMMA WaitingType == Waiting \in Works /\ Raw \in Batches
  BY ZenonT(30) DEF Waiting, Raw, Works, Batches

(* Sent: the batch is delivered, counted as dropped, or kept for a retry.   *)
LEMMA SentAccounts ==
    ASSUME RelayType, EveryBatchAccounted, NEW r \in Relays, NEW result,
           Sent(r, result)
    PROVE  /\ RelayType' /\ EveryBatchAccounted' /\ Relays' = Relays
           /\ queue' = queue /\ InFlight(r) = 1
           /\ \A s \in Relays \ {r} : count'[s] = count[s] /\ work'[s] = work[s]
           /\ count'[r].dropped >= count[r].dropped
           /\ \/ count'[r].dropped > 0
              \/ result = "ok" /\ InFlight(r)' = 0
              \/ result # "ok" /\ InFlight(r)' = 1 /\ work'[r].item = work[r].item
<1> DEFINE last == work[r].attempt + 1 >= MaxRetries
           drop == result = "permanent" \/ (result = "transient" /\ last)
           w == IF result = "ok" \/ drop THEN Waiting
                ELSE [work[r] EXCEPT !.at = "backoff"]
           d == IF result = "ok"
                THEN [count[r] EXCEPT !.batches = count[r].batches + 1]
                ELSE IF drop THEN [count[r] EXCEPT !.dropped = count[r].dropped + 1]
                ELSE count[r]
<1>1. /\ work[r].at = "send" /\ queue' = queue
      /\ work' = [work EXCEPT ![r] = w]
  BY ZenonT(30) DEF Sent
<1>2. count' = [count EXCEPT ![r] = d]
  <2>1. count' = IF result = "ok" THEN [count EXCEPT ![r].batches = @ + 1]
                 ELSE IF drop THEN [count EXCEPT ![r].dropped = @ + 1]
                 ELSE count
    BY ZenonT(30) DEF Sent
  <2> HIDE DEF drop
  <2> QED BY <2>1, RelayFacts, ZenonT(30)
<1>3. /\ work[r] \in Works /\ count[r] \in Counts /\ Len(queue[r]) \in Nat
      /\ count[r].offered = count[r].batches + count[r].dropped + Len(queue[r]) + 1
  BY <1>1, RelayFacts, ZenonT(30)
<1>4. /\ w \in Works /\ w.at # "returned"
      /\ result = "ok" \/ drop => w.at = "select"
      /\ ~(result = "ok" \/ drop) => w.at = "backoff" /\ w.item = work[r].item
  <2> HIDE DEF drop
  <2>1. CASE result = "ok" \/ drop
    BY <2>1, WaitingType, ZenonT(30) DEF Waiting
  <2>2. CASE ~(result = "ok" \/ drop)
    BY <2>2, <1>3, ZenonT(30) DEF Works
  <2> QED BY <2>1, <2>2, ZenonT(30)
<1>5. /\ d \in Counts /\ d.offered = count[r].offered
      /\ result = "ok" => d.batches = count[r].batches + 1 /\ d.dropped = count[r].dropped
      /\ result # "ok" /\ drop =>
            d.batches = count[r].batches /\ d.dropped = count[r].dropped + 1
      /\ ~(result = "ok" \/ drop) => d = count[r]
  <2> HIDE DEF drop
  <2> QED BY <1>3, SMTT(30) DEF Counts
<1> HIDE DEF w, d, drop
<1>6. d.offered = d.batches + d.dropped + Len(queue[r])
                     + IF w.at \in {"send", "backoff"} THEN 1 ELSE 0
  <2> DEFINE o == count[r].offered  m == count[r].batches  n == count[r].dropped
             k == Len(queue[r])  o1 == d.offered  m1 == d.batches  n1 == d.dropped
             f1 == IF w.at \in {"send", "backoff"} THEN 1 ELSE 0
  <2>1. /\ o = m + n + k + 1 /\ o1 = o
        /\ m \in Nat /\ n \in Nat /\ k \in Nat
    BY <1>3, <1>5, ZenonT(30) DEF Counts
  <2>2. \/ m1 = m + 1 /\ n1 = n /\ f1 = 0
        \/ m1 = m /\ n1 = n + 1 /\ f1 = 0
        \/ m1 = m /\ n1 = n /\ f1 = 1
    BY <1>4, <1>5, ZenonT(30)
  <2>3. o1 = m1 + n1 + k + f1
    <3> HIDE DEF o, m, n, k, o1, m1, n1, f1
    <3> QED BY <2>1, <2>2
  <2> QED BY <2>3, ZenonT(30)
<1>7. RelayType' /\ EveryBatchAccounted' /\ Relays' = Relays
  BY <1>1, <1>2, <1>4, <1>5, <1>6, WorkerAccounts, ZenonT(30)
<1>8. /\ work'[r] = w /\ count'[r] = d
      /\ \A s \in Relays \ {r} : count'[s] = count[s] /\ work'[s] = work[s]
  BY <1>1, <1>2, ZenonT(30) DEF RelayType
<1>9. /\ count[r].dropped \in Nat /\ d.dropped \in Nat
      /\ d.dropped >= count[r].dropped
      /\ result # "ok" /\ drop => d.dropped > 0
  BY <1>3, <1>5 DEF Counts
<1>10. /\ InFlight(r) = 1
       /\ InFlight(r)' = IF w.at \in {"send", "backoff"} THEN 1 ELSE 0
  BY <1>1, <1>7, <1>8, ZenonT(30) DEF InFlight
<1> QED BY <1>1, <1>4, <1>7, <1>8, <1>9, <1>10, ZenonT(30)

(* Retry: the batch stays with the worker.                                  *)
LEMMA RetryAccounts ==
    ASSUME RelayType, EveryBatchAccounted, NEW r \in Relays, Retry(r)
    PROVE  /\ RelayType' /\ EveryBatchAccounted' /\ Relays' = Relays
           /\ InFlight(r) = 1 /\ InFlight(r)' = 1 /\ work'[r].item = work[r].item
           /\ \A s \in Relays \ {r} : work'[s] = work[s]
<1> DEFINE w == [at |-> "send", item |-> work[r].item, attempt |-> work[r].attempt + 1]
           b1 == [at |-> "send", item |-> work[r].item, attempt |-> work[r].attempt]
           c1 == [work EXCEPT ![r] = b1]
<1>1. /\ work[r].at = "backoff" /\ queue' = queue /\ count' = count
      /\ work' = [[work EXCEPT ![r].at = "send"] EXCEPT ![r].attempt = @ + 1]
  BY ZenonT(30) DEF Retry
<1>2. /\ work[r] \in Works /\ count[r] \in Counts /\ Len(queue[r]) \in Nat
      /\ count[r].offered = count[r].batches + count[r].dropped + Len(queue[r]) + 1
      /\ count = [count EXCEPT ![r] = count[r]]
  BY <1>1, RelayFacts, ZenonT(30)
<1>3. work' = [work EXCEPT ![r] = w]
  <2>0. [work[r] EXCEPT !.at = "send"] = b1
    BY <1>2 DEF Works
  <2>1. [b1 EXCEPT !.attempt = @ + 1] = w
    OBVIOUS
  <2>2. c1[r] = b1
    <3> HIDE DEF b1
    <3> QED BY ZenonT(30) DEF RelayType
  <2>3. [c1 EXCEPT ![r].attempt = @ + 1] = [c1 EXCEPT ![r] = w]
    <3> HIDE DEF b1, c1, w
    <3> QED BY <2>1, <2>2, ZenonT(30)
  <2>4. [c1 EXCEPT ![r] = w] = [work EXCEPT ![r] = w]
    <3> HIDE DEF b1, w
    <3> QED BY ZenonT(30)
  <2>5. work' = [c1 EXCEPT ![r].attempt = @ + 1]
    <3>1. [work EXCEPT ![r].at = "send"] = c1
      <4> HIDE DEF b1
      <4> QED BY <2>0, ZenonT(30)
    <3> HIDE DEF c1
    <3> QED BY <3>1, <1>1, ZenonT(30)
  <2> HIDE DEF c1, w
  <2> QED BY <2>3, <2>4, <2>5, ZenonT(30)
<1>4. w \in Works /\ w.at = "send" /\ w.item = work[r].item
  BY <1>2 DEF Works
<1> HIDE DEF w
<1>5. RelayType' /\ EveryBatchAccounted' /\ Relays' = Relays
  <2> DEFINE d == count[r]
  <2>1. d \in Counts /\ count' = [count EXCEPT ![r] = d]
    BY <1>1, <1>2, ZenonT(30)
  <2>2. d.offered = d.batches + d.dropped + Len(queue[r])
                     + IF w.at \in {"send", "backoff"} THEN 1 ELSE 0
    BY <1>2, <1>4, ZenonT(30)
  <2> HIDE DEF d
  <2> QED BY <2>1, <2>2, <1>1, <1>3, <1>4, WorkerAccounts, ZenonT(30)
<1>6. work'[r] = w /\ \A s \in Relays \ {r} : work'[s] = work[s]
  BY <1>3, ZenonT(30) DEF RelayType
<1> QED BY <1>1, <1>4, <1>5, <1>6, ZenonT(30) DEF InFlight

(* Return: the accounts of a worker that is gone are closed.                *)
LEMMA ReturnAccounts ==
    ASSUME RelayType, EveryBatchAccounted, NEW r \in Relays, Return(r)
    PROVE  /\ RelayType' /\ EveryBatchAccounted' /\ Relays' = Relays
           /\ work'[r].at = "returned"
           /\ \A s \in Relays \ {r} : work'[s] = work[s]
<1> DEFINE w == [Waiting EXCEPT !.at = "returned"]
           d == count[r]
<1>1. /\ queue' = queue /\ count' = count /\ work' = [work EXCEPT ![r] = w]
  BY ZenonT(30) DEF Return
<1>2. w \in Works /\ w.at = "returned"
  BY WaitingType, ZenonT(30) DEF Waiting, Works
<1>3. d \in Counts /\ count' = [count EXCEPT ![r] = d]
  BY <1>1, RelayFacts, ZenonT(30)
<1> HIDE DEF w, d
<1>4. RelayType' /\ EveryBatchAccounted' /\ Relays' = Relays
  BY <1>1, <1>2, <1>3, WorkerAccounts, ZenonT(30)
<1> QED BY <1>1, <1>2, <1>4, ZenonT(30) DEF RelayType

(* A step that is none of the relays'.                                      *)
LEMMA RelayFrame ==
    RelayType /\ EveryBatchAccounted /\ UNCHANGED <<queue, work, count>>
        => RelayType' /\ EveryBatchAccounted' /\ Relays' = Relays
  BY ZenonT(30) DEF RelayType, EveryBatchAccounted, Relays, InFlight

-----------------------------------------------------------------------------
(* The label sets of a datapoint, over a schema that has its keys.          *)
LEMMA CoercedType ==
    ASSUME NEW K \in SUBSET Keys, NEW J \in SUBSET Keys,
           NEW l \in [J -> LabelValues]
    PROVE  coerceToSchema(K, l) \in [K -> LabelValues]
  BY ZenonT(30) DEF coerceToSchema, LabelValues

(* TranslateMetrics: the events of a metric are of its type.                *)
LEMMA EventFacts ==
    ASSUME NEW ev \in EventsOf(metric)
    PROVE  /\ ev.attrs \in Attributes /\ ev.value \in Int /\ ev.value \in Amounts
           /\ ev.bounds \in {0} \union Layouts
           /\ metric.data # "histogram" => ev.bounds = 0
           /\ ev.type = metric.data /\ ev.temporality = metric.temporality
           /\ ev.monotonic = metric.monotonic
<1>1. PICK a \in Attributes, n \in Amounts, l \in Layouts :
          ev = Translate(metric, a, n, l)
  BY DEF EventsOf
<1> QED BY <1>1, ForwarderAssumption, ZenonT(30) DEF Translate

(* allowedLabels leaves labels of some of the keys.                         *)
LEMMA AllowedType ==
    ASSUME NEW a \in Attributes
    PROVE  /\ DOMAIN allowedLabels(a) \subseteq Keys
           /\ allowedLabels(a) \in [DOMAIN allowedLabels(a) -> Values]
           /\ allowedLabels(a) \in Attributes
<1>1. PICK K \in SUBSET Keys : a \in [K -> Values]
  BY ZenonT(30) DEF Attributes
<1>2. DOMAIN allowedLabels(a) = K \intersect Forwardable
  BY <1>1, ZenonT(30) DEF allowedLabels, Restrict
<1>3. allowedLabels(a) \in [K \intersect Forwardable -> Values]
  BY <1>1, ZenonT(30) DEF allowedLabels, Restrict
<1> QED BY <1>1, <1>2, <1>3, ZenonT(30) DEF Attributes

(* Empty labels do not count.                                               *)
LEMMA CanonFacts ==
    ASSUME NEW l
    PROVE  Canon(l) = [k \in {x \in DOMAIN l : l[x] # Empty} |-> l[k]]
  BY ZenonT(30) DEF Canon, RestrictValues, Restrict

(* A wider schema does not change a label set.                              *)
LEMMA CanonCoerced ==
    ASSUME NEW K, NEW l, DOMAIN l \subseteq K
    PROVE  Canon(coerceToSchema(K, l)) = Canon(l)
<1> DEFINE c == coerceToSchema(K, l)
<1>1. /\ DOMAIN c = K
      /\ \A k \in K : c[k] = IF k \in DOMAIN l THEN l[k] ELSE Empty
  BY ZenonT(30) DEF coerceToSchema
<1>2. {x \in DOMAIN c : c[x] # Empty} = {x \in DOMAIN l : l[x] # Empty}
  BY <1>1, ZenonT(30)
<1>3. \A k \in {x \in DOMAIN l : l[x] # Empty} : c[k] = l[k]
  BY <1>1, ZenonT(30)
<1> HIDE DEF c
<1>4. Canon(c) = [k \in {x \in DOMAIN c : c[x] # Empty} |-> c[k]]
  BY CanonFacts, ZenonT(30)
<1>5. Canon(l) = [k \in {x \in DOMAIN l : l[x] # Empty} |-> l[k]]
  BY CanonFacts, ZenonT(30)
<1>6. Canon(c) = Canon(l)
  BY <1>2, <1>3, <1>4, <1>5, ZenonT(30)
<1> QED BY <1>6, ZenonT(30) DEF c

(* Over one schema, different labels are different label sets.              *)
LEMMA CanonInjective ==
    ASSUME NEW K, NEW l \in [K -> LabelValues], NEW m \in [K -> LabelValues],
           Canon(l) = Canon(m)
    PROVE  l = m
<1>1. ASSUME NEW k \in K PROVE l[k] = m[k]
  <2>1. k \in DOMAIN Canon(l) <=> l[k] # Empty
    BY CanonFacts, ZenonT(30)
  <2>2. k \in DOMAIN Canon(m) <=> m[k] # Empty
    BY CanonFacts, ZenonT(30)
  <2>3. l[k] # Empty => Canon(l)[k] = l[k]
    BY CanonFacts, ZenonT(30)
  <2>4. m[k] # Empty => Canon(m)[k] = m[k]
    BY CanonFacts, ZenonT(30)
  <2> QED BY <2>1, <2>2, <2>3, <2>4, ZenonT(30)
<1> QED BY <1>1

(* rekeySeries moves every series and keeps what it holds.                  *)
LEMMA RekeyFacts ==
    ASSUME FwdType, NEW K, schema \subseteq K, K \subseteq Keys
    PROVE  /\ DOMAIN rekeySeries(K) = {coerceToSchema(K, l) : l \in DOMAIN series}
           /\ \A l \in DOMAIN series :
                 rekeySeries(K)[coerceToSchema(K, l)] = series[l]
<1> DEFINE at == [l \in DOMAIN series |-> coerceToSchema(K, l)]
<1>1. \A l \in DOMAIN series : at[l] = coerceToSchema(K, l)
  OBVIOUS
<1>2. Range(at) = {coerceToSchema(K, l) : l \in DOMAIN series}
  BY ZenonT(30) DEF Range
<1>3. rekeySeries(K) =
          [l \in Range(at) |-> series[CHOOSE m \in DOMAIN series : at[m] = l]]
  BY ZenonT(30) DEF rekeySeries
<1>4. ASSUME NEW l \in DOMAIN series
      PROVE  rekeySeries(K)[coerceToSchema(K, l)] = series[l]
  <2> DEFINE c == coerceToSchema(K, l)
             m == CHOOSE m \in DOMAIN series : at[m] = c
  <2>1. m \in DOMAIN series /\ at[m] = c
    BY <1>1, ZenonT(30)
  <2>2. coerceToSchema(K, m) = coerceToSchema(K, l)
    BY <2>1, <1>1, ZenonT(30)
  <2>3. /\ l \in [schema -> LabelValues] /\ m \in [schema -> LabelValues]
    BY <2>1, ZenonT(30) DEF FwdType, SeriesType
  <2>4. Canon(m) = Canon(l)
    <3> HIDE DEF m
    <3>1. DOMAIN m \subseteq K /\ DOMAIN l \subseteq K
      BY <2>3, ZenonT(30)
    <3>2. Canon(coerceToSchema(K, m)) = Canon(m)
      BY <3>1, CanonCoerced, ZenonT(30)
    <3>3. Canon(coerceToSchema(K, l)) = Canon(l)
      BY <3>1, CanonCoerced, ZenonT(30)
    <3> QED BY <3>2, <3>3, <2>2, ZenonT(30)
  <2>5. m = l
    <3> HIDE DEF m
    <3> QED BY <2>3, <2>4, CanonInjective, ZenonT(30)
  <2>6. c \in Range(at)
    BY <1>2, ZenonT(30)
  <2>7. rekeySeries(K)[c] = series[m]
    BY <1>3, <2>6, ZenonT(30)
  <2> QED BY <2>5, <2>7, ZenonT(30)
<1>5. DOMAIN rekeySeries(K) = Range(at)
  BY <1>3, ZenonT(30)
<1> QED BY <1>2, <1>4, <1>5, ZenonT(30)

(* Record: the series of the wider schema K, the datapoint's among them.    *)
Recorded(ev, K, l) ==
    /\ schema \subseteq K /\ schema' = K /\ metric' = metric
    /\ Canon(l) = Canon(allowedLabels(ev.attrs))
    /\ DOMAIN series' = {coerceToSchema(K, m) : m \in DOMAIN series} \union {l}
    /\ series' = [x \in DOMAIN series' |-> series'[x]]
    /\ \A m \in DOMAIN series : coerceToSchema(K, m) # l =>
          series'[coerceToSchema(K, m)] = series[m]
    /\ \A m \in DOMAIN series : coerceToSchema(K, m) = l =>
          series'[l] = Fold(series[m], ev)
    /\ (\A m \in DOMAIN series : coerceToSchema(K, m) # l) =>
          series'[l] = Fold([bounds |-> ev.bounds, value |-> 0, age |-> 0], ev)

(* Record does what Recorded says.                                          *)
LEMMA RecordFacts ==
    ASSUME FwdType, NEW ev \in EventsOf(metric), Record(ev)
    PROVE  \E K \in SUBSET Keys : \E l \in [K -> LabelValues] : Recorded(ev, K, l)
<1> DEFINE labels == allowedLabels(ev.attrs)
           K == schema \union DOMAIN labels
           moved == IF K = schema THEN series ELSE rekeySeries(K)
           l == coerceToSchema(K, labels)
           new == [bounds |-> ev.bounds, value |-> 0, age |-> 0]
           st == IF l \in DOMAIN moved THEN moved[l] ELSE new
<1>1. /\ schema' = K /\ metric' = metric
      /\ series' = [x \in DOMAIN moved \union {l} |->
                        IF x = l THEN Fold(st, ev) ELSE moved[x]]
  BY ZenonT(30) DEF Record
<1>2. DOMAIN labels \subseteq Keys /\ labels \in [DOMAIN labels -> Values]
  BY EventFacts, AllowedType, ZenonT(30)
<1>3. K \in SUBSET Keys /\ schema \subseteq K /\ DOMAIN labels \subseteq K
  BY <1>2, ZenonT(30) DEF FwdType, SeriesType
<1>4. l \in [K -> LabelValues]
  <2> HIDE DEF labels, K
  <2> QED BY <1>2, <1>3, ZenonT(30) DEF coerceToSchema, LabelValues
<1>5. Canon(l) = Canon(labels)
  <2> HIDE DEF labels, K
  <2> QED BY <1>3, CanonCoerced, ZenonT(30)
<1>6. /\ DOMAIN moved = {coerceToSchema(K, m) : m \in DOMAIN series}
      /\ \A m \in DOMAIN series : moved[coerceToSchema(K, m)] = series[m]
  <2> HIDE DEF K
  <2>1. CASE K = schema
    <3>1. ASSUME NEW m \in DOMAIN series PROVE coerceToSchema(K, m) = m
      <4>1. m \in [K -> LabelValues]
        BY <2>1, ZenonT(30) DEF FwdType, SeriesType
      <4> QED BY <4>1, ZenonT(30) DEF coerceToSchema
    <3>2. {coerceToSchema(K, m) : m \in DOMAIN series} = DOMAIN series
      BY <3>1, ZenonT(30)
    <3>3. moved = series
      BY <2>1, ZenonT(30)
    <3> QED BY <3>1, <3>2, <3>3, ZenonT(30)
  <2>2. CASE K # schema
    BY <2>2, <1>3, RekeyFacts, ZenonT(30)
  <2> QED BY <2>1, <2>2, ZenonT(30)
<1> HIDE DEF labels, K, moved, l
<1>7. /\ DOMAIN series' = {coerceToSchema(K, m) : m \in DOMAIN series} \union {l}
      /\ series' = [x \in DOMAIN series' |-> series'[x]]
      /\ series'[l] = Fold(st, ev)
      /\ \A x \in DOMAIN moved : x # l => series'[x] = moved[x]
  <2> HIDE DEF st
  <2>1. DOMAIN series' = DOMAIN moved \union {l}
    BY <1>1, ZenonT(30)
  <2> QED BY <1>1, <1>6, <2>1, ZenonT(30)
<1>8. \A m \in DOMAIN series : coerceToSchema(K, m) # l =>
          series'[coerceToSchema(K, m)] = series[m]
  BY <1>6, <1>7, ZenonT(30)
<1>9. \A m \in DOMAIN series : coerceToSchema(K, m) = l =>
          series'[l] = Fold(series[m], ev)
  BY <1>6, <1>7, ZenonT(30)
<1>10. (\A m \in DOMAIN series : coerceToSchema(K, m) # l) =>
          series'[l] = Fold(new, ev)
  BY <1>6, <1>7, ZenonT(30)
<1>11. Canon(l) = Canon(allowedLabels(ev.attrs))
  BY <1>5, ZenonT(30) DEF labels
<1>12. Recorded(ev, K, l)
  BY <1>1, <1>3, <1>7, <1>8, <1>9, <1>10, <1>11, ZenonT(30) DEF Recorded
<1> QED BY <1>3, <1>4, <1>12, ZenonT(30)

(* Fold makes a series of the metric from one.                              *)
LEMMA FoldType ==
    ASSUME NEW ev \in EventsOf(metric), NEW st \in States
    PROVE  Fold(st, ev) \in States
<1>1. /\ ev.value \in Int /\ ev.bounds \in {0} \union Layouts
      /\ metric.data # "histogram" => ev.bounds = 0
  BY EventFacts, ZenonT(30)
<1>2. st.value \in Int
  BY ZenonT(30) DEF States
<1>3. Fold(st, ev).value \in Int /\ Fold(st, ev).bounds = ev.bounds
      /\ Fold(st, ev).age = 0
  BY <1>1, <1>2 DEF Fold
<1>4. Fold(st, ev) = [bounds |-> Fold(st, ev).bounds, age |-> Fold(st, ev).age,
                      value |-> Fold(st, ev).value]
  BY ZenonT(30) DEF Fold
<1>5. Fold(st, ev) \in [bounds : {0} \union Layouts, value : Int, age : Nat]
  BY <1>1, <1>3, <1>4
<1> QED BY <1>1, <1>3, <1>5, ZenonT(30) DEF States

(* Record keeps the types of the forwarder.                                 *)
LEMMA RecordType ==
    ASSUME FwdType, NEW ev \in EventsOf(metric), Record(ev)
    PROVE  SeriesType'
<1>1. PICK K \in SUBSET Keys : \E l \in [K -> LabelValues] : Recorded(ev, K, l)
  BY RecordFacts, ZenonT(30)
<1>2. PICK l \in [K -> LabelValues] : Recorded(ev, K, l)
  BY <1>1, ZenonT(30)
<1>3. schema' = K /\ metric' = metric /\ States' = States
  BY <1>2, ZenonT(30) DEF Recorded, States
<1>4. ASSUME NEW m \in DOMAIN series
      PROVE  coerceToSchema(K, m) \in [K -> LabelValues] /\ series[m] \in States
  BY ZenonT(30) DEF FwdType, SeriesType, coerceToSchema, LabelValues
<1>5. DOMAIN series' \subseteq [K -> LabelValues]
  BY <1>2, <1>4, ZenonT(30) DEF Recorded
<1>6. ASSUME NEW x \in DOMAIN series' PROVE series'[x] \in States
  <2>1. CASE x = l
    <3>1. CASE \E m \in DOMAIN series : coerceToSchema(K, m) = l
      <4>1. PICK m \in DOMAIN series : coerceToSchema(K, m) = l
        BY <3>1, ZenonT(30)
      <4>2. series'[l] = Fold(series[m], ev)
        BY <4>1, <1>2, ZenonT(30) DEF Recorded
      <4> QED BY <4>2, <2>1, <1>4, FoldType, ZenonT(30)
    <3>2. CASE \A m \in DOMAIN series : coerceToSchema(K, m) # l
      <4> DEFINE new == [bounds |-> ev.bounds, value |-> 0, age |-> 0]
      <4>1. series'[l] = Fold(new, ev)
        BY <3>2, <1>2, ZenonT(30) DEF Recorded
      <4>2. new \in States
        BY EventFacts DEF States
      <4> HIDE DEF new
      <4> QED BY <4>1, <4>2, <2>1, FoldType, ZenonT(30)
    <3> QED BY <3>1, <3>2, ZenonT(30)
  <2>2. CASE x # l
    <3>1. PICK m \in DOMAIN series : x = coerceToSchema(K, m)
      BY <2>2, <1>2, ZenonT(30) DEF Recorded
    <3>2. series'[x] = series[m]
      BY <2>2, <3>1, <1>2, ZenonT(30) DEF Recorded
    <3> QED BY <3>2, <1>4, ZenonT(30)
  <2> QED BY <2>1, <2>2, ZenonT(30)
<1>7. series' \in [DOMAIN series' -> States]
  BY <1>2, <1>6, ZenonT(30) DEF Recorded
<1> QED BY <1>3, <1>5, <1>7, ZenonT(30) DEF SeriesType

(* So does Collect.                                                         *)
LEMMA CollectType ==
    ASSUME SeriesType, Collect
    PROVE  SeriesType' /\ metric' = metric /\ Kept \subseteq LabelSets
<1>1. /\ series' = [l \in Kept |-> series[l]] /\ schema' = schema /\ metric' = metric
      /\ Kept \subseteq DOMAIN series
  BY ZenonT(30) DEF Collect, Restrict, Kept
<1>2. States' = States
  BY <1>1, ZenonT(30) DEF States
<1>3. Kept \subseteq LabelSets
  BY <1>1, ZenonT(30) DEF SeriesType, LabelSets
<1> HIDE DEF Kept
<1> QED BY <1>1, <1>2, <1>3, ZenonT(30) DEF SeriesType

(* So does time, which changes no total.                                    *)
LEMMA AgeType ==
    ASSUME SeriesType, Age
    PROVE  /\ SeriesType' /\ metric' = metric
           /\ DOMAIN series' = DOMAIN series
           /\ \A l \in DOMAIN series : /\ series'[l].bounds = series[l].bounds
                                        /\ series'[l].value = series[l].value
<1>1. /\ series' = [l \in DOMAIN series |->
                       [series[l] EXCEPT !.age = IF @ <= StaleAfter THEN @ + 1 ELSE @]]
      /\ schema' = schema /\ metric' = metric
  BY ZenonT(30) DEF Age
<1>2. States' = States
  BY <1>1, ZenonT(30) DEF States
<1>3. ASSUME NEW l \in DOMAIN series
      PROVE  /\ series'[l] \in States
             /\ series'[l].bounds = series[l].bounds
             /\ series'[l].value = series[l].value
  <2>1. series[l] \in States
    BY ZenonT(30) DEF SeriesType
  <2>2. series'[l] = [series[l] EXCEPT !.age = IF @ <= StaleAfter THEN @ + 1 ELSE @]
    BY <1>1, ZenonT(30)
  <2> DEFINE st == series[l]
  <2>3. st \in States /\ series'[l] = [st EXCEPT !.age = IF @ <= StaleAfter THEN @ + 1 ELSE @]
    BY <2>1, <2>2, ZenonT(30)
  <2> HIDE DEF st
  <2>4. /\ series'[l] \in States
        /\ series'[l].bounds = st.bounds
        /\ series'[l].value = st.value
    BY <2>3, ForwarderAssumption DEF States
  <2> QED BY <2>4, ZenonT(30) DEF st
<1>4. DOMAIN series' = DOMAIN series /\ series' = [l \in DOMAIN series' |-> series'[l]]
  BY <1>1, ZenonT(30)
<1>5. series' \in [DOMAIN series' -> States]
  BY <1>3, <1>4, ZenonT(30)
<1> QED BY <1>1, <1>2, <1>3, <1>4, <1>5, ZenonT(30) DEF SeriesType

-----------------------------------------------------------------------------
(* View of a function of series, to speak of it in two states.              *)
ViewOf(s) ==
    LET at(id) == CHOOSE l \in DOMAIN s : Canon(l) = id
    IN [id \in {Canon(l) : l \in DOMAIN s} |->
           [bounds |-> s[at(id)].bounds, value |-> s[at(id)].value]]

(* Series over the keys of a schema.                                        *)
Over(K, s) == DOMAIN s \subseteq [K -> LabelValues]

(* A view shows the series by their label sets, each as it is.              *)
Shows(v, s) ==
    /\ DOMAIN v = {Canon(l) : l \in DOMAIN s}
    /\ v = [x \in DOMAIN v |-> v[x]]
    /\ \A l \in DOMAIN s :
          v[Canon(l)] = [bounds |-> s[l].bounds, value |-> s[l].value]

(* View, in this state and in the next.                                     *)
LEMMA ViewIsViewOf == View = ViewOf(series) /\ View' = ViewOf(series')
  BY ZenonT(30) DEF View, ViewOf

(* Over one schema a label set is that of one series, and View shows it.    *)
LEMMA ViewOfFacts ==
    ASSUME NEW K, NEW s, Over(K, s)
    PROVE  Shows(ViewOf(s), s)
<1> DEFINE at(id) == CHOOSE l \in DOMAIN s : Canon(l) = id
<1>1. ViewOf(s) = [id \in {Canon(l) : l \in DOMAIN s} |->
           [bounds |-> s[at(id)].bounds, value |-> s[at(id)].value]]
  BY ZenonT(30) DEF ViewOf
<1>2. ASSUME NEW l \in DOMAIN s
      PROVE  ViewOf(s)[Canon(l)] = [bounds |-> s[l].bounds, value |-> s[l].value]
  <2>1. at(Canon(l)) \in DOMAIN s /\ Canon(at(Canon(l))) = Canon(l)
    OBVIOUS
  <2> HIDE DEF at
  <2>2. at(Canon(l)) = l
    BY <2>1, CanonInjective, ZenonT(30) DEF Over
  <2>3. ViewOf(s)[Canon(l)] = [bounds |-> s[at(Canon(l))].bounds,
                               value |-> s[at(Canon(l))].value]
    BY <1>1, ZenonT(30)
  <2> QED BY <2>2, <2>3, ZenonT(30)
<1> HIDE DEF at
<1>3. /\ DOMAIN ViewOf(s) = {Canon(l) : l \in DOMAIN s}
      /\ ViewOf(s) = [id \in DOMAIN ViewOf(s) |-> ViewOf(s)[id]]
  BY <1>1, ZenonT(30)
<1> QED BY <1>2, <1>3, ZenonT(30) DEF Shows

(* Collect is Forget: the series it leaves show what they showed.           *)
LEMMA CollectForgets ==
    ASSUME SeriesType, Collect
    PROVE  Totals!Forget
<1> DEFINE v == ViewOf(series)
           s == series'
           w == ViewOf(s)
           S == {Canon(l) : l \in Kept}
<1>1. /\ s = [l \in Kept |-> series[l]]
      /\ Kept \subseteq DOMAIN series
      /\ Over(schema, series)
  BY ZenonT(30) DEF Collect, Restrict, Kept, SeriesType, Over
<1> HIDE DEF Kept, s
<1>2. DOMAIN s = Kept /\ (\A l \in Kept : s[l] = series[l]) /\ Over(schema, s)
  BY <1>1, ZenonT(30) DEF Over
<1>3. Shows(v, series) /\ Shows(w, s)
  BY <1>1, <1>2, ViewOfFacts, ZenonT(30)
<1> HIDE DEF v, w
<1>4. S \subseteq DOMAIN v /\ DOMAIN w = S
  BY <1>1, <1>2, <1>3, ZenonT(30) DEF Shows
<1>5. ASSUME NEW x \in S PROVE w[x] = v[x]
  <2>1. PICK l \in Kept : x = Canon(l)
    OBVIOUS
  <2>2. v[x] = [bounds |-> series[l].bounds, value |-> series[l].value]
    BY <2>1, <1>1, <1>3, ZenonT(30) DEF Shows
  <2>3. w[x] = [bounds |-> s[l].bounds, value |-> s[l].value]
    BY <2>1, <1>2, <1>3, ZenonT(30) DEF Shows
  <2> QED BY <2>2, <2>3, <1>2, ZenonT(30)
<1>6. w = [x \in S |-> v[x]]
  BY <1>3, <1>4, <1>5, ZenonT(30) DEF Shows
<1>7. View = v /\ View' = w
  BY ViewIsViewOf, ZenonT(30) DEF v, w, s
<1>8. \E T \in SUBSET DOMAIN v : w = [x \in T |-> v[x]]
  BY <1>4, <1>6, ZenonT(30)
<1> QED BY <1>7, <1>8, ZenonT(30) DEF Totals!Forget, Totals!Restrict

(* Time does not show.                                                      *)
LEMMA AgeStutters ==
    ASSUME SeriesType, Age
    PROVE  View' = View
<1> DEFINE v == ViewOf(series)
           s == series'
           w == ViewOf(s)
<1>1. /\ DOMAIN s = DOMAIN series
      /\ Over(schema, s) /\ Over(schema, series)
      /\ \A l \in DOMAIN series : /\ s[l].bounds = series[l].bounds
                                   /\ s[l].value = series[l].value
  BY AgeType, ZenonT(30) DEF SeriesType, Over
<1> HIDE DEF s
<1>2. Shows(v, series) /\ Shows(w, s)
  BY <1>1, ViewOfFacts, ZenonT(30)
<1> HIDE DEF v, w
<1>3. DOMAIN v = DOMAIN w
  BY <1>1, <1>2, ZenonT(30) DEF Shows
<1>4. ASSUME NEW x \in DOMAIN v PROVE v[x] = w[x]
  <2>1. PICK l \in DOMAIN series : x = Canon(l)
    BY <1>2, ZenonT(30) DEF Shows
  <2>2. v[x] = [bounds |-> series[l].bounds, value |-> series[l].value]
    BY <2>1, <1>2, ZenonT(30) DEF Shows
  <2>3. w[x] = [bounds |-> s[l].bounds, value |-> s[l].value]
    BY <2>1, <1>1, <1>2, ZenonT(30) DEF Shows
  <2> QED BY <2>2, <2>3, <1>1, ZenonT(30)
<1>5. v = w
  BY <1>2, <1>3, <1>4, ZenonT(30) DEF Shows
<1> QED BY <1>5, ViewIsViewOf, ZenonT(30) DEF v, w, s

(* A datapoint as SeriesTotals sees it, and what it makes of a series.      *)
AbstractEvent(ev) ==
    [bounds |-> ev.bounds, value |-> ev.value,
     delta |-> /\ ev.temporality = "delta"
               /\ \/ ev.type = "histogram"
                  \/ ev.type = "sum" /\ ev.monotonic]

(* It is one of the events of SeriesTotals.                                 *)
LEMMA AbstractEventType ==
    ASSUME NEW ev \in EventsOf(metric)
    PROVE  AbstractEvent(ev) \in AbstractEvents
  BY EventFacts, ZenonT(30) DEF AbstractEvent, AbstractEvents

(* Fold is Total: a sum has no bounds that could change.                    *)
LEMMA FoldIsTotal ==
    ASSUME NEW ev \in EventsOf(metric), NEW st \in States
    PROVE  LET f == Fold(st, ev)
           IN [bounds |-> f.bounds, value |-> f.value] =
              Totals!Total([bounds |-> st.bounds, value |-> st.value], AbstractEvent(ev))
<1> DEFINE e == AbstractEvent(ev)
           f == Fold(st, ev)
<1>1. /\ ev.value \in Int /\ ev.type = metric.data
      /\ metric.data # "histogram" => ev.bounds = 0 /\ st.bounds = 0
      /\ st.value \in Int
  BY EventFacts, ZenonT(30) DEF States
<1>2. f.bounds = ev.bounds /\ e.bounds = ev.bounds /\ e.value = ev.value
  BY ZenonT(30) DEF Fold, AbstractEvent
<1>3. f.value = ev.value + IF e.delta /\ st.bounds = ev.bounds THEN st.value ELSE 0
  <2>1. CASE /\ ev.temporality = "delta"
             /\ \/ ev.type = "histogram" /\ st.bounds = ev.bounds
                \/ ev.type = "sum" /\ ev.monotonic
    <3>1. f.value = st.value + ev.value
      BY <2>1, ZenonT(30) DEF Fold
    <3>2. e.delta /\ st.bounds = ev.bounds
      BY <2>1, <1>1, ZenonT(30) DEF AbstractEvent
    <3> QED BY <3>1, <3>2, <1>1
  <2>2. CASE ~(/\ ev.temporality = "delta"
               /\ \/ ev.type = "histogram" /\ st.bounds = ev.bounds
                  \/ ev.type = "sum" /\ ev.monotonic)
    <3>1. f.value = ev.value
      BY <2>2, ZenonT(30) DEF Fold
    <3>2. ~(e.delta /\ st.bounds = ev.bounds)
      BY <2>2, <1>1, ZenonT(30) DEF AbstractEvent
    <3> QED BY <3>1, <3>2, <1>1
  <2> QED BY <2>1, <2>2, ZenonT(30)
<1> HIDE DEF e, f
<1>4. [bounds |-> f.bounds, value |-> f.value] =
              Totals!Total([bounds |-> st.bounds, value |-> st.value], e)
  BY <1>2, <1>3, ZenonT(30) DEF Totals!Total
<1> QED BY <1>4, ZenonT(30) DEF e, f

(* Record is Record of SeriesTotals, for the label set of the datapoint.    *)
LEMMA RecordRefines ==
    ASSUME FwdType, NEW ev \in EventsOf(metric), Record(ev)
    PROVE  \E id \in {Canon(a) : a \in Attributes} :
              Totals!Record(id, AbstractEvent(ev))
<1>1. PICK K \in SUBSET Keys : \E l \in [K -> LabelValues] : Recorded(ev, K, l)
  BY RecordFacts, ZenonT(30)
<1>2. PICK l \in [K -> LabelValues] : Recorded(ev, K, l)
  BY <1>1, ZenonT(30)
<1> DEFINE id == Canon(l)
           e == AbstractEvent(ev)
           v == ViewOf(series)
           s == series'
           w == ViewOf(s)
           new == [bounds |-> ev.bounds, value |-> 0]
           old == IF id \in DOMAIN v THEN v[id] ELSE new
           t == Totals!Total(old, e)
           c(m) == coerceToSchema(K, m)
<1>3. id \in {Canon(a) : a \in Attributes}
  <2>1. allowedLabels(ev.attrs) \in Attributes
    BY EventFacts, AllowedType, ZenonT(30)
  <2> QED BY <2>1, <1>2, ZenonT(30) DEF Recorded
<1>4. ASSUME NEW m \in DOMAIN series
      PROVE  /\ c(m) \in [K -> LabelValues] /\ Canon(c(m)) = Canon(m)
             /\ series[m] \in States
             /\ c(m) = l <=> Canon(m) = id
  <2>1. m \in [schema -> LabelValues] /\ schema \subseteq K /\ series[m] \in States
    BY <1>2, ZenonT(30) DEF FwdType, SeriesType, Recorded
  <2>2. c(m) \in [K -> LabelValues]
    BY <2>1, ZenonT(30) DEF coerceToSchema, LabelValues
  <2>3. DOMAIN m \subseteq K
    BY <2>1, ZenonT(30)
  <2>4. Canon(c(m)) = Canon(m)
    BY <2>3, CanonCoerced, ZenonT(30)
  <2> HIDE DEF c
  <2>5. Canon(c(m)) = Canon(l) => c(m) = l
    BY <2>2, CanonInjective, ZenonT(30)
  <2> QED BY <2>1, <2>2, <2>4, <2>5, ZenonT(30)
<1>5. /\ DOMAIN s = {c(m) : m \in DOMAIN series} \union {l}
      /\ \A m \in DOMAIN series : c(m) # l => s[c(m)] = series[m]
      /\ \A m \in DOMAIN series : c(m) = l => s[l] = Fold(series[m], ev)
      /\ (\A m \in DOMAIN series : c(m) # l) =>
            s[l] = Fold([bounds |-> ev.bounds, value |-> 0, age |-> 0], ev)
  BY <1>2, ZenonT(30) DEF Recorded
<1> HIDE DEF c, s
<1>6. Over(schema, series) /\ Over(K, s)
  BY <1>4, <1>5, ZenonT(30) DEF FwdType, SeriesType, Over
<1>7. Shows(v, series) /\ Shows(w, s)
  BY <1>6, ViewOfFacts, ZenonT(30)
<1> HIDE DEF v, w, id, e
<1>8. DOMAIN w = DOMAIN v \union {id}
  <2>1. DOMAIN w = {Canon(x) : x \in DOMAIN s}
    BY <1>7, ZenonT(30) DEF Shows
  <2>2. DOMAIN v = {Canon(m) : m \in DOMAIN series}
    BY <1>7, ZenonT(30) DEF Shows
  <2>3. {Canon(x) : x \in DOMAIN s} = {Canon(c(m)) : m \in DOMAIN series} \union {id}
    BY <1>5, ZenonT(30) DEF id
  <2> QED BY <2>1, <2>2, <2>3, <1>4, ZenonT(30)
<1>9. w[id] = t
  <2>0. l \in DOMAIN s /\ w[id] = [bounds |-> s[l].bounds, value |-> s[l].value]
    BY <1>5, <1>7, ZenonT(30) DEF Shows, id
  <2>1. CASE \E m \in DOMAIN series : Canon(m) = id
    <3>1. PICK m \in DOMAIN series : Canon(m) = id
      BY <2>1, ZenonT(30)
    <3>2. id \in DOMAIN v /\ v[id] = [bounds |-> series[m].bounds,
                                       value |-> series[m].value]
      BY <3>1, <1>7, ZenonT(30) DEF Shows
    <3>3. s[l] = Fold(series[m], ev) /\ series[m] \in States
      BY <3>1, <1>4, <1>5, ZenonT(30)
    <3>4. [bounds |-> s[l].bounds, value |-> s[l].value] =
             Totals!Total([bounds |-> series[m].bounds, value |-> series[m].value], e)
      BY <3>3, FoldIsTotal, ZenonT(30) DEF e
    <3> QED BY <3>2, <3>4, <2>0, ZenonT(30)
  <2>2. CASE \A m \in DOMAIN series : Canon(m) # id
    <3> DEFINE st == [bounds |-> ev.bounds, value |-> 0, age |-> 0]
    <3>1. id \notin DOMAIN v
      BY <2>2, <1>7, ZenonT(30) DEF Shows
    <3>2. s[l] = Fold(st, ev)
      BY <2>2, <1>4, <1>5, ZenonT(30)
    <3>3. st \in States /\ [bounds |-> st.bounds, value |-> st.value] = new
      BY EventFacts DEF States
    <3> HIDE DEF st, new
    <3>4. [bounds |-> s[l].bounds, value |-> s[l].value] = Totals!Total(new, e)
      BY <3>2, <3>3, FoldIsTotal, ZenonT(30) DEF e
    <3> QED BY <3>1, <3>4, <2>0, ZenonT(30)
  <2> QED BY <2>1, <2>2, ZenonT(30)
<1>10. ASSUME NEW x \in DOMAIN v, x # id PROVE w[x] = v[x]
  <2>1. PICK m \in DOMAIN series : x = Canon(m)
    BY <1>7, ZenonT(30) DEF Shows
  <2>2. c(m) # l /\ c(m) \in DOMAIN s /\ s[c(m)] = series[m] /\ Canon(c(m)) = x
    BY <2>1, <1>4, <1>5, <1>10, ZenonT(30)
  <2>3. w[x] = [bounds |-> s[c(m)].bounds, value |-> s[c(m)].value]
    BY <2>2, <1>7, ZenonT(30) DEF Shows
  <2>4. v[x] = [bounds |-> series[m].bounds, value |-> series[m].value]
    BY <2>1, <1>7, ZenonT(30) DEF Shows
  <2> QED BY <2>2, <2>3, <2>4, ZenonT(30)
<1> HIDE DEF t, old
<1>11. w = [x \in DOMAIN v \union {id} |-> IF x = id THEN t ELSE v[x]]
  <2>1. w = [x \in DOMAIN w |-> w[x]]
    BY <1>7, ZenonT(30) DEF Shows
  <2> QED BY <2>1, <1>8, <1>9, <1>10, ZenonT(30)
<1>12. View = v /\ View' = w
  BY ViewIsViewOf, ZenonT(30) DEF v, w, s
<1>13. e.bounds = ev.bounds
  BY ZenonT(30) DEF e, AbstractEvent
<1>14. Totals!Record(id, e)
  BY <1>11, <1>12, <1>13, ZenonT(30) DEF Totals!Record, t, old
<1> QED BY <1>3, <1>14, ZenonT(30) DEF e

-----------------------------------------------------------------------------
(* What holds of the whole pipeline in every state.                         *)
PipeInv ==
    FwdType /\ RelayType /\ WriterType /\ EveryBatchAccounted /\ RwInv /\ StoreInv

(* A snapshot is a batch.                                                   *)
LEMMA BatchType ==
    ASSUME SeriesType, WriterType
    PROVE  [samples |-> Kept, markers |-> writer.prev \ Kept] \in Batches
<1>1. Kept \subseteq LabelSets
  BY ZenonT(30) DEF SeriesType, LabelSets, Kept
<1> HIDE DEF Kept
<1> QED BY <1>1, ZenonT(30) DEF WriterType, Batches

(* The queue of the remote writer, its work and its counter alone matter.   *)
LEMMA RwFrame ==
    ASSUME RwInv, Relays' = Relays, writer' = writer,
           "rw" \in Relays => /\ queue'["rw"] = queue["rw"] /\ work'["rw"] = work["rw"]
                              /\ count'["rw"] = count["rw"]
    PROVE  RwInv'
  BY ZenonT(30) DEF RwInv, Excused, Accounts, Told, InFlight

(* Snapshot: what prevSeries forgets, the batch retires.                    *)
LEMMA SnapshotAccounts ==
    ASSUME SeriesType, RelayType, WriterType, EveryBatchAccounted, RwInv,
           "rw" \in Relays, Snapshot
    PROVE  RelayType' /\ WriterType' /\ EveryBatchAccounted' /\ RwInv'
<1> DEFINE batch == [samples |-> Kept, markers |-> writer.prev \ Kept]
           q == queue["rw"]
<1>1. batch \in Batches /\ Kept \subseteq LabelSets
  BY BatchType, ZenonT(30) DEF Batches
<1>2. /\ writer' = [writer EXCEPT !.prev = Kept]
      /\ IF batch.samples \union batch.markers # {}
         THEN Enqueue("rw", batch) ELSE UNCHANGED relayVars
  BY ZenonT(30) DEF Snapshot
<1> HIDE DEF Kept
<1>3. writer'.prev = Kept /\ writer'.live = writer.live /\ WriterType'
  BY <1>1, <1>2, ZenonT(30) DEF WriterType
<1>4. ASSUME NEW x \in Ids(writer.prev)
      PROVE  x \in Ids(Kept) \/ x \in Ids(batch.markers)
  BY ZenonT(30) DEF Ids
<1>5. CASE batch.samples \union batch.markers # {}
  <2>0. Enqueue("rw", batch) /\ batch.samples = Kept
    BY <1>2, <1>5, ZenonT(30)
  <2> HIDE DEF batch
  <2>1. /\ RelayType' /\ EveryBatchAccounted' /\ Relays' = Relays
        /\ work' = work
        /\ \/ queue' = [queue EXCEPT !["rw"] = Append(@, batch)]
           \/ count'["rw"].dropped > 0 /\ queue' = queue
        /\ count'["rw"].dropped >= count["rw"].dropped
    BY <2>0, <1>1, EnqueueAccounts, ZenonT(30)
  <2>2. RwInv'
    <3>1. CASE count'["rw"].dropped > 0 \/ work["rw"].at = "returned"
      BY <3>1, <2>1, ZenonT(30) DEF RwInv, Excused
    <3>2. CASE ~(count'["rw"].dropped > 0) /\ work["rw"].at # "returned"
      <4>1. /\ queue'["rw"] = Append(q, batch) /\ q \in Seq(Batches)
        BY <3>2, <2>1, ZenonT(30) DEF RelayType
      <4>2. /\ Len(queue'["rw"]) = Len(q) + 1 /\ Len(q) \in Nat
            /\ queue'["rw"][Len(q) + 1] = batch
            /\ \A i \in 1 .. Len(q) : queue'["rw"][i] = q[i]
            /\ DOMAIN q = 1 .. Len(q) /\ DOMAIN (queue'["rw"]) = 1 .. (Len(q) + 1)
        BY <4>1, <1>1
      <4>3. Accounts
        <5>1. count'["rw"] \in Counts /\ count["rw"] \in Counts
          BY <2>1, ZenonT(30) DEF RelayType, Counts
        <5>2. ~(count["rw"].dropped > 0)
          BY <5>1, <3>2, <2>1 DEF Counts
        <5> QED BY <5>2, <3>2, ZenonT(30) DEF RwInv, Excused
      <4>4. ASSUME NEW x, NEW i \in 0 .. Len(q), Told(x, i) PROVE Told(x, i)'
        <5>1. CASE x \in Ids(writer.prev)
          <6>1. CASE x \in Ids(Kept)
            BY <6>1, <1>3, ZenonT(30) DEF Told, Ids
          <6>2. CASE x \in Ids(batch.markers)
            <7>1. Len(q) + 1 \in (i + 1) .. Len(queue'["rw"])
              BY <4>2
            <7>2. x \in Ids(queue'["rw"][Len(q) + 1].markers)
              BY <6>2, <4>2, ZenonT(30)
            <7>3. PICK j \in (i + 1) .. Len(queue'["rw"]) : x \in Ids(queue'["rw"][j].markers)
              BY <7>1, <7>2, ZenonT(30)
            <7> QED BY <7>3, ZenonT(30) DEF Told, Ids
          <6> QED BY <5>1, <6>1, <6>2, <1>4, ZenonT(30)
        <5>2. CASE \E j \in (i + 1) .. Len(q) : x \in Ids(q[j].markers)
          <6>1. PICK j \in (i + 1) .. Len(q) : x \in Ids(q[j].markers)
            BY <5>2, ZenonT(30)
          <6>2. j \in (i + 1) .. Len(queue'["rw"]) /\ queue'["rw"][j] = q[j]
            BY <6>1, <4>2
          <6>3. x \in Ids(queue'["rw"][j].markers)
            BY <6>1, <6>2, ZenonT(30)
          <6> QED BY <6>2, <6>3, ZenonT(30) DEF Told, Ids
        <5> QED BY <4>4, <5>1, <5>2, ZenonT(30) DEF Told
      <4>5. Accounts'
        <5>1. ASSUME NEW x \in writer'.live
              PROVE  (Told(x, 0) \/ (InFlight("rw") = 1 /\ x \in Ids(work["rw"].item.markers)))'
          BY <4>2, <4>3, <4>4, <1>3, <2>1 DEF Accounts, InFlight, Ids
        <5>2. ASSUME NEW i \in 1 .. (Len(q) + 1), NEW x \in Ids(queue'["rw"][i].samples)
              PROVE  Told(x, i)'
          <6>1. CASE i = Len(q) + 1
            <7>1. x \in Ids(Kept)
              BY <6>1, <4>2, <2>0, ZenonT(30)
            <7> QED BY <7>1, <1>3, ZenonT(30) DEF Told, Ids
          <6>2. CASE i # Len(q) + 1
            <7>1. i \in 1 .. Len(q) /\ x \in Ids(q[i].samples)
              BY <6>2, <4>2
            <7> QED BY <7>1, <4>2, <4>3, <4>4 DEF Accounts
          <6> QED BY <6>1, <6>2, ZenonT(30)
        <5>3. ASSUME InFlight("rw")' = 1, NEW x \in Ids(work["rw"].item.samples)
              PROVE  Told(x, 0)'
          BY <5>3, <4>2, <4>3, <4>4, <2>1 DEF Accounts, InFlight
        <5> QED BY <5>1, <5>2, <5>3, <4>2, <2>1, ZenonT(30) DEF Accounts, Ids
      <4> QED BY <4>5, ZenonT(30) DEF RwInv
    <3> QED BY <3>1, <3>2, ZenonT(30)
  <2> QED BY <2>1, <2>2, <1>3, ZenonT(30)
<1>6. CASE batch.samples \union batch.markers = {}
  <2>1. UNCHANGED <<ctx, queue, work, count>>
    BY <1>2, <1>6, ZenonT(30) DEF relayVars
  <2>2. writer.prev = {} /\ Kept = {}
    BY <1>6, ZenonT(30)
  <2>3. writer' = writer
    BY <2>2, <1>2, ZenonT(30) DEF WriterType
  <2>4. RelayType' /\ EveryBatchAccounted' /\ Relays' = Relays
    BY <2>1, RelayFrame, ZenonT(30)
  <2> QED BY <2>1, <2>3, <2>4, <1>3, RwFrame, ZenonT(30)
<1> QED BY <1>5, <1>6, ZenonT(30)

(* Take: the batch moves from the queue to the worker.                      *)
LEMMA TakeKeeps ==
    ASSUME RelayType, EveryBatchAccounted, RwInv, NEW r \in Relays, Take(r),
           writer' = writer
    PROVE  RwInv'
<1>1. /\ Relays' = Relays /\ RelayType'
      /\ queue' = [queue EXCEPT ![r] = Tail(queue[r])]
      /\ work' = [work EXCEPT ![r] = [at |-> "send", item |-> Head(queue[r]),
                                      attempt |-> 0]]
      /\ count' = count /\ work[r].at = "select" /\ queue[r] # <<>>
  BY TakeAccounts, ZenonT(30) DEF Take
<1>2. CASE r # "rw"
  <2>1. "rw" \in Relays => /\ queue'["rw"] = queue["rw"] /\ work'["rw"] = work["rw"]
                           /\ count'["rw"] = count["rw"]
    BY <1>1, <1>2, ZenonT(30) DEF RelayType
  <2> QED BY <2>1, <1>1, RwFrame, ZenonT(30)
<1>3. CASE r = "rw"
  <2> DEFINE q == queue["rw"]
  <2>1. /\ queue'["rw"] = Tail(q) /\ q \in Seq(Batches) /\ q # <<>>
        /\ work'["rw"].at = "send" /\ work'["rw"].item = Head(q)
        /\ work["rw"].at = "select" /\ count' = count /\ "rw" \in Relays
    BY <1>1, <1>3, ZenonT(30) DEF RelayType
  <2>2. /\ Len(q) \in Nat \ {0} /\ Len(Tail(q)) = Len(q) - 1 /\ Head(q) = q[1]
        /\ \A i \in 1 .. (Len(q) - 1) : Tail(q)[i] = q[i + 1]
        /\ DOMAIN q = 1 .. Len(q) /\ DOMAIN (Tail(q)) = 1 .. (Len(q) - 1)
    BY <2>1
  <2>3. ~Excused => Accounts
    BY <2>1, ZenonT(30) DEF RwInv
  <2>4. Excused => Excused'
    BY <2>1, ZenonT(30) DEF Excused
  <2>5. InFlight("rw") = 0 /\ InFlight("rw")' = 1
    BY <2>1, <1>1, ZenonT(30) DEF InFlight
  <2>6. ASSUME NEW x, NEW i \in 1 .. Len(q), Told(x, i) PROVE Told(x, i - 1)'
    <3>1. CASE x \in Ids(writer.prev)
      BY <3>1, ZenonT(30) DEF Told, Ids
    <3>2. CASE \E j \in (i + 1) .. Len(q) : x \in Ids(q[j].markers)
      <4>1. PICK j \in (i + 1) .. Len(q) : x \in Ids(q[j].markers)
        BY <3>2, ZenonT(30)
      <4>2. /\ j - 1 \in ((i - 1) + 1) .. Len(queue'["rw"])
            /\ queue'["rw"][j - 1] = q[j]
        BY <4>1, <2>1, <2>2, SMTT(30)
      <4>3. x \in Ids(queue'["rw"][j - 1].markers)
        BY <4>1, <4>2, ZenonT(30)
      <4> QED BY <4>2, <4>3, ZenonT(30) DEF Told, Ids
    <3> QED BY <2>6, <3>1, <3>2, ZenonT(30) DEF Told
  <2>7. ASSUME ~Excused PROVE Accounts'
    <3>1. Accounts
      BY <2>3, <2>7, ZenonT(30)
    <3>2. ASSUME NEW x \in writer'.live
          PROVE  (Told(x, 0) \/ (InFlight("rw") = 1 /\ x \in Ids(work["rw"].item.markers)))'
      <4>1. Told(x, 0)
        BY <3>1, <2>5 DEF Accounts
      <4>2. CASE x \in Ids(writer.prev)
        BY <4>2, ZenonT(30) DEF Told, Ids
      <4>3. CASE \E j \in (0 + 1) .. Len(q) : x \in Ids(q[j].markers)
        <5>1. PICK j \in 1 .. Len(q) : x \in Ids(q[j].markers)
          BY <4>3
        <5>2. CASE j = 1
          <6>1. x \in Ids(work'["rw"].item.markers)
            BY <5>1, <5>2, <2>1, <2>2, ZenonT(30)
          <6> QED BY <6>1, <2>5, ZenonT(30) DEF Ids
        <5>3. CASE j # 1
          <6>1. Told(x, 1)
            <7>1. j \in (1 + 1) .. Len(q)
              BY <5>1, <5>3, <2>2
            <7> QED BY <5>1, <7>1, ZenonT(30) DEF Told
          <6>2. 1 \in 1 .. Len(q) /\ 1 - 1 = 0
            BY <2>2
          <6> QED BY <6>1, <6>2, <2>6, ZenonT(30)
        <5> QED BY <5>2, <5>3, ZenonT(30)
      <4> QED BY <4>1, <4>2, <4>3, ZenonT(30) DEF Told
    <3>3. ASSUME NEW i \in 1 .. (Len(q) - 1), NEW x \in Ids(queue'["rw"][i].samples)
          PROVE  Told(x, i)'
      <4>1. i + 1 \in 1 .. Len(q) /\ x \in Ids(q[i + 1].samples) /\ (i + 1) - 1 = i
        BY <3>3, <2>1, <2>2
      <4>2. Told(x, i + 1)
        BY <4>1, <3>1, <2>2, ZenonT(30) DEF Accounts
      <4>3. PICK k \in 1 .. Len(q) : k = i + 1
        BY <4>1, ZenonT(30)
      <4>4. Told(x, k - 1)'
        BY <4>2, <4>3, <2>6, ZenonT(30)
      <4> QED BY <4>1, <4>3, <4>4, ZenonT(30)
    <3>4. ASSUME NEW x \in Ids(work'["rw"].item.samples) PROVE Told(x, 0)'
      <4>1. Told(x, 1)
        BY <2>1, <2>2, <3>1 DEF Accounts
      <4>2. 1 \in 1 .. Len(q) /\ 1 - 1 = 0
        BY <2>2
      <4> QED BY <4>1, <4>2, <2>6, ZenonT(30)
    <3>5. DOMAIN (queue'["rw"]) = 1 .. (Len(q) - 1)
      BY <2>1, <2>2, ZenonT(30)
    <3> QED BY <3>2, <3>3, <3>4, <3>5, ZenonT(30) DEF Accounts, Ids
  <2> QED BY <2>4, <2>7, ZenonT(30) DEF RwInv
<1> QED BY <1>2, <1>3, ZenonT(30)

(* Send: what the endpoint shows after a batch, the next ones retire.       *)
LEMMA SendKeeps ==
    ASSUME RelayType, EveryBatchAccounted, WriterType, RwInv, NEW r \in Relays,
           Send(r)
    PROVE  RelayType' /\ EveryBatchAccounted' /\ WriterType' /\ RwInv'
<1>1. PICK res : /\ Sent(r, res)
                 /\ \/ Receives(r)
                    \/ res # "ok" /\ writer' = writer
  BY ZenonT(30) DEF Send
<1>2. /\ RelayType' /\ EveryBatchAccounted' /\ Relays' = Relays
      /\ queue' = queue /\ InFlight(r) = 1
      /\ \A s \in Relays \ {r} : count'[s] = count[s] /\ work'[s] = work[s]
      /\ count'[r].dropped >= count[r].dropped
      /\ \/ count'[r].dropped > 0
         \/ res = "ok" /\ InFlight(r)' = 0
         \/ res # "ok" /\ InFlight(r)' = 1 /\ work'[r].item = work[r].item
  BY <1>1, SentAccounts
<1>3. CASE r # "rw"
  <2>1. writer' = writer
    BY <1>1, <1>3, ZenonT(30) DEF Receives
  <2>2. "rw" \in Relays => /\ queue'["rw"] = queue["rw"] /\ work'["rw"] = work["rw"]
                           /\ count'["rw"] = count["rw"]
    BY <1>2, <1>3, ZenonT(30)
  <2> QED BY <2>1, <2>2, <1>2, RwFrame, ZenonT(30) DEF WriterType, Ids
<1>4. CASE r = "rw"
  <2> DEFINE S == Ids(work["rw"].item.samples)
             M == Ids(work["rw"].item.markers)
  <2>1. /\ writer'.prev = writer.prev /\ WriterType'
        /\ \/ \A x \in writer'.live : (x \in writer.live /\ x \notin M) \/ x \in S
           \/ \A x \in writer'.live : (x \in writer.live \/ x \in S) /\ x \notin M
           \/ res # "ok" /\ writer' = writer
    <3>0. S \subseteq Ids(LabelSets)
      <4>1. work["rw"].item.samples \subseteq LabelSets
        BY <1>4, ZenonT(30) DEF RelayType, Batches
      <4> QED BY <4>1, ZenonT(30) DEF Ids
    <3>1. CASE Receives(r)
      <4>1. PICK live \in {(writer.live \ M) \union S, (writer.live \union S) \ M} :
               writer' = [writer EXCEPT !.live = live]
        BY <3>1, <1>4, ZenonT(30) DEF Receives
      <4> HIDE DEF S, M
      <4>2. live \in SUBSET Ids(LabelSets)
        BY <4>1, <3>0, ZenonT(30) DEF WriterType
      <4>3. writer'.prev = writer.prev /\ writer'.live = live
            /\ writer' \in [prev : SUBSET LabelSets, live : SUBSET Ids(LabelSets)]
        BY <4>1, <4>2, ZenonT(30) DEF WriterType
      <4> QED BY <4>1, <4>3, ZenonT(30) DEF WriterType, Ids
    <3>2. CASE res # "ok" /\ writer' = writer
      BY <3>2, ZenonT(30) DEF WriterType, Ids
    <3> QED BY <1>1, <3>1, <3>2, ZenonT(30)
  <2>2. Excused => Excused'
    <3>1. count["rw"] \in Counts /\ count'["rw"] \in Counts /\ work["rw"].at # "returned"
      BY <1>1, <1>2, <1>4, ZenonT(30) DEF RelayType, Counts, Sent
    <3> QED BY <3>1, <1>2, <1>4 DEF Excused, Counts
  <2>3. ASSUME NEW x, Told(x, 0) PROVE Told(x, 0)'
    BY <2>3, <2>1, <1>2, ZenonT(30) DEF Told, Ids
  <2>4. ASSUME NEW x, NEW i, Told(x, i) PROVE Told(x, i)'
    BY <2>4, <2>1, <1>2, ZenonT(30) DEF Told, Ids
  <2>5. ASSUME ~Excused, ~Excused' PROVE Accounts'
    <3>1. Accounts /\ InFlight("rw") = 1 /\ "rw" \in Relays
      BY <2>5, <1>2, <1>4, ZenonT(30) DEF RwInv
    <3>2. /\ res = "ok" => InFlight("rw")' = 0
          /\ res # "ok" => InFlight("rw")' = 1 /\ work'["rw"].item = work["rw"].item
      BY <2>5, <1>2, <1>4, ZenonT(30) DEF Excused
    <3>3. ASSUME NEW x \in writer'.live
          PROVE  (Told(x, 0) \/ (InFlight("rw") = 1 /\ x \in Ids(work["rw"].item.markers)))'
      <4>1. x \in S => Told(x, 0)
        BY <3>1, ZenonT(30) DEF Accounts
      <4>2. x \in writer.live => Told(x, 0) \/ x \in M
        BY <3>1, ZenonT(30) DEF Accounts
      <4> HIDE DEF S
      <4>3. CASE res = "ok"
        <5> HIDE DEF M
        <5>1. Told(x, 0)
          BY <4>1, <4>2, <4>3, <2>1, ZenonT(30)
        <5> QED BY <5>1, <2>3, ZenonT(30)
      <4>4. CASE res # "ok"
        <5>1. Told(x, 0) \/ x \in M
          BY <4>1, <4>2, <2>1, ZenonT(30)
        <5>2. x \in M => x \in Ids(work["rw"].item.markers)'
          BY <4>4, <3>2, ZenonT(30) DEF Ids
        <5> QED BY <5>1, <5>2, <4>4, <3>2, <2>3, ZenonT(30)
      <4> QED BY <4>3, <4>4, ZenonT(30)
    <3>4. ASSUME NEW i \in DOMAIN queue["rw"], NEW x \in Ids(queue["rw"][i].samples)
          PROVE  Told(x, i)'
      BY <3>1, <2>4, ZenonT(30) DEF Accounts
    <3>5. ASSUME InFlight("rw")' = 1, NEW x \in Ids(work'["rw"].item.samples)
          PROVE  Told(x, 0)'
      BY <3>1, <3>2, <3>5, <2>3 DEF Accounts
    <3> QED BY <3>3, <3>4, <3>5, <1>2, ZenonT(30) DEF Accounts, Ids
  <2> QED BY <2>1, <2>2, <2>5, <1>2, ZenonT(30) DEF RwInv
<1> QED BY <1>3, <1>4, ZenonT(30)

(* Retry and Return change nothing of it.                                   *)
LEMMA RetryKeeps ==
    ASSUME RelayType, EveryBatchAccounted, RwInv, NEW r \in Relays, Retry(r),
           writer' = writer
    PROVE  RwInv'
<1>1. /\ RelayType' /\ Relays' = Relays /\ queue' = queue /\ count' = count
      /\ InFlight(r) = 1 /\ InFlight(r)' = 1 /\ work'[r].item = work[r].item
      /\ work[r].at = "backoff"
      /\ \A s \in Relays \ {r} : work'[s] = work[s]
  BY RetryAccounts, ZenonT(30) DEF Retry
<1>2. CASE r # "rw"
  <2>1. "rw" \in Relays => work'["rw"] = work["rw"]
    BY <1>1, <1>2, ZenonT(30)
  <2> QED BY <2>1, <1>1, RwFrame, ZenonT(30)
<1>3. CASE r = "rw"
  <2>1. Excused => Excused'
    BY <1>1, <1>3, ZenonT(30) DEF Excused
  <2>2. Accounts => Accounts'
    BY <1>1, <1>3, ZenonT(30) DEF Accounts, Told, Ids
  <2> QED BY <2>1, <2>2, <1>1, ZenonT(30) DEF RwInv
<1> QED BY <1>2, <1>3, ZenonT(30)

(* A worker that is gone excuses what stays.                                *)
LEMMA ReturnKeeps ==
    ASSUME RelayType, EveryBatchAccounted, RwInv, NEW r \in Relays, Return(r),
           writer' = writer
    PROVE  RwInv'
<1>1. /\ Relays' = Relays /\ queue' = queue /\ count' = count
      /\ work'[r].at = "returned"
      /\ \A s \in Relays \ {r} : work'[s] = work[s]
  BY ReturnAccounts, ZenonT(30) DEF Return
<1>2. CASE r # "rw"
  <2>1. "rw" \in Relays => work'["rw"] = work["rw"]
    BY <1>1, <1>2, ZenonT(30)
  <2> QED BY <2>1, <1>1, RwFrame, ZenonT(30)
<1>3. CASE r = "rw"
  BY <1>1, <1>3, ZenonT(30) DEF RwInv, Excused
<1> QED BY <1>2, <1>3, ZenonT(30)

(* Tick retires what was shown and is no longer, or counts the error.       *)
LEMMA TickCounts ==
    ASSUME StoreInv, NEW bad, NEW commits \in BOOLEAN, Tick(bad, commits)
    PROVE  StoreInv'
<1> DEFINE cur == Kept \ bad
           markers == store.prev \ cur
<1>1. store' = [prev |-> cur,
                live |-> IF commits
                         THEN (store.live \ Ids(markers \ bad)) \union Ids(cur)
                         ELSE store.live,
                errors |-> store.errors \/ bad # {} \/ ~commits]
  BY ZenonT(30) DEF Tick
<1> HIDE DEF Kept
<1>2. CASE store.errors \/ bad # {} \/ ~commits
  BY <1>1, <1>2, ZenonT(30) DEF StoreInv
<1>3. CASE ~store.errors /\ bad = {} /\ commits
  <2>1. store.live \subseteq Ids(store.prev) /\ markers \ bad = markers
    BY <1>3, ZenonT(30) DEF StoreInv
  <2>2. Ids(store.prev) \ Ids(markers) \subseteq Ids(cur)
    BY ZenonT(30) DEF Ids
  <2>3. store'.live = (store.live \ Ids(markers)) \union Ids(cur) /\ store'.prev = cur
    BY <1>1, <1>3, <2>1, ZenonT(30)
  <2> HIDE DEF markers, cur
  <2>4. store'.live \subseteq Ids(store'.prev)
    BY <2>1, <2>2, <2>3, ZenonT(30)
  <2> QED BY <2>4, ZenonT(30) DEF StoreInv, Ids
<1> QED BY <1>2, <1>3, ZenonT(30)

(* OnMetrics only touches the queue of the OTLP relay.                      *)
LEMMA OnMetricsKeeps ==
    ASSUME RelayType, EveryBatchAccounted, RwInv, writer' = writer,
           IF "otlp" \in Relays THEN Enqueue("otlp", Raw) ELSE UNCHANGED relayVars
    PROVE  RelayType' /\ EveryBatchAccounted' /\ RwInv'
<1>1. CASE "otlp" \in Relays
  <2>1. /\ RelayType' /\ EveryBatchAccounted' /\ Relays' = Relays /\ work' = work
        /\ \/ queue' = [queue EXCEPT !["otlp"] = Append(@, Raw)] \/ queue' = queue
        /\ \A s \in Relays \ {"otlp"} : count'[s] = count[s]
    BY <1>1, WaitingType, EnqueueAccounts, ZenonT(30)
  <2>2. "rw" \in Relays => queue'["rw"] = queue["rw"] /\ count'["rw"] = count["rw"]
    BY <2>1, ZenonT(30) DEF RelayType
  <2> QED BY <2>1, <2>2, RwFrame, ZenonT(30)
<1>2. CASE "otlp" \notin Relays
  <2>1. UNCHANGED <<queue, work, count>>
    BY <1>2, ZenonT(30) DEF relayVars
  <2>2. RelayType' /\ EveryBatchAccounted' /\ Relays' = Relays
    BY <2>1, RelayFrame, ZenonT(30)
  <2> QED BY <2>1, <2>2, RwFrame, ZenonT(30)
<1> QED BY <1>1, <1>2, ZenonT(30)

(* The relays and the remote writer stand still.                            *)
LEMMA RelaysIdle ==
    ASSUME RelayType, EveryBatchAccounted, WriterType, RwInv,
           UNCHANGED <<queue, work, count, writer>>
    PROVE  RelayType' /\ EveryBatchAccounted' /\ WriterType' /\ RwInv'
<1>1. RelayType' /\ EveryBatchAccounted' /\ Relays' = Relays
  BY RelayFrame, ZenonT(30)
<1>2. WriterType'
  BY ZenonT(30) DEF WriterType, Ids
<1> QED BY <1>1, <1>2, RwFrame, ZenonT(30)

(* The invariant holds in the beginning.                                    *)
LEMMA PipeInit == Init => PipeInv
<1> SUFFICES ASSUME Init PROVE PipeInv
  OBVIOUS
<1>1. FwdType
  <2>1. DOMAIN series = {} /\ series = [l \in {} |-> series[l]]
    BY DEF Init, FwdInit
  <2> QED BY <2>1 DEF Init, FwdInit, FwdType, SeriesType
<1>2. PICK on \in Exports : queue = [r \in on |-> <<>>]
  BY ZenonT(30) DEF Init, RelayInit
<1>3. Relays = on
  BY <1>2, ZenonT(30) DEF Relays
<1>4. RelayType
  BY <1>2, <1>3, WaitingType, SMTT(30) DEF Init, RelayInit, RelayType, Works
<1>5. EveryBatchAccounted /\ RwInv
  <2>1. ASSUME NEW r \in Relays
        PROVE  /\ count[r] = [offered |-> 0, batches |-> 0, dropped |-> 0]
               /\ Len(queue[r]) = 0 /\ InFlight(r) = 0 /\ queue[r] = <<>>
    BY <1>2, <1>3, ZenonT(30) DEF Init, RelayInit, InFlight, Waiting
  <2>2. EveryBatchAccounted
    BY <2>1 DEF EveryBatchAccounted
  <2>3. writer.live = {}
    BY ZenonT(30) DEF Init
  <2> QED BY <2>1, <2>2, <2>3, SMTT(30) DEF RwInv, Accounts
<1>6. WriterType /\ StoreInv
  BY ZenonT(30) DEF Init, WriterType, StoreInv, Ids
<1> QED BY <1>1, <1>4, <1>5, <1>6, ZenonT(30) DEF PipeInv

(* Every step preserves it.                                                 *)
LEMMA PipeStep == PipeInv /\ [Next]_vars => PipeInv'
<1> SUFFICES ASSUME PipeInv, [Next]_vars PROVE PipeInv'
  OBVIOUS
<1>0. /\ FwdType /\ SeriesType /\ RelayType /\ WriterType /\ EveryBatchAccounted
      /\ RwInv /\ StoreInv
  BY ZenonT(30) DEF PipeInv, FwdType
<1>1. ASSUME NEW ev \in EventsOf(metric), OnMetrics(ev) PROVE PipeInv'
  <2>1. /\ UNCHANGED <<schema, series, metric>> /\ writer' = writer /\ store' = store
        /\ eventsCh' = eventsCh \/ eventsCh' = Append(eventsCh, ev)
        /\ IF "otlp" \in Relays THEN Enqueue("otlp", Raw) ELSE UNCHANGED relayVars
    BY <1>1, ZenonT(30) DEF OnMetrics, fwdVars
  <2>2. RelayType' /\ EveryBatchAccounted' /\ RwInv'
    BY <2>1, <1>0, OnMetricsKeeps, ZenonT(30)
  <2>3. FwdType'
    <3>1. SeriesType'
      BY <2>1, <1>0, ZenonT(30) DEF SeriesType, States
    <3>2. eventsCh' \in Seq(EventsOf(metric))
      <4>1. eventsCh \in Seq(EventsOf(metric))
        BY <1>0, ZenonT(30) DEF FwdType
      <4> QED BY <4>1, <2>1, <1>1
    <3>3. EventsOf(metric)' = EventsOf(metric)
      BY <2>1, ZenonT(30)
    <3> QED BY <3>1, <3>2, <3>3, ZenonT(30) DEF FwdType
  <2>4. WriterType' /\ StoreInv'
    BY <2>1, <1>0, ZenonT(30) DEF WriterType, StoreInv, Ids
  <2> QED BY <2>2, <2>3, <2>4, ZenonT(30) DEF PipeInv
<1>2. CASE Forward
  <2>1. /\ eventsCh # <<>> /\ Record(Head(eventsCh)) /\ eventsCh' = Tail(eventsCh)
        /\ UNCHANGED <<queue, work, count, writer, store>>
    BY <1>2, ZenonT(30) DEF Forward, relayVars
  <2>2. eventsCh \in Seq(EventsOf(metric))
    BY <1>0, ZenonT(30) DEF FwdType
  <2>3. Head(eventsCh) \in EventsOf(metric) /\ eventsCh' \in Seq(EventsOf(metric))
    BY <2>1, <2>2, SMTT(30)
  <2>4. SeriesType' /\ metric' = metric
    BY <2>1, <2>3, <1>0, RecordType, ZenonT(30) DEF Record
  <2>5. EventsOf(metric)' = EventsOf(metric)
    BY <2>4, ZenonT(30)
  <2>6. FwdType'
    BY <2>3, <2>4, <2>5, ZenonT(30) DEF FwdType
  <2>7. StoreInv'
    BY <2>1, <1>0, ZenonT(30) DEF StoreInv, Ids
  <2> QED BY <2>1, <2>6, <2>7, <1>0, RelaysIdle, ZenonT(30) DEF PipeInv
<1>3. ASSUME NEW bad, NEW commits \in BOOLEAN, Tick(bad, commits) PROVE PipeInv'
  <2>1. Collect /\ UNCHANGED <<queue, work, count, writer, eventsCh>>
    BY <1>3, ZenonT(30) DEF Tick, relayVars
  <2>2. SeriesType' /\ metric' = metric
    BY <2>1, <1>0, CollectType, ZenonT(30)
  <2>3. FwdType'
    <3>1. EventsOf(metric)' = EventsOf(metric)
      BY <2>2, ZenonT(30)
    <3> QED BY <2>1, <2>2, <3>1, <1>0, ZenonT(30) DEF FwdType
  <2>4. StoreInv'
    BY <1>0, <1>3, TickCounts, ZenonT(30)
  <2> QED BY <2>1, <2>3, <2>4, <1>0, RelaysIdle, ZenonT(30) DEF PipeInv
<1>4. CASE "rw" \in Relays /\ Snapshot
  <2>1. Collect /\ UNCHANGED <<eventsCh, store>>
    BY <1>4, ZenonT(30) DEF Snapshot
  <2>2. SeriesType' /\ metric' = metric
    BY <2>1, <1>0, CollectType, ZenonT(30)
  <2>3. FwdType'
    <3>1. EventsOf(metric)' = EventsOf(metric)
      BY <2>2, ZenonT(30)
    <3> QED BY <2>1, <2>2, <3>1, <1>0, ZenonT(30) DEF FwdType
  <2>4. RelayType' /\ WriterType' /\ EveryBatchAccounted' /\ RwInv'
    BY <1>0, <1>4, SnapshotAccounts, ZenonT(30)
  <2>5. StoreInv'
    BY <2>1, <1>0, ZenonT(30) DEF StoreInv, Ids
  <2> QED BY <2>3, <2>4, <2>5, ZenonT(30) DEF PipeInv
<1>5. ASSUME NEW r \in Relays, Worker(r) PROVE PipeInv'
  <2>1. UNCHANGED <<schema, series, metric, eventsCh, store>>
    BY <1>5, ZenonT(30) DEF Worker, Send, fwdVars
  <2>2. FwdType' /\ StoreInv'
    BY <2>1, <1>0 DEF FwdType, SeriesType, States, EventsOf, StoreInv, Ids
  <2>3. CASE Send(r)
    BY <2>2, <2>3, <1>0, SendKeeps, ZenonT(30) DEF PipeInv
  <2>4. ASSUME Take(r) \/ Retry(r) \/ Return(r), writer' = writer PROVE PipeInv'
    <3>1. WriterType'
      BY <2>4, <1>0, ZenonT(30) DEF WriterType, Ids
    <3>2. RelayType' /\ EveryBatchAccounted' /\ RwInv'
      BY <2>4, <1>0, TakeAccounts, TakeKeeps, RetryAccounts, RetryKeeps,
         ReturnAccounts, ReturnKeeps, ZenonT(30)
    <3> QED BY <2>2, <3>1, <3>2, ZenonT(30) DEF PipeInv
  <2> QED BY <1>5, <2>3, <2>4, ZenonT(30) DEF Worker
<1>6. CASE Clock
  <2>1. Age /\ UNCHANGED <<queue, work, count, writer, eventsCh, store>>
    BY <1>6, ZenonT(30) DEF Clock, relayVars
  <2>2. SeriesType' /\ metric' = metric
    BY <2>1, <1>0, AgeType, ZenonT(30)
  <2>3. EventsOf(metric)' = EventsOf(metric)
    BY <2>2, ZenonT(30)
  <2>4. FwdType' /\ StoreInv'
    BY <2>1, <2>2, <2>3, <1>0, ZenonT(30) DEF FwdType, StoreInv, Ids
  <2> QED BY <2>1, <2>4, <1>0, RelaysIdle, ZenonT(30) DEF PipeInv
<1>7. CASE Stop \/ UNCHANGED vars
  <2>1. /\ UNCHANGED <<schema, series, metric, eventsCh, store>>
        /\ UNCHANGED <<queue, work, count, writer>>
    BY <1>7, ZenonT(30) DEF Stop, Cancel, fwdVars, vars, relayVars
  <2>2. FwdType' /\ StoreInv'
    BY <2>1, <1>0 DEF FwdType, SeriesType, States, EventsOf, StoreInv, Ids
  <2> QED BY <2>1, <2>2, <1>0, RelaysIdle, ZenonT(30) DEF PipeInv
<1> QED BY <1>1, <1>2, <1>3, <1>4, <1>5, <1>6, <1>7, ZenonT(30) DEF Next

(* ollie_export_* accounts for every batch, for any queue, any number of    *)
(* retries and any failures: Enqueue, Run and deliver lose none uncounted.  *)
THEOREM BatchesAccounted == Spec => []EveryBatchAccounted
<1>1. PipeInv => EveryBatchAccounted
  BY ZenonT(30) DEF PipeInv
<1> QED BY <1>1, PipeInit, PipeStep, PTL DEF Spec

(* What a reader of the registry shows for good is counted for: see         *)
(* FrozenIsCounted.  A batch's samples are retired by a later batch or by   *)
(* prevSeries (Told), whatever is queued and sent again in between.         *)
THEOREM FrozenCounted == Spec => []FrozenIsCounted
<1>1. PipeInv => FrozenIsCounted
  <2> SUFFICES ASSUME PipeInv PROVE FrozenIsCounted
    OBVIOUS
  <2>1. ASSUME "rw" \in Relays, ~Excused
        PROVE  writer.live \subseteq
                Ids(writer.prev) \union UNION {Ids(b.markers) : b \in Pending}
    <3> SUFFICES ASSUME NEW x \in writer.live, x \notin Ids(writer.prev)
                 PROVE  \E b \in Pending : x \in Ids(b.markers)
      OBVIOUS
    <3>1. \/ Told(x, 0)
          \/ InFlight("rw") = 1 /\ x \in Ids(work["rw"].item.markers)
      BY <2>1, ZenonT(30) DEF PipeInv, RwInv, Accounts
    <3>2. CASE Told(x, 0)
      <4>1. PICK j \in (0 + 1) .. Len(queue["rw"]) : x \in Ids(queue["rw"][j].markers)
        BY <3>2, ZenonT(30) DEF Told
      <4>2. j \in DOMAIN queue["rw"]
        BY <4>1, <2>1 DEF PipeInv, RelayType
      <4> QED BY <4>1, <4>2, ZenonT(30) DEF Pending
    <3>3. CASE InFlight("rw") = 1 /\ x \in Ids(work["rw"].item.markers)
      BY <3>3, ZenonT(30) DEF Pending
    <3> QED BY <3>1, <3>2, <3>3, ZenonT(30)
  <2>2. store.live \subseteq Ids(store.prev) \/ store.errors
    BY ZenonT(30) DEF PipeInv, StoreInv
  <2> QED BY <2>1, <2>2, ZenonT(30) DEF FrozenIsCounted, Excused
<1> QED BY <1>1, PipeInit, PipeStep, PTL DEF Spec

(* Every step of the pipeline is one of SeriesTotals, or none.              *)
LEMMA PipeRefines == PipeInv /\ [Next]_vars => [Totals!Next]_View
<1> SUFFICES ASSUME PipeInv, [Next]_vars PROVE Totals!Next \/ View' = View
  OBVIOUS
<1>0. FwdType /\ SeriesType
  BY ZenonT(30) DEF PipeInv, FwdType
<1>1. ASSUME UNCHANGED series PROVE View' = View
  BY <1>1, ViewIsViewOf, ZenonT(30)
<1>2. CASE Forward
  <2>1. eventsCh # <<>> /\ Record(Head(eventsCh)) /\ eventsCh \in Seq(EventsOf(metric))
    BY <1>0, <1>2, ZenonT(30) DEF Forward, FwdType
  <2>2. Head(eventsCh) \in EventsOf(metric)
    BY <2>1
  <2>3. \E id \in {Canon(a) : a \in Attributes} :
              Totals!Record(id, AbstractEvent(Head(eventsCh)))
    BY <2>1, <2>2, <1>0, RecordRefines, ZenonT(30)
  <2>4. AbstractEvent(Head(eventsCh)) \in AbstractEvents
    BY <2>2, AbstractEventType, ZenonT(30)
  <2> QED BY <2>3, <2>4, ZenonT(30) DEF Totals!Next
<1>3. CASE Collect
  BY <1>0, <1>3, CollectForgets, ZenonT(30) DEF Totals!Next
<1>4. CASE Age
  BY <1>0, <1>4, AgeStutters, ZenonT(30)
<1>5. UNCHANGED series \/ Forward \/ Collect \/ Age
  BY ZenonT(30) DEF Next, OnMetrics, Tick, Snapshot, Worker, Send, Clock, Stop, vars, fwdVars
<1> QED BY <1>1, <1>2, <1>3, <1>4, <1>5, ZenonT(30)

(* Record, rekeySeries and Collect implement SeriesTotals, whatever the     *)
(* label sets and the order in which they widen the schema.                 *)
THEOREM KeepsTotals == Spec => ForwarderKeepsTotals
<1>1. Init => Totals!Init
  <2> SUFFICES ASSUME Init PROVE View = <<>>
    BY ZenonT(30) DEF Totals!Init
  <2>1. series = <<>>
    BY ZenonT(30) DEF Init, FwdInit
  <2>2. {Canon(l) : l \in DOMAIN series} = {}
    BY <2>1
  <2> QED BY <2>2 DEF View
<1> QED BY <1>1, PipeInit, PipeStep, PipeRefines, PTL
    DEF Spec, ForwarderKeepsTotals, Totals!Spec
=============================================================================
