------------------------------ MODULE SpanRing ------------------------------
(***************************************************************************)
(* The node-local span ring (internal/store/spanring.go) and the stream    *)
(* handler that is its consumer (AgentServer.SubscribeSpans).              *)
(*                                                                         *)
(* Spans are numbered in the order append sees them.  append runs under    *)
(* b.mu, but a subscriber's channel is drained without it, so the delivery *)
(* to one subscriber is up to three steps: the first send, the eviction of *)
(* the oldest queued delivery, the second send.                            *)
(***************************************************************************)
EXTENDS Integers, Sequences

CONSTANTS
    Capacity,       \* len(b.buf)
    Subs,           \* subscriber identifiers, each used once
    Buffer,         \* capacity of a subscriber's channel (1024 in the code)
    MaxSpans        \* bound on the number of appended spans

ASSUME CapacityAssumption == Capacity \in Nat \ {0}
ASSUME BufferAssumption == Buffer \in Nat \ {0}
ASSUME MaxSpansAssumption == MaxSpans \in Nat

VARIABLES
    count,          \* spans appended so far: the span being appended is count
    buf, head, full,
    state,          \* of a subscriber: "new", "subscribed" or "closed"
    ch, gap,        \* its channel of deliveries, and sub.gap
    todo,           \* subscribers the current append still has to serve
    step, item,     \* the delivery in progress: its next step, subscriber and gap
    since,          \* count when the subscriber subscribed
    carried,        \* carriedGap of the stream handler
    sent, skipped,  \* 1 + Gap summed over the events sent; spans filtered out
    last,           \* the last span the handler received
    exact,          \* each delivery's Gap was the spans missing just before it
    panicked

ringVars == <<buf, head, full>>
subVars == <<state, ch, gap, since>>
deliverVars == <<todo, step, item>>
handlerVars == <<carried, sent, skipped, last, exact>>
vars == <<count, ringVars, subVars, deliverVars, handlerVars, panicked>>

NoItem == [sub |-> CHOOSE s \in Subs : TRUE, gap |-> 0]

Init ==
    /\ count = 0 /\ buf = [i \in 0..Capacity-1 |-> 0] /\ head = 0 /\ full = FALSE
    /\ state = [s \in Subs |-> "new"]
    /\ ch = [s \in Subs |-> <<>>] /\ gap = [s \in Subs |-> 0]
    /\ since = [s \in Subs |-> 0]
    /\ todo = {} /\ step = "idle" /\ item = NoItem
    /\ carried = [s \in Subs |-> 0]
    /\ sent = [s \in Subs |-> 0] /\ skipped = [s \in Subs |-> 0]
    /\ last = [s \in Subs |-> 0] /\ exact = [s \in Subs |-> TRUE]
    /\ panicked = FALSE

Subscribed == {s \in Subs : state[s] = "subscribed"}
LockFree == step = "idle"

-----------------------------------------------------------------------------
\* Mutant of AppendWrite: the wrap is noticed one slot early.
AppendWriteFullEarly ==
    /\ LockFree /\ count < MaxSpans
    /\ count' = count + 1
    /\ buf' = [buf EXCEPT ![head] = count + 1]
    /\ head' = (head + 1) % Capacity
    /\ full' = (full \/ head' = Capacity - 1)
    /\ todo' = Subscribed /\ step' = "next"
    /\ UNCHANGED <<item, subVars, handlerVars, panicked>>

\* append takes b.mu and writes the ring; the fan-out follows under the lock.
AppendWrite ==
    /\ LockFree /\ count < MaxSpans
    /\ count' = count + 1
    /\ buf' = [buf EXCEPT ![head] = count + 1]
    /\ head' = (head + 1) % Capacity
    /\ full' = (full \/ head' = 0)
    /\ todo' = Subscribed /\ step' = "next"
    /\ UNCHANGED <<item, subVars, handlerVars, panicked>>

\* A send on a subscriber's channel; on a closed one it panics.
ChanSend(s, g) ==
    IF state[s] = "closed"
    THEN panicked' = TRUE /\ UNCHANGED ch
    ELSE /\ ch' = [ch EXCEPT ![s] = Append(@, [span |-> count, gap |-> g])]
         /\ UNCHANGED panicked

\* The next subscriber: its gap moves into the item, and a first send is tried.
DeliverTry(s) ==
    /\ step = "next" /\ s \in todo
    /\ todo' = todo \ {s}
    /\ gap' = [gap EXCEPT ![s] = 0]
    /\ IF Len(ch[s]) < Buffer
       THEN ChanSend(s, gap[s]) /\ UNCHANGED <<step, item>>
       ELSE /\ step' = "evict" /\ item' = [sub |-> s, gap |-> gap[s]]
            /\ UNCHANGED <<ch, panicked>>
    /\ UNCHANGED <<count, ringVars, state, since, handlerVars>>

\* Mutant of DeliverEvict: the evicted delivery's own gap is forgotten.
DeliverEvictForgetsGap ==
    /\ step = "evict" /\ step' = "resend"
    /\ LET s == item.sub IN
       IF ch[s] # <<>>
       THEN /\ item' = [item EXCEPT !.gap = @ + 1]
            /\ ch' = [ch EXCEPT ![s] = Tail(@)]
       ELSE UNCHANGED <<item, ch>>
    /\ UNCHANGED <<count, ringVars, state, gap, since, todo, handlerVars, panicked>>

\* The channel was full: its oldest delivery is taken out and folded into the
\* item's gap, unless the consumer has drained the channel meanwhile.
DeliverEvict ==
    /\ step = "evict" /\ step' = "resend"
    /\ LET s == item.sub IN
       IF ch[s] # <<>>
       THEN /\ item' = [item EXCEPT !.gap = @ + Head(ch[s]).gap + 1]
            /\ ch' = [ch EXCEPT ![s] = Tail(@)]
       ELSE UNCHANGED <<item, ch>>
    /\ UNCHANGED <<count, ringVars, state, gap, since, todo, handlerVars, panicked>>

DeliverResend ==
    /\ step = "resend" /\ step' = "next"
    /\ LET s == item.sub IN
       IF Len(ch[s]) < Buffer
       THEN ChanSend(s, item.gap) /\ UNCHANGED gap
       ELSE /\ gap' = [gap EXCEPT ![s] = @ + item.gap + 1]
            /\ UNCHANGED <<ch, panicked>>
    /\ item' = NoItem
    /\ UNCHANGED <<count, ringVars, state, since, todo, handlerVars>>

AppendUnlock ==
    /\ step = "next" /\ todo = {} /\ step' = "idle"
    /\ UNCHANGED <<count, ringVars, subVars, todo, item, handlerVars, panicked>>

-----------------------------------------------------------------------------
Subscribe(s) ==
    /\ LockFree /\ state[s] = "new"
    /\ state' = [state EXCEPT ![s] = "subscribed"]
    /\ since' = [since EXCEPT ![s] = count]
    /\ last' = [last EXCEPT ![s] = count]
    /\ UNCHANGED <<count, ringVars, ch, gap, deliverVars, carried, sent, skipped,
                   exact, panicked>>

\* Mutant of Cancel: the channel is closed without taking b.mu.
CancelUnlocked(s) ==
    /\ state[s] = "subscribed"
    /\ state' = [state EXCEPT ![s] = "closed"]
    /\ UNCHANGED <<count, ringVars, ch, gap, since, deliverVars, handlerVars, panicked>>

\* cancel(): the subscription is deleted and its channel closed, under b.mu.
Cancel(s) ==
    /\ LockFree /\ state[s] = "subscribed"
    /\ state' = [state EXCEPT ![s] = "closed"]
    /\ UNCHANGED <<count, ringVars, ch, gap, since, deliverVars, handlerVars, panicked>>

\* The handler receives a delivery.  A span that does not match the filter (or
\* on which it fails to evaluate) hands its gap on; one that cannot be marshalled
\* counts as lost; any other is sent with the gap carried so far.
Receive(s, outcome) ==
    /\ ch[s] # <<>>
    /\ LET it == Head(ch[s]) IN
       /\ ch' = [ch EXCEPT ![s] = Tail(@)]
       /\ last' = [last EXCEPT ![s] = it.span]
       /\ exact' = [exact EXCEPT ![s] = @ /\ it.gap = it.span - last[s] - 1]
       /\ \/ /\ outcome = "nomatch"
             /\ carried' = [carried EXCEPT ![s] = @ + it.gap]
             /\ skipped' = [skipped EXCEPT ![s] = @ + 1]
             /\ UNCHANGED sent
          \/ /\ outcome = "unmarshalable"
             /\ carried' = [carried EXCEPT ![s] = @ + it.gap + 1]
             /\ UNCHANGED <<sent, skipped>>
          \/ /\ outcome = "match"
             /\ sent' = [sent EXCEPT ![s] = @ + 1 + it.gap + carried[s]]
             /\ carried' = [carried EXCEPT ![s] = 0]
             /\ UNCHANGED skipped
    /\ UNCHANGED <<count, ringVars, state, gap, since, deliverVars, panicked>>

Deliver == DeliverEvict \/ DeliverResend \/ AppendUnlock \/ \E s \in Subs : DeliverTry(s)

Next ==
    \/ AppendWrite \/ Deliver
    \/ \E s \in Subs : Subscribe(s) \/ Cancel(s)
    \/ \E s \in Subs, o \in {"match", "nomatch", "unmarshalable"} : Receive(s, o)

Spec == Init /\ [][Next]_vars

-----------------------------------------------------------------------------
Deliveries == [span : 1..MaxSpans, gap : Nat]

\* Every variable has its type; a channel holds at most Buffer deliveries.
TypeOK ==
    /\ count \in 0..MaxSpans /\ buf \in [0..Capacity-1 -> 0..MaxSpans]
    /\ head \in 0..Capacity-1 /\ full \in BOOLEAN
    /\ state \in [Subs -> {"new", "subscribed", "closed"}]
    /\ ch \in [Subs -> Seq(Deliveries)] /\ \A s \in Subs : Len(ch[s]) <= Buffer
    /\ gap \in [Subs -> Nat] /\ since \in [Subs -> 0..MaxSpans]
    /\ todo \in SUBSET Subs /\ step \in {"idle", "next", "evict", "resend"}
    /\ item \in [sub : Subs, gap : Nat]
    /\ carried \in [Subs -> Nat] /\ sent \in [Subs -> Nat] /\ skipped \in [Subs -> Nat]
    /\ last \in [Subs -> 0..MaxSpans] /\ exact \in [Subs -> BOOLEAN]
    /\ panicked \in BOOLEAN

\* append never sends on a channel that cancel has closed: both hold b.mu.
NoSendOnClosed == ~panicked

\* 1 + Gap summed over the first n deliveries of a queue, for every n.
Sums(q) ==
    LET sum[n \in 0..Len(q)] == IF n = 0 THEN 0 ELSE sum[n - 1] + q[n].gap + 1
    IN  sum

\* 1 + Gap summed over the deliveries queued for s.
Queued(s) == Sums(ch[s])[Len(ch[s])]

\* What the append in progress still holds for s.
InHand(s) ==
    IF step \in {"evict", "resend"} /\ item.sub = s THEN item.gap + 1
    ELSE IF step # "idle" /\ s \in todo THEN 1 ELSE 0

\* No span is lost silently: for a live subscriber every span appended since it
\* subscribed is an event it was sent, a span its filter refused, a delivery in
\* its channel, or counted exactly once in some gap (of an event sent, of a
\* queued delivery, sub.gap or carriedGap), at every step of the fan-out.
NothingLost ==
    \A s \in Subscribed :
        count - since[s] = sent[s] + skipped[s] + carried[s]
                           + Queued(s) + gap[s] + InHand(s)

\* After the eviction there is room, because everyone else only drains: append's
\* comment says its last default case is "only reachable with a zero-capacity
\* channel", so the newest span always enters the channel.
SecondSendSucceeds == step = "resend" => Len(ch[item.sub]) < Buffer

\* The ring as Range reads it, oldest first.
Window ==
    LET n == IF full THEN Capacity ELSE head
        start == IF full THEN head ELSE 0
    IN [i \in 1..n |-> buf[(start + i - 1) % Capacity]]

Abstract == INSTANCE SpanWindow WITH window <- Window, Spans <- 1..MaxSpans

\* head, full and the wrapped writes implement "the last Capacity spans".
KeepsLastSpans == Abstract!Spec

\* StreamItem's comment: "Gap counts spans dropped for THIS subscriber since its
\* previous delivery", and Subscribe's: a slow consumer "sees the loss as Gap on
\* its next delivery".
GapOnNextDelivery == \A s \in Subs : exact[s]
=============================================================================
