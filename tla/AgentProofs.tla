---------------------------- MODULE AgentProofs ----------------------------
(***************************************************************************)
(* Theorems about the node agent's producers, for every value of the       *)
(* constants.  SpanRing: the ring implements SpanWindow, append never sends *)
(* on a closed channel, its second send always finds room, and every span  *)
(* is accounted for.  CaptureBridge: no send on the closed Events channel, *)
(* and no reload request lost.                                             *)
(***************************************************************************)
EXTENDS SpanRing, CaptureBridge, WellFoundedInduction, TLAPS

(* Indices of the ring: sums of two indices wrap at most once.              *)

\* An index below the capacity is its own remainder.
LEMMA ModSmall ==
    ASSUME NEW a \in Nat, NEW c \in Nat \ {0}, a < c PROVE a % c = a
  BY SMT

\* An index that wrapped once.
LEMMA ModWrap ==
    ASSUME NEW a \in Nat, NEW c \in Nat \ {0}, a >= c, a < 2 * c PROVE a % c = a - c
  BY SMT

\* The types of the ring proper.
RingOK ==
    /\ count \in 0..MaxSpans /\ buf \in [0..Capacity-1 -> 0..MaxSpans]
    /\ head \in 0..Capacity-1 /\ full \in BOOLEAN

\* Only append touches the ring.
LEMMA RingFrame == [Next]_vars => AppendWrite \/ UNCHANGED <<count, ringVars>>
  BY Zenon DEF Next, vars, Deliver, DeliverTry, DeliverEvict, DeliverResend, AppendUnlock,
     Subscribe, Cancel, Receive, ringVars

\* The ring's variables keep their types: head stays an index of buf.
LEMMA RingTyped == Spec => []RingOK
<1>1. Init => RingOK
  <2>1. Init => count \in 0..MaxSpans /\ buf \in [0..Capacity-1 -> 0..MaxSpans]
                /\ head \in 0..Capacity-1
    BY CapacityAssumption, MaxSpansAssumption DEF Init
  <2>2. Init => full \in BOOLEAN
    BY Zenon DEF Init
  <2> QED BY <2>1, <2>2, ZenonT(30) DEF RingOK
<1>2. RingOK /\ [Next]_vars => RingOK'
  <2> SUFFICES ASSUME RingOK, [Next]_vars PROVE RingOK'
    OBVIOUS
  <2>1. CASE AppendWrite
    <3>1. full' \in BOOLEAN
      BY <2>1, Zenon DEF AppendWrite
    <3>2. head + 1 \in Nat /\ head' = (head + 1) % Capacity
      BY <2>1, CapacityAssumption DEF AppendWrite, RingOK
    <3>3. head' \in 0..Capacity-1
      BY <3>2, CapacityAssumption, SMT
    <3>4. count' \in 0..MaxSpans /\ buf' \in [0..Capacity-1 -> 0..MaxSpans]
      BY <2>1, CapacityAssumption, MaxSpansAssumption DEF AppendWrite, RingOK
    <3> QED BY <3>1, <3>3, <3>4, ZenonT(30) DEF RingOK
  <2>2. CASE UNCHANGED <<count, ringVars>>
    BY <2>2, ZenonT(30) DEF RingOK, ringVars
  <2> QED BY <2>1, <2>2, RingFrame, ZenonT(30)
<1> QED BY <1>1, <1>2, PTL DEF Spec

-----------------------------------------------------------------------------
(* The ring implements "the last Capacity spans".                           *)

\* One append shifts the window that Range reads: the three cases are a ring
\* that is still filling, one that fills up now, and one that wraps.
LEMMA AppendShifts ==
    ASSUME RingOK, AppendWrite
    PROVE  Window' = Abstract!LastOf(Append(Window, count + 1), Capacity)
<1> DEFINE x == count + 1
<1> SUFFICES Window' = Abstract!LastOf(Append(Window, x), Capacity)
  OBVIOUS
<1>0. /\ Capacity \in Nat /\ Capacity >= 1 /\ head \in Nat /\ head < Capacity
      /\ x \in Nat /\ buf \in [0..Capacity-1 -> Nat]
  BY CapacityAssumption, MaxSpansAssumption DEF RingOK
<1> HIDE DEF x
<1>a. \A a \in Nat : a < Capacity => a % Capacity = a
  BY CapacityAssumption, ModSmall, ZenonT(30)
<1>b. \A a \in Nat : a >= Capacity /\ a < 2 * Capacity => a % Capacity = a - Capacity
  BY CapacityAssumption, ModWrap, ZenonT(30)
<1>c. ASSUME NEW i \in 1..Capacity
      PROVE  \/ head + i < Capacity /\ (head + i) % Capacity = head + i
             \/ head + i >= Capacity /\ (head + i) % Capacity = head + i - Capacity
  <2>1. head + i \in Nat /\ head + i < 2 * Capacity
    BY <1>0
  <2>2. PICK a \in Nat : a = head + i
    BY <2>1, ZenonT(30)
  <2>3. a < 2 * Capacity
    BY <2>1, <2>2, ZenonT(30)
  <2>4. \/ a < Capacity /\ a % Capacity = a
        \/ a >= Capacity /\ a % Capacity = a - Capacity
    <3>1. CASE a < Capacity
      BY <3>1, CapacityAssumption, ModSmall, ZenonT(30)
    <3>2. CASE a >= Capacity
      BY <2>3, <3>2, CapacityAssumption, ModWrap, ZenonT(30)
    <3> QED BY <1>0, <3>1, <3>2
  <2> QED BY <1>0, <2>2, <2>4
<1>1. /\ buf' = [buf EXCEPT ![head] = x] /\ head' = (head + 1) % Capacity
      /\ full' <=> (full \/ head' = 0)
  BY Zenon DEF AppendWrite, x
<1>2. \A i \in 0..Capacity-1 : buf'[i] = IF i = head THEN x ELSE buf[i]
  BY <1>0, <1>1, ZenonT(30)
<1>3. CASE ~full /\ head + 1 < Capacity
  <2>1. head' = head + 1 /\ ~full'
    BY <1>0, <1>1, <1>3, <1>a
  <2>2. Window = [i \in 1..head |-> buf[i - 1]]
    <3>1. ASSUME NEW i \in 1..head PROVE (0 + i - 1) % Capacity = i - 1
      <4>1. 0 + i - 1 = i - 1 /\ i - 1 \in Nat /\ i - 1 < Capacity
        BY <1>0
      <4> QED BY <4>1, <1>a, ZenonT(30)
    <3> QED BY <1>3, <3>1, ZenonT(30) DEF Window
  <2>3. Window' = [i \in 1..head+1 |-> buf'[i - 1]]
    <3>1. \A i \in 1..head+1 : (0 + i - 1) % Capacity = i - 1
      BY <1>0, <1>3, <1>a
    <3> QED BY <2>1, <3>1, ZenonT(30) DEF Window
  <2>4. Window \in Seq(Nat) /\ Len(Window) = head
    BY <1>0, <2>2
  <2>5. Append(Window, x) = [i \in 1..head+1 |-> IF i = head + 1 THEN x ELSE buf[i - 1]]
    <3> DEFINE a == Append(Window, x)
    <3>1. /\ a \in Seq(Nat) /\ Len(a) = head + 1 /\ a[head + 1] = x
          /\ \A i \in 1..head : a[i] = Window[i]
      BY <1>0, <2>4
    <3> HIDE DEF a
    <3>2. a = [i \in 1..head+1 |-> a[i]]
      BY <1>0, <3>1
    <3>3. \A i \in 1..head+1 : a[i] = IF i = head + 1 THEN x ELSE buf[i - 1]
      BY <1>0, <2>2, <3>1
    <3>4. a = [i \in 1..head+1 |-> IF i = head + 1 THEN x ELSE buf[i - 1]]
      BY <3>2, <3>3, ZenonT(30)
    <3> QED BY <3>4, ZenonT(30) DEF a
  <2>6. Window' = Append(Window, x)
    BY <1>0, <1>2, <1>3, <2>3, <2>5
  <2>7. Len(Append(Window, x)) = head + 1
    BY <1>0, <2>4
  <2> QED BY <1>0, <1>3, <2>6, <2>7 DEF Abstract!LastOf
<1>4. CASE ~full /\ head + 1 = Capacity
  <2>1. head' = 0 /\ full'
    BY <1>0, <1>1, <1>4, <1>b
  <2>2. Window = [i \in 1..head |-> buf[i - 1]]
    <3>1. ASSUME NEW i \in 1..head PROVE (0 + i - 1) % Capacity = i - 1
      <4>1. 0 + i - 1 = i - 1 /\ i - 1 \in Nat /\ i - 1 < Capacity
        BY <1>0
      <4> QED BY <4>1, <1>a, ZenonT(30)
    <3> QED BY <1>4, <3>1, ZenonT(30) DEF Window
  <2>3. Window' = [i \in 1..Capacity |-> buf'[i - 1]]
    <3>1. \A i \in 1..Capacity : (0 + i - 1) % Capacity = i - 1
      BY <1>0, <1>a
    <3> QED BY <2>1, <3>1, ZenonT(30) DEF Window
  <2>4. Window \in Seq(Nat) /\ Len(Window) = head
    BY <1>0, <2>2
  <2>5. Append(Window, x) = [i \in 1..head+1 |-> IF i = head + 1 THEN x ELSE buf[i - 1]]
    <3> DEFINE a == Append(Window, x)
    <3>1. /\ a \in Seq(Nat) /\ Len(a) = head + 1 /\ a[head + 1] = x
          /\ \A i \in 1..head : a[i] = Window[i]
      BY <1>0, <2>4
    <3> HIDE DEF a
    <3>2. a = [i \in 1..head+1 |-> a[i]]
      BY <1>0, <3>1
    <3>3. \A i \in 1..head+1 : a[i] = IF i = head + 1 THEN x ELSE buf[i - 1]
      BY <1>0, <2>2, <3>1
    <3>4. a = [i \in 1..head+1 |-> IF i = head + 1 THEN x ELSE buf[i - 1]]
      BY <3>2, <3>3, ZenonT(30)
    <3> QED BY <3>4, ZenonT(30) DEF a
  <2>6. Window' = Append(Window, x)
    BY <1>0, <1>2, <1>4, <2>3, <2>5
  <2>7. Len(Append(Window, x)) = head + 1
    BY <1>0, <2>4
  <2> QED BY <1>0, <1>4, <2>6, <2>7 DEF Abstract!LastOf
<1>5. CASE full
  <2>1. full' /\ head' = IF head + 1 = Capacity THEN 0 ELSE head + 1
    <3>1. CASE head + 1 = Capacity
      BY <1>0, <1>1, <1>5, <1>b, <3>1
    <3>2. CASE head + 1 < Capacity
      BY <1>0, <1>1, <1>5, <1>a, <3>2
    <3> QED BY <1>0, <3>1, <3>2
  <2>2. Window = [i \in 1..Capacity |-> buf[(head + i - 1) % Capacity]]
    BY <1>5, ZenonT(30) DEF Window
  <2>3. Window' = [i \in 1..Capacity |-> buf'[(head' + i - 1) % Capacity]]
    BY <2>1, ZenonT(30) DEF Window
  <2>4. Window \in Seq(Nat) /\ Len(Window) = Capacity
    <3>1. ASSUME NEW i \in 1..Capacity PROVE (head + i - 1) % Capacity \in 0..Capacity-1
      <4>1. head + i - 1 \in Nat
        BY <1>0
      <4> QED BY <4>1, CapacityAssumption, SMT
    <3> QED BY <1>0, <2>2, <3>1
  <2>5. /\ Append(Window, x) \in Seq(Nat) /\ Len(Append(Window, x)) = Capacity + 1
        /\ \A i \in 1..Capacity : Append(Window, x)[i] = Window[i]
        /\ Append(Window, x)[Capacity + 1] = x
    BY <1>0, <2>4
  <2>6. Abstract!LastOf(Append(Window, x), Capacity)
          = SubSeq(Append(Window, x), 2, Capacity + 1)
    BY <1>0, <2>5, SMTT(30) DEF Abstract!LastOf
  <2>7. SubSeq(Append(Window, x), 2, Capacity + 1)
          = [i \in 1..Capacity |-> Append(Window, x)[i + 1]]
    BY <1>0, <2>5
  <2>8. ASSUME NEW i \in 1..Capacity
        PROVE  buf'[(head' + i - 1) % Capacity] = Append(Window, x)[i + 1]
    <3> DEFINE r == (head + i) % Capacity
    <3>1. (head' + i - 1) % Capacity = r
      <4>1. CASE head + 1 = Capacity
        <5>1. head' + i - 1 = i - 1 /\ i - 1 \in Nat /\ i - 1 < Capacity
          BY <1>0, <2>1, <4>1
        <5>2. (i - 1) % Capacity = i - 1
          BY <5>1, <1>a, ZenonT(30)
        <5>3. r = i - 1
          BY <1>0, <1>c, <4>1
        <5> QED BY <5>1, <5>2, <5>3, ZenonT(30)
      <4>2. CASE head + 1 < Capacity
        <5>1. head' + i - 1 = head + i
          BY <1>0, <2>1, <4>2
        <5> QED BY <5>1, ZenonT(30)
      <4> QED BY <1>0, <4>1, <4>2
    <3>2. r \in 0..Capacity-1 /\ (r = head <=> i = Capacity)
      BY <1>0, <1>c
    <3>3. CASE i = Capacity
      BY <1>2, <2>5, <3>1, <3>2, <3>3, ZenonT(30)
    <3>4. CASE i < Capacity
      <4>1. head + (i + 1) - 1 = head + i /\ i + 1 \in 1..Capacity
        BY <1>0, <3>4
      <4>2. (head + (i + 1) - 1) % Capacity = r
        BY <4>1, ZenonT(30)
      <4>3. Append(Window, x)[i + 1] = buf[r]
        BY <2>2, <2>5, <4>1, <4>2, ZenonT(30)
      <4>4. buf'[r] = buf[r]
        BY <1>0, <1>2, <3>2, <3>4
      <4> QED BY <3>1, <4>3, <4>4, ZenonT(30)
    <3>5. i = Capacity \/ i < Capacity
      BY <1>0
    <3> QED BY <3>3, <3>4, <3>5, ZenonT(30)
  <2> QED BY <2>3, <2>6, <2>7, <2>8, ZenonT(30)
<1> QED BY <1>0, <1>3, <1>4, <1>5

\* head, full and the modular writes implement the abstract buffer that keeps
\* the last Capacity spans, for every capacity.
THEOREM RingKeepsLastSpans == Spec => KeepsLastSpans
<1>1. Init => Abstract!Init
  <2>1. Init => Window = [i \in 1..0 |-> buf[(0 + i - 1) % Capacity]]
    BY ZenonT(30) DEF Init, Window
  <2>2. \A f : f = [i \in 1..0 |-> buf[(0 + i - 1) % Capacity]] => f = <<>>
    OBVIOUS
  <2> QED BY <2>1, <2>2, ZenonT(30) DEF Abstract!Init
<1>2. RingOK /\ [Next]_vars => [Abstract!Next]_Window
  <2> SUFFICES ASSUME RingOK, [Next]_vars PROVE [Abstract!Next]_Window
    OBVIOUS
  <2>1. CASE AppendWrite
    <3>1. count + 1 \in 1..MaxSpans
      BY <2>1, MaxSpansAssumption DEF AppendWrite, RingOK
    <3>2. Window' = Abstract!LastOf(Append(Window, count + 1), Capacity)
      BY <2>1, AppendShifts, ZenonT(30)
    <3> QED BY <3>1, <3>2, ZenonT(30) DEF Abstract!Next, Abstract!Append1
  <2>2. CASE UNCHANGED <<count, ringVars>>
    BY <2>2, ZenonT(30) DEF ringVars, Window
  <2> QED BY <2>1, <2>2, RingFrame, ZenonT(30)
<1> QED BY <1>1, <1>2, RingTyped, PTL DEF Spec, KeepsLastSpans, Abstract!Spec

-----------------------------------------------------------------------------
(* The fan-out.  The consumers only drain, and the subscribers an append    *)
(* still has to serve cannot be cancelled meanwhile.                        *)

\* The types of what the fan-out uses.
ChanOK ==
    /\ count \in 0..MaxSpans
    /\ state \in [Subs -> {"new", "subscribed", "closed"}]
    /\ ch \in [Subs -> Seq(Deliveries)] /\ \A s \in Subs : Len(ch[s]) <= Buffer
    /\ gap \in [Subs -> Nat] /\ todo \in SUBSET Subs
    /\ step \in {"idle", "next", "evict", "resend"}

\* Everyone the append in progress still has to serve is subscribed.
ServesSubscribed ==
    /\ step # "idle" => count >= 1 /\ \A s \in todo : state[s] = "subscribed"
    /\ step \in {"evict", "resend"} =>
           /\ item.sub \in Subs /\ item.gap \in Nat
           /\ state[item.sub] = "subscribed" /\ item.sub \notin todo

SendInv == ChanOK /\ ServesSubscribed /\ NoSendOnClosed /\ SecondSendSucceeds

\* What Tail does to a queue of deliveries, element by element.
LEMMA TailFacts ==
    ASSUME NEW q \in Seq(Deliveries), q # <<>>
    PROVE  /\ Tail(q) \in Seq(Deliveries) /\ Len(q) \in Nat /\ Len(q) >= 1
           /\ Len(Tail(q)) = Len(q) - 1
           /\ Head(q) = q[1] /\ Head(q) \in Deliveries
           /\ \A i \in 1..Len(q)-1 : Tail(q)[i] = q[i + 1]
  OBVIOUS

\* What Append does to a queue of deliveries, element by element.
LEMMA AppendFacts ==
    ASSUME NEW q \in Seq(Deliveries), NEW d \in Deliveries
    PROVE  /\ Append(q, d) \in Seq(Deliveries) /\ Len(q) \in Nat
           /\ Len(Append(q, d)) = Len(q) + 1
           /\ \A i \in 1..Len(q) : Append(q, d)[i] = q[i]
           /\ Append(q, d)[Len(q) + 1] = d
  OBVIOUS

\* A delivery of the current span is well typed during an append.
LEMMA DeliveryTyped ==
    ASSUME count \in 0..MaxSpans, count >= 1, NEW g \in Nat
    PROVE  [span |-> count, gap |-> g] \in Deliveries
  BY MaxSpansAssumption DEF Deliveries

\* Init establishes the invariant of the fan-out.
LEMMA SendInit == Init => SendInv
<1> SUFFICES ASSUME Init PROVE SendInv
  OBVIOUS
<1>1. <<>> \in Seq(Deliveries) /\ Len(<<>>) = 0
  OBVIOUS
<1>2. ch \in [Subs -> Seq(Deliveries)] /\ \A s \in Subs : Len(ch[s]) <= Buffer
  BY <1>1, BufferAssumption DEF Init
<1>3. ChanOK
  BY <1>2, MaxSpansAssumption DEF Init, ChanOK
<1>4. NoSendOnClosed
  BY Zenon DEF Init, NoSendOnClosed
<1> QED BY <1>3, <1>4, ZenonT(30) DEF Init, SendInv, ServesSubscribed, SecondSendSucceeds

\* Every step keeps it.
LEMMA SendStep == SendInv /\ [Next]_vars => SendInv'
<1> SUFFICES ASSUME SendInv, [Next]_vars PROVE SendInv'
  OBVIOUS
<1> USE DEF ringVars, subVars, deliverVars, handlerVars
<1>0. ChanOK /\ ServesSubscribed /\ ~panicked /\ SecondSendSucceeds
  BY ZenonT(30) DEF SendInv, NoSendOnClosed
<1>1. CASE AppendWrite
  <2>1. UNCHANGED <<state, ch, gap, panicked>> /\ count' = count + 1 /\ count < MaxSpans
        /\ todo' = Subscribed /\ step' = "next"
    BY <1>1, ZenonT(30) DEF AppendWrite
  <2>2. ChanOK'
    BY <1>0, <2>1, MaxSpansAssumption DEF ChanOK, Subscribed
  <2>3. ServesSubscribed'
    BY <1>0, <2>1, MaxSpansAssumption DEF ServesSubscribed, Subscribed, ChanOK
  <2> QED BY <1>0, <2>1, <2>2, <2>3, ZenonT(30) DEF SendInv, NoSendOnClosed, SecondSendSucceeds
<1>2. ASSUME NEW s \in Subs, DeliverTry(s) PROVE SendInv'
  <2>1. /\ step = "next" /\ s \in todo /\ todo' = todo \ {s} /\ UNCHANGED <<count, state>>
        /\ gap' = [gap EXCEPT ![s] = 0] /\ state[s] = "subscribed" /\ count >= 1
    BY <1>0, <1>2, ZenonT(30) DEF DeliverTry, ServesSubscribed
  <2>2. CASE Len(ch[s]) < Buffer
    <3> DEFINE d == [span |-> count, gap |-> gap[s]]
    <3>1. /\ ch' = [ch EXCEPT ![s] = Append(@, d)] /\ UNCHANGED <<panicked, step, item>>
      BY <1>2, <2>1, <2>2, ZenonT(30) DEF DeliverTry, ChanSend
    <3>2. d \in Deliveries
      BY <1>0, <2>1, DeliveryTyped, ZenonT(30) DEF ChanOK
    <3>3. Append(ch[s], d) \in Seq(Deliveries) /\ Len(Append(ch[s], d)) <= Buffer
      <4> HIDE DEF d
      <4> QED BY <1>0, <2>2, <3>2, AppendFacts, BufferAssumption DEF ChanOK
    <3>4. ChanOK'
      <4> HIDE DEF d
      <4> QED BY <1>0, <2>1, <3>1, <3>3, ZenonT(30) DEF ChanOK
    <3> QED BY <1>0, <2>1, <3>1, <3>4, ZenonT(30)
        DEF SendInv, ServesSubscribed, NoSendOnClosed, SecondSendSucceeds
  <2>3. CASE ~(Len(ch[s]) < Buffer)
    <3>1. step' = "evict" /\ item' = [sub |-> s, gap |-> gap[s]] /\ UNCHANGED <<ch, panicked>>
      BY <1>2, <2>3, ZenonT(30) DEF DeliverTry
    <3> QED BY <1>0, <2>1, <3>1, ZenonT(30)
        DEF SendInv, ChanOK, ServesSubscribed, NoSendOnClosed, SecondSendSucceeds
  <2> QED BY <2>2, <2>3, ZenonT(30)
<1>3. CASE DeliverEvict
  <2> DEFINE s == item.sub
  <2>1. /\ step = "evict" /\ step' = "resend" /\ UNCHANGED <<count, state, gap, todo, panicked>>
        /\ s \in Subs /\ item.gap \in Nat /\ state[s] = "subscribed" /\ s \notin todo
        /\ count >= 1
    BY <1>0, <1>3, ZenonT(30) DEF DeliverEvict, ServesSubscribed
  <2>2. CASE ch[s] # <<>>
    <3>1. /\ item' = [item EXCEPT !.gap = @ + Head(ch[s]).gap + 1]
          /\ ch' = [ch EXCEPT ![s] = Tail(@)]
      BY <1>3, <2>2, ZenonT(30) DEF DeliverEvict
    <3>2. /\ Tail(ch[s]) \in Seq(Deliveries) /\ Len(Tail(ch[s])) < Buffer
          /\ Len(Tail(ch[s])) <= Buffer /\ Head(ch[s]) \in Deliveries
      BY <1>0, <2>1, <2>2, TailFacts, BufferAssumption DEF ChanOK
    <3>3. item'.sub = s /\ item'.gap \in Nat
      <4>1. Head(ch[s]).gap \in Nat
        BY <3>2, ZenonT(30) DEF Deliveries
      <4>2. item'.sub = s /\ item'.gap = item.gap + Head(ch[s]).gap + 1
        BY <1>0, <3>1
      <4> QED BY <2>1, <4>1, <4>2
    <3>4. ChanOK'
      <4> HIDE DEF s
      <4>1. ch' \in [Subs -> Seq(Deliveries)] /\ \A t \in Subs : Len(ch'[t]) <= Buffer
        BY <1>0, <2>1, <3>1, <3>2, ZenonT(30) DEF ChanOK
      <4> QED BY <1>0, <2>1, <4>1, ZenonT(30) DEF ChanOK
    <3>5. SecondSendSucceeds'
      BY <1>0, <2>1, <3>1, <3>2, <3>3, ZenonT(30) DEF SecondSendSucceeds, ChanOK
    <3> QED BY <1>0, <2>1, <3>3, <3>4, <3>5, ZenonT(30) DEF SendInv, ServesSubscribed, NoSendOnClosed
  <2>3. CASE ch[s] = <<>>
    <3>1. UNCHANGED <<item, ch>>
      BY <1>3, <2>3, ZenonT(30) DEF DeliverEvict
    <3>2. Len(ch[s]) = 0
      BY <2>3
    <3> QED BY <1>0, <2>1, <3>1, <3>2, BufferAssumption
        DEF SendInv, ChanOK, ServesSubscribed, NoSendOnClosed, SecondSendSucceeds
  <2> QED BY <2>2, <2>3, ZenonT(30)
<1>4. CASE DeliverResend
  <2> DEFINE s == item.sub
             d == [span |-> count, gap |-> item.gap]
  <2>1. /\ step = "resend" /\ step' = "next" /\ UNCHANGED <<count, state, todo>>
        /\ s \in Subs /\ item.gap \in Nat /\ state[s] = "subscribed" /\ count >= 1
        /\ Len(ch[s]) < Buffer
    BY <1>0, <1>4, ZenonT(30) DEF DeliverResend, ServesSubscribed, SecondSendSucceeds
  <2>2. ch' = [ch EXCEPT ![s] = Append(@, d)] /\ UNCHANGED <<panicked, gap>>
    BY <1>4, <2>1, ZenonT(30) DEF DeliverResend, ChanSend
  <2>3. d \in Deliveries
    BY <1>0, <2>1, DeliveryTyped, ZenonT(30) DEF ChanOK
  <2>4. Append(ch[s], d) \in Seq(Deliveries) /\ Len(Append(ch[s], d)) <= Buffer
    <3> HIDE DEF d
    <3> QED BY <1>0, <2>1, <2>3, AppendFacts, BufferAssumption DEF ChanOK
  <2>5. ChanOK'
    <3> HIDE DEF d
    <3> QED BY <1>0, <2>1, <2>2, <2>4, ZenonT(30) DEF ChanOK
  <2> QED BY <1>0, <2>1, <2>2, <2>5, ZenonT(30)
      DEF SendInv, ServesSubscribed, NoSendOnClosed, SecondSendSucceeds
<1>5. CASE AppendUnlock
  BY <1>0, <1>5, ZenonT(30)
  DEF AppendUnlock, SendInv, ChanOK, ServesSubscribed, NoSendOnClosed, SecondSendSucceeds
<1>6. ASSUME NEW s \in Subs, Subscribe(s) \/ Cancel(s) PROVE SendInv'
  <2>1. /\ step = "idle" /\ UNCHANGED <<count, ch, gap, todo, step, item, panicked>>
        /\ \E x \in {"subscribed", "closed"} : state' = [state EXCEPT ![s] = x]
    BY <1>6, ZenonT(30) DEF Subscribe, Cancel, LockFree
  <2>2. ChanOK'
    BY <1>0, <2>1, ZenonT(30) DEF ChanOK
  <2> QED BY <1>0, <2>1, <2>2, ZenonT(30)
      DEF SendInv, ServesSubscribed, NoSendOnClosed, SecondSendSucceeds
<1>7. ASSUME NEW s \in Subs, NEW o \in {"match", "nomatch", "unmarshalable"}, Receive(s, o)
      PROVE  SendInv'
  <2>1. /\ ch[s] # <<>> /\ ch' = [ch EXCEPT ![s] = Tail(@)]
        /\ UNCHANGED <<count, state, gap, todo, step, item, panicked>>
    BY <1>7, ZenonT(30) DEF Receive
  <2>2. Tail(ch[s]) \in Seq(Deliveries) /\ Len(Tail(ch[s])) = Len(ch[s]) - 1
        /\ Len(ch[s]) \in Nat
    BY <1>0, <2>1, TailFacts, ZenonT(30) DEF ChanOK
  <2>3. \A t \in Subs : ch'[t] = IF t = s THEN Tail(ch[s]) ELSE ch[t]
    BY <1>0, <2>1, ZenonT(30) DEF ChanOK
  <2>4. ChanOK'
    BY <1>0, <2>1, <2>2, BufferAssumption DEF ChanOK
  <2>5. SecondSendSucceeds'
    BY <1>0, <2>1, <2>2, <2>3, BufferAssumption DEF SecondSendSucceeds, ServesSubscribed
  <2> QED BY <1>0, <2>1, <2>4, <2>5, ZenonT(30) DEF SendInv, ServesSubscribed, NoSendOnClosed
<1>8. CASE UNCHANGED vars
  BY <1>0, <1>8, ZenonT(30)
  DEF vars, SendInv, ChanOK, ServesSubscribed, NoSendOnClosed, SecondSendSucceeds
<1> QED BY <1>1, <1>2, <1>3, <1>4, <1>5, <1>6, <1>7, <1>8, ZenonT(30) DEF Next, Deliver

\* append never sends on a channel that cancel has closed.
THEOREM RingNeverSendsOnClosed == Spec => []NoSendOnClosed
<1>1. SendInv => NoSendOnClosed
  BY ZenonT(30) DEF SendInv
<1> QED BY <1>1, SendInit, SendStep, PTL DEF Spec

\* After the eviction append's second send finds room, for every channel of
\* capacity at least one: the newest span is never the one that is dropped.
THEOREM SecondSendAlwaysSucceeds == Spec => []SecondSendSucceeds
<1>1. SendInv => SecondSendSucceeds
  BY ZenonT(30) DEF SendInv
<1> QED BY <1>1, SendInit, SendStep, PTL DEF Spec

-----------------------------------------------------------------------------
(* Induction.  The library states it for an operator; stated for a set it   *)
(* can be applied, and follows from the well-foundedness of the naturals.   *)

\* A nonempty set of naturals has a least element.
LEMMA LeastNatural ==
    ASSUME NEW T, T \subseteq Nat, T # {}
    PROVE  \E x \in T : \A y \in T : x <= y
<1> DEFINE R == OpToRel(<, Nat)
<1>1. PICK x \in T : \A y \in T : ~ (<<y, x>> \in R)
  <2>1. IsWellFoundedOn(R, Nat)
    BY NatLessThanWellFounded, ZenonT(30)
  <2> HIDE DEF R
  <2> QED BY <2>1, WFMin, ZenonT(30)
<1>2. \A y \in T : ~ (y < x)
  BY <1>1, ZenonT(30) DEF OpToRel
<1>3. x \in Nat /\ \A y \in T : y \in Nat
  OBVIOUS
<1>4. \A y \in T : x <= y
  BY <1>2, <1>3
<1> QED BY <1>4, ZenonT(30)

\* A set that holds 0 and is closed under successor holds every natural.
LEMMA SetInduction ==
    ASSUME NEW T, 0 \in T, \A n \in Nat : n \in T => n + 1 \in T
    PROVE  \A n \in Nat : n \in T
<1> SUFFICES ASSUME \E n \in Nat : n \notin T PROVE FALSE
  OBVIOUS
<1> DEFINE S == {n \in Nat : n \notin T}
<1>1. PICK x \in S : \A y \in S : x <= y
  <2>1. S \subseteq Nat /\ S # {}
    OBVIOUS
  <2> HIDE DEF S
  <2> QED BY <2>1, LeastNatural, ZenonT(30)
<1>2. x # 0 /\ x - 1 \in Nat /\ x - 1 \notin S
  BY <1>1
<1> QED BY <1>2

-----------------------------------------------------------------------------
(* The sum over a queue: the recursive definition has a solution, and what  *)
(* sending to the queue and receiving from it do to it.                     *)

\* f holds the sums over the first 0 .. n deliveries of q.
IsSum(f, q, n) == f = [i \in 0..n |-> IF i = 0 THEN 0 ELSE f[i - 1] + q[i].gap + 1]

\* What a queue of deliveries holds.
LEMMA QueueType ==
    ASSUME NEW q \in Seq(Deliveries)
    PROVE  Len(q) \in Nat /\ \A i \in 1..Len(q) : q[i].gap \in Nat
<1>1. Len(q) \in Nat /\ \A i \in 1..Len(q) : q[i] \in Deliveries
  OBVIOUS
<1>2. \A d \in Deliveries : d.gap \in Nat
  BY ZenonT(30) DEF Deliveries
<1> QED BY <1>1, <1>2, ZenonT(30)

\* The sums exist, prefix by prefix.
LEMMA SumsExist ==
    ASSUME NEW q \in Seq(Deliveries)
    PROVE  \E f \in [0..Len(q) -> Nat] : IsSum(f, q, Len(q))
<1> DEFINE T == {n \in Nat : n <= Len(q) => \E f \in [0..n -> Nat] : IsSum(f, q, n)}
<1>0. Len(q) \in Nat /\ \A i \in 1..Len(q) : q[i].gap \in Nat
  BY QueueType, ZenonT(30)
<1>1. 0 \in T
  <2> DEFINE g == [i \in 0..0 |-> 0]
  <2>1. g \in [0..0 -> Nat] /\ IsSum(g, q, 0)
    BY DEF IsSum
  <2> QED BY <2>1, ZenonT(30)
<1>2. \A n \in Nat : n \in T => n + 1 \in T
  <2> SUFFICES ASSUME NEW n \in Nat, n \in T, n + 1 <= Len(q)
               PROVE  \E f \in [0..n+1 -> Nat] : IsSum(f, q, n + 1)
    BY SMTT(30)
  <2>1. PICK f \in [0..n -> Nat] : IsSum(f, q, n)
    BY <1>0
  <2>2. PICK w \in Nat : w = q[n + 1].gap + 1
    <3>1. n + 1 \in 1..Len(q)
      BY <1>0
    <3>2. q[n + 1].gap + 1 \in Nat
      BY <1>0, <3>1
    <3> QED BY <3>2, ZenonT(30)
  <2> DEFINE g == [i \in 0..n+1 |-> IF i = n + 1 THEN f[n] + w ELSE f[i]]
  <2>3. g \in [0..n+1 -> Nat]
    OBVIOUS
  <2>4. \A i \in 0..n : f[i] = IF i = 0 THEN 0 ELSE f[i - 1] + q[i].gap + 1
    BY <2>1, ZenonT(30) DEF IsSum
  <2>5. \A i \in 0..n : g[i] = f[i]
    OBVIOUS
  <2>6. g[n + 1] = f[n] + w
    OBVIOUS
  <2>7. ASSUME NEW i \in 0..n+1 PROVE g[i] = IF i = 0 THEN 0 ELSE g[i - 1] + q[i].gap + 1
    <3> HIDE DEF g
    <3>1. CASE i = n + 1
      <4>1. g[i - 1] = f[n] /\ f[n] \in Nat
        BY <2>5, <3>1
      <4>2. g[i - 1] + q[i].gap + 1 = f[n] + w
        BY <4>1, <2>2, <3>1, <1>0
      <4> QED BY <2>6, <3>1, <4>2
    <3>2. CASE i # n + 1
      <4>1. i \in 0..n /\ (i # 0 => i - 1 \in 0..n)
        BY <3>2
      <4> QED BY <2>4, <2>5, <4>1, ZenonT(30)
    <3> QED BY <3>1, <3>2, ZenonT(30)
  <2> HIDE DEF g
  <2>8. IsSum(g, q, n + 1)
    BY <2>3, <2>7, ZenonT(30) DEF IsSum
  <2> QED BY <2>3, <2>8, ZenonT(30)
<1> HIDE DEF T
<1>3. Len(q) \in T
  BY <1>0, <1>1, <1>2, SetInduction, ZenonT(30)
<1> QED BY <1>3, <1>0 DEF T

\* So Sums is what its definition says.
LEMMA SumsDef ==
    ASSUME NEW q \in Seq(Deliveries)
    PROVE  /\ Sums(q)[0] = 0
           /\ \A i \in 1..Len(q) : Sums(q)[i] = Sums(q)[i - 1] + q[i].gap + 1
<1>1. \E f : f = [n \in 0..Len(q) |-> IF n = 0 THEN 0 ELSE f[n - 1] + q[n].gap + 1]
  BY SumsExist, ZenonT(30) DEF IsSum
<1>2. IsSum(Sums(q), q, Len(q))
  BY <1>1, Zenon DEF Sums, IsSum
<1> DEFINE f == Sums(q)
<1>3. f = [n \in 0..Len(q) |-> IF n = 0 THEN 0 ELSE f[n - 1] + q[n].gap + 1]
  BY <1>2, ZenonT(30) DEF IsSum
<1> HIDE DEF f
<1>4. Len(q) \in Nat
  BY QueueType, ZenonT(30)
<1>5. f[0] = 0 /\ \A i \in 1..Len(q) : f[i] = f[i - 1] + q[i].gap + 1
  BY <1>3, <1>4
<1> QED BY <1>5, ZenonT(30) DEF f

\* The sums are naturals.
LEMMA SumsType ==
    ASSUME NEW q \in Seq(Deliveries)
    PROVE  \A i \in 0..Len(q) : Sums(q)[i] \in Nat
<1> DEFINE T == {n \in Nat : n <= Len(q) => Sums(q)[n] \in Nat}
<1>1. 0 \in T
  BY SumsDef
<1>2. ASSUME NEW n \in Nat, n \in T PROVE n + 1 \in T
  <2> SUFFICES ASSUME n + 1 <= Len(q) PROVE Sums(q)[n + 1] \in Nat
    OBVIOUS
  <2>1. n + 1 \in 1..Len(q) /\ (n + 1) - 1 = n /\ Sums(q)[n] \in Nat
    BY <1>2, QueueType
  <2>2. Sums(q)[n + 1] = Sums(q)[(n + 1) - 1] + q[n + 1].gap + 1 /\ q[n + 1].gap \in Nat
    BY <2>1, SumsDef, QueueType, ZenonT(30)
  <2> QED BY <2>1, <2>2
<1> HIDE DEF T
<1>3. \A n \in Nat : n \in T
  BY <1>1, <1>2, SetInduction, ZenonT(30)
<1> QED BY <1>3, QueueType DEF T

\* Two queues that agree on a stretch have the same sums over it.
LEMMA SumsShift ==
    ASSUME NEW p \in Seq(Deliveries), NEW q \in Seq(Deliveries), NEW k \in Nat,
           Len(p) + k <= Len(q), \A i \in 1..Len(p) : p[i] = q[i + k]
    PROVE  Sums(q)[Len(p) + k] = Sums(p)[Len(p)] + Sums(q)[k]
<1> DEFINE T == {n \in Nat : n <= Len(p) => Sums(q)[n + k] = Sums(p)[n] + Sums(q)[k]}
<1>0. Len(p) \in Nat /\ Len(q) \in Nat /\ Sums(q)[k] \in Nat
  BY QueueType, SumsType
<1>1. 0 \in T
  <2>1. Sums(p)[0] = 0 /\ 0 + k = k
    BY SumsDef
  <2> QED BY <1>0, <2>1
<1>2. ASSUME NEW n \in Nat, n \in T PROVE n + 1 \in T
  <2> SUFFICES ASSUME n + 1 <= Len(p)
               PROVE  Sums(q)[n + 1 + k] = Sums(p)[n + 1] + Sums(q)[k]
    OBVIOUS
  <2>1. /\ n + 1 \in 1..Len(p) /\ (n + 1) - 1 = n
        /\ n + 1 + k \in 1..Len(q) /\ (n + 1 + k) - 1 = n + k
    <3>1. n \in Nat /\ k \in Nat /\ n + 1 <= Len(p) /\ Len(p) + k <= Len(q)
      OBVIOUS
    <3> QED BY <1>0, <3>1
  <2>2. Sums(p)[n + 1] = Sums(p)[n] + p[n + 1].gap + 1
    BY <2>1, SumsDef, ZenonT(30)
  <2>3. Sums(q)[n + 1 + k] = Sums(q)[n + k] + q[n + 1 + k].gap + 1
    BY <2>1, SumsDef, ZenonT(30)
  <2>4. Sums(q)[n + k] = Sums(p)[n] + Sums(q)[k] /\ p[n + 1] = q[n + 1 + k]
    BY <1>0, <1>2, <2>1
  <2>5. Sums(p)[n] \in Nat /\ p[n + 1].gap \in Nat
    BY <1>0, <2>1, SumsType, QueueType, SMTT(30)
  <2> QED BY <1>0, <2>2, <2>3, <2>4, <2>5, SMTT(30)
<1> HIDE DEF T
<1>3. Len(p) \in T
  BY <1>0, <1>1, <1>2, SetInduction, ZenonT(30)
<1> QED BY <1>3 DEF T

\* The sum over a whole queue: nothing for an empty one.
LEMMA EmptySum == Sums(<<>>)[Len(<<>>)] = 0
<1>1. <<>> \in Seq(Deliveries) /\ Len(<<>>) = 0
  OBVIOUS
<1> QED BY <1>1, SumsDef, ZenonT(30)

\* A send adds the delivery and its gap.
LEMMA AppendSum ==
    ASSUME NEW q \in Seq(Deliveries), NEW d \in Deliveries
    PROVE  Sums(Append(q, d))[Len(Append(q, d))] = Sums(q)[Len(q)] + d.gap + 1
<1> DEFINE r == Append(q, d)
<1>1. /\ r \in Seq(Deliveries) /\ Len(q) \in Nat /\ Len(r) = Len(q) + 1
      /\ \A i \in 1..Len(q) : q[i] = r[i] /\ i + 0 = i
      /\ r[Len(q) + 1] = d
  BY AppendFacts
<1> HIDE DEF r
<1>2. Sums(r)[0] = 0
  BY <1>1, SumsDef, ZenonT(30)
<1>3. Sums(r)[Len(q) + 0] = Sums(q)[Len(q)] + Sums(r)[0]
  BY <1>1, SumsShift
<1>4. Sums(q)[Len(q)] \in Nat
  BY <1>1, SumsType
<1>5. Len(r) \in 1..Len(r) /\ Len(r) - 1 = Len(q)
  BY <1>1
<1>6. Sums(r)[Len(r)] = Sums(r)[Len(q)] + r[Len(r)].gap + 1
  BY <1>1, <1>5, SumsDef, ZenonT(30)
<1>7. Sums(r)[Len(q)] = Sums(q)[Len(q)]
  BY <1>1, <1>2, <1>3, <1>4
<1> QED BY <1>1, <1>6, <1>7, ZenonT(30) DEF r

\* A receive takes off the head and its gap.
LEMMA TailSum ==
    ASSUME NEW q \in Seq(Deliveries), q # <<>>
    PROVE  Sums(q)[Len(q)] = Sums(Tail(q))[Len(Tail(q))] + Head(q).gap + 1
<1> DEFINE r == Tail(q)
<1>1. /\ r \in Seq(Deliveries) /\ Len(q) \in Nat /\ Len(q) >= 1 /\ Len(r) = Len(q) - 1
      /\ Head(q) = q[1] /\ \A i \in 1..Len(r) : r[i] = q[i + 1]
  BY TailFacts, ZenonT(30)
<1> HIDE DEF r
<1>2. Sums(q)[Len(r) + 1] = Sums(r)[Len(r)] + Sums(q)[1]
  <2>1. 1 \in Nat /\ Len(r) + 1 <= Len(q)
    BY <1>1
  <2> QED BY <1>1, <2>1, SumsShift, ZenonT(30)
<1>3. 1 \in 1..Len(q) /\ 1 - 1 = 0 /\ Len(r) + 1 = Len(q)
  BY <1>1
<1>4. Sums(q)[1] = 0 + q[1].gap + 1 /\ q[1].gap \in Nat
  BY <1>3, SumsDef, QueueType, ZenonT(30)
<1>5. Sums(r)[Len(r)] \in Nat
  BY <1>1, SumsType
<1> QED BY <1>1, <1>2, <1>3, <1>4, <1>5 DEF r

-----------------------------------------------------------------------------
(* Every span is accounted for.                                             *)

\* The types of the counters.
CountersOK ==
    /\ since \in [Subs -> Nat] /\ carried \in [Subs -> Nat]
    /\ sent \in [Subs -> Nat] /\ skipped \in [Subs -> Nat]

\* A subscriber that has not subscribed yet has received and owes nothing.
NewIsEmpty ==
    \A s \in Subs : state[s] = "new" =>
        /\ ch[s] = <<>> /\ gap[s] = 0 /\ carried[s] = 0
        /\ sent[s] = 0 /\ skipped[s] = 0

LossInv == SendInv /\ CountersOK /\ NewIsEmpty /\ NothingLost

\* What the stream handler has accounted for.
Handled(s) == sent[s] + skipped[s] + carried[s]

\* A subscriber's equation, as one number for the handler's part.
Balanced(s) == count - since[s] = Handled(s) + Queued(s) + gap[s] + InHand(s)

\* NothingLost is the equation of every subscriber.
LEMMA LossIsBalance == NothingLost <=> \A s \in Subscribed : Balanced(s)
  BY ZenonT(30) DEF NothingLost, Balanced, Handled

\* The terms of the equation are naturals.
LEMMA TermsType ==
    ASSUME SendInv, CountersOK, NEW s \in Subs
    PROVE  /\ Handled(s) \in Nat /\ Queued(s) \in Nat /\ gap[s] \in Nat
           /\ InHand(s) \in Nat /\ count \in Nat /\ since[s] \in Nat
<1>1. ChanOK /\ ServesSubscribed
  BY ZenonT(30) DEF SendInv
<1>2. sent[s] \in Nat /\ skipped[s] \in Nat /\ carried[s] \in Nat /\ since[s] \in Nat
  BY ZenonT(30) DEF CountersOK
<1>3. Handled(s) \in Nat
  BY <1>2 DEF Handled
<1>4. ch[s] \in Seq(Deliveries) /\ gap[s] \in Nat /\ count \in Nat
  BY <1>1, MaxSpansAssumption DEF ChanOK
<1>5. Queued(s) \in Nat
  <2>1. Len(ch[s]) \in 0..Len(ch[s])
    BY <1>4, QueueType
  <2> QED BY <1>4, <2>1, SumsType, ZenonT(30) DEF Queued
<1>6. InHand(s) \in Nat
  <2>1. CASE step \in {"evict", "resend"} /\ item.sub = s
    <3>1. InHand(s) = item.gap + 1
      BY <2>1, ZenonT(30) DEF InHand
    <3> QED BY <1>1, <2>1, <3>1 DEF ServesSubscribed
  <2>2. CASE ~(step \in {"evict", "resend"} /\ item.sub = s)
    <3>1. InHand(s) = IF step # "idle" /\ s \in todo THEN 1 ELSE 0
      BY <2>2, ZenonT(30) DEF InHand
    <3> QED BY <3>1
  <2> QED BY <2>1, <2>2, ZenonT(30)
<1> QED BY <1>2, <1>3, <1>4, <1>5, <1>6, ZenonT(30)

\* A step that leaves all of a subscriber's terms alone leaves its equation.
LEMMA BalanceFrame ==
    ASSUME NEW s \in Subs, Balanced(s), count' = count, since'[s] = since[s],
           sent'[s] = sent[s], skipped'[s] = skipped[s], carried'[s] = carried[s],
           ch'[s] = ch[s], gap'[s] = gap[s], InHand(s)' = InHand(s)
    PROVE  Balanced(s)'
  BY ZenonT(30) DEF Balanced, Handled, Queued

\* Init establishes the account.
LEMMA LossInit == Init => LossInv
<1> SUFFICES ASSUME Init PROVE LossInv
  OBVIOUS
<1>1. CountersOK /\ NewIsEmpty
  BY ZenonT(30) DEF Init, CountersOK, NewIsEmpty
<1>2. NothingLost
  BY ZenonT(30) DEF Init, NothingLost, Subscribed
<1> QED BY <1>1, <1>2, SendInit, ZenonT(30) DEF LossInv

\* append counts one span more, and holds it for every subscriber.
LEMMA AppendBalances == LossInv /\ SendInv' /\ AppendWrite => LossInv'
<1> SUFFICES ASSUME LossInv, SendInv', AppendWrite PROVE LossInv'
  OBVIOUS
<1>1. /\ step = "idle" /\ step' = "next" /\ todo' = Subscribed /\ count' = count + 1
      /\ UNCHANGED <<state, ch, gap, since, carried, sent, skipped>>
  BY ZenonT(30) DEF AppendWrite, LockFree, subVars, handlerVars
<1>2. CountersOK' /\ NewIsEmpty'
  BY <1>1, ZenonT(30) DEF LossInv, CountersOK, NewIsEmpty
<1>3. ASSUME NEW s \in Subs, state'[s] = "subscribed" PROVE Balanced(s)'
  <2>1. s \in Subscribed
    BY <1>1, <1>3, ZenonT(30) DEF Subscribed
  <2>2. Balanced(s)
    BY <2>1, LossIsBalance, ZenonT(30) DEF LossInv
  <2>3. InHand(s) = 0 /\ InHand(s)' = 1
    BY <1>1, <2>1, ZenonT(30) DEF InHand
  <2>4. Queued(s)' = Queued(s) /\ Handled(s)' = Handled(s)
    BY <1>1, ZenonT(30) DEF Queued, Handled
  <2>5. /\ Handled(s) \in Nat /\ Queued(s) \in Nat /\ gap[s] \in Nat
        /\ InHand(s) \in Nat /\ count \in Nat /\ since[s] \in Nat
    BY TermsType, ZenonT(30) DEF LossInv
  <2>6. count - since[s] = Handled(s) + Queued(s) + gap[s] + InHand(s)
    BY <2>2, ZenonT(30) DEF Balanced
  <2>7. (count + 1) - since[s] = Handled(s) + Queued(s) + gap[s] + 1
    BY <2>3, <2>5, <2>6
  <2> QED BY <1>1, <2>3, <2>4, <2>7, ZenonT(30) DEF Balanced
<1>4. NothingLost'
  BY <1>3, ZenonT(30) DEF NothingLost, Balanced, Handled, Subscribed
<1> QED BY <1>2, <1>4, ZenonT(30) DEF LossInv

\* Serving a subscriber moves what the append holds for it, and its sub.gap,
\* into its channel or into the delivery in progress.
LEMMA TryBalances ==
    ASSUME LossInv, SendInv', NEW u \in Subs, DeliverTry(u) PROVE LossInv'
<1>0. ChanOK /\ ServesSubscribed /\ ~panicked
  BY ZenonT(30) DEF LossInv, SendInv, NoSendOnClosed
<1>1. /\ step = "next" /\ u \in todo /\ todo' = todo \ {u} /\ gap' = [gap EXCEPT ![u] = 0]
      /\ UNCHANGED <<count, state, since, carried, sent, skipped>>
      /\ state[u] = "subscribed" /\ count >= 1
  BY <1>0, ZenonT(30) DEF DeliverTry, handlerVars, ServesSubscribed
<1>2. \/ /\ ch' = [ch EXCEPT ![u] = Append(@, [span |-> count, gap |-> gap[u]])]
         /\ step' = "next"
      \/ ch' = ch /\ step' = "evict" /\ item' = [sub |-> u, gap |-> gap[u]]
  BY <1>1, ZenonT(30) DEF DeliverTry, ChanSend
<1>3. \A t \in Subs \ {u} : ch'[t] = ch[t] /\ gap'[t] = gap[t]
  BY <1>0, <1>1, <1>2, ZenonT(30) DEF ChanOK
<1>4. CountersOK' /\ NewIsEmpty'
  BY <1>1, <1>3, ZenonT(30) DEF LossInv, CountersOK, NewIsEmpty
<1>5. ASSUME NEW s \in Subs, state'[s] = "subscribed" PROVE Balanced(s)'
  <2>1. Balanced(s)
    BY <1>1, <1>5, LossIsBalance, ZenonT(30) DEF LossInv, Subscribed
  <2>2. CASE s # u
    <3>1. InHand(s)' = InHand(s)
      BY <1>1, <1>2, <2>2, SMTT(30) DEF InHand
    <3> QED BY <1>1, <1>3, <2>1, <2>2, <3>1, BalanceFrame, ZenonT(30)
  <2>3. CASE s = u
    <3>1. /\ Handled(u) \in Nat /\ Queued(u) \in Nat /\ gap[u] \in Nat
          /\ InHand(u) \in Nat /\ count \in Nat /\ since[u] \in Nat
      BY TermsType, ZenonT(30) DEF LossInv
    <3>2. InHand(u) = 1 /\ gap'[u] = 0 /\ Handled(u)' = Handled(u)
      BY <1>0, <1>1, ZenonT(30) DEF InHand, Handled, ChanOK
    <3>3. count - since[u] = Handled(u) + Queued(u) + gap[u] + 1
      BY <2>1, <2>3, <3>2, ZenonT(30) DEF Balanced
    <3>4. /\ Queued(u)' + InHand(u)' = Queued(u) + gap[u] + 1
          /\ Queued(u)' \in Nat /\ InHand(u)' \in Nat
      <4>1. CASE /\ ch' = [ch EXCEPT ![u] = Append(@, [span |-> count, gap |-> gap[u]])]
                 /\ step' = "next"
        <5> DEFINE d == [span |-> count, gap |-> gap[u]]
        <5>1. d \in Deliveries /\ d.gap = gap[u]
          BY <1>0, <1>1, <3>1, DeliveryTyped, ZenonT(30) DEF ChanOK
        <5>2. ch'[u] = Append(ch[u], d) /\ ch[u] \in Seq(Deliveries)
          BY <1>0, <4>1, ZenonT(30) DEF ChanOK
        <5> HIDE DEF d
        <5>3. Sums(Append(ch[u], d))[Len(Append(ch[u], d))] = Sums(ch[u])[Len(ch[u])] + d.gap + 1
          BY <5>1, <5>2, AppendSum, ZenonT(30)
        <5>4. Queued(u)' = Queued(u) + gap[u] + 1
          BY <5>1, <5>2, <5>3, ZenonT(30) DEF Queued
        <5>5. InHand(u)' = 0
          BY <1>1, <4>1, ZenonT(30) DEF InHand
        <5> QED BY <3>1, <5>4, <5>5
      <4>2. CASE ch' = ch /\ step' = "evict" /\ item' = [sub |-> u, gap |-> gap[u]]
        <5>1. InHand(u)' = gap[u] + 1
          BY <4>2, ZenonT(30) DEF InHand
        <5>2. Queued(u)' = Queued(u)
          BY <4>2, ZenonT(30) DEF Queued
        <5> QED BY <3>1, <5>1, <5>2
      <4> QED BY <1>2, <4>1, <4>2, ZenonT(30)
    <3>5. count - since[u] = Handled(u) + Queued(u)' + 0 + InHand(u)'
      BY <3>1, <3>3, <3>4, SMTT(30)
    <3> QED BY <1>1, <2>3, <3>2, <3>5, ZenonT(30) DEF Balanced
  <2> QED BY <2>2, <2>3, ZenonT(30)
<1>6. NothingLost'
  BY <1>5, ZenonT(30) DEF NothingLost, Balanced, Handled, Subscribed
<1> QED BY <1>4, <1>6, ZenonT(30) DEF LossInv

\* An eviction moves the oldest delivery and its gap into the delivery in hand.
LEMMA EvictBalances == LossInv /\ SendInv' /\ DeliverEvict => LossInv'
<1> SUFFICES ASSUME LossInv, SendInv', DeliverEvict PROVE LossInv'
  OBVIOUS
<1>0. ChanOK /\ ServesSubscribed
  BY ZenonT(30) DEF LossInv, SendInv
<1>u. PICK u \in Subs : u = item.sub
  BY <1>0, ZenonT(30) DEF DeliverEvict, ServesSubscribed
<1>1. /\ step = "evict" /\ step' = "resend" /\ item.gap \in Nat
      /\ UNCHANGED <<count, state, gap, since, todo, carried, sent, skipped>>
      /\ state[u] = "subscribed"
  BY <1>0, <1>u, ZenonT(30) DEF DeliverEvict, handlerVars, ServesSubscribed
<1>a. \/ /\ ch[u] # <<>> /\ item' = [item EXCEPT !.gap = @ + Head(ch[u]).gap + 1]
         /\ ch' = [ch EXCEPT ![u] = Tail(@)]
      \/ ch[u] = <<>> /\ ch' = ch /\ item' = item
  BY <1>u, ZenonT(30) DEF DeliverEvict
<1>2. item'.sub = u
  <2>1. ASSUME NEW x, item' = [item EXCEPT !.gap = x] PROVE item'.sub = u
    BY <1>u, <2>1
  <2> QED BY <1>a, <1>u, <2>1, ZenonT(30)
<1>3. \A t \in Subs \ {u} : ch'[t] = ch[t]
  BY <1>0, <1>a, ZenonT(30) DEF ChanOK
<1>4. CountersOK' /\ NewIsEmpty'
  BY <1>1, <1>3, ZenonT(30) DEF LossInv, CountersOK, NewIsEmpty
<1>5. ASSUME NEW s \in Subs, state'[s] = "subscribed" PROVE Balanced(s)'
  <2>1. Balanced(s)
    BY <1>1, <1>5, LossIsBalance, ZenonT(30) DEF LossInv, Subscribed
  <2>2. CASE s # u
    <3>1. InHand(s)' = InHand(s)
      BY <1>1, <1>2, <1>u, <2>2, ZenonT(30) DEF InHand
    <3> QED BY <1>1, <1>3, <2>1, <2>2, <3>1, BalanceFrame, ZenonT(30)
  <2>3. CASE s = u
    <3>1. /\ Handled(u) \in Nat /\ Queued(u) \in Nat /\ gap[u] \in Nat
          /\ InHand(u) \in Nat /\ count \in Nat /\ since[u] \in Nat
      BY <1>1, TermsType, ZenonT(30) DEF LossInv
    <3>2. InHand(u) = item.gap + 1 /\ InHand(u)' = item'.gap + 1
      BY <1>1, <1>2, <1>u, ZenonT(30) DEF InHand
    <3>3. /\ Queued(u)' + InHand(u)' = Queued(u) + InHand(u)
          /\ Queued(u)' \in Nat /\ InHand(u)' \in Nat
      <4>1. CASE ch[u] # <<>>
        <5>1. /\ item' = [item EXCEPT !.gap = @ + Head(ch[u]).gap + 1]
              /\ ch' = [ch EXCEPT ![u] = Tail(@)]
          BY <1>a, <4>1, ZenonT(30)
        <5>2. ch'[u] = Tail(ch[u]) /\ ch[u] \in Seq(Deliveries)
          BY <1>0, <1>1, <5>1, ZenonT(30) DEF ChanOK
        <5>3. /\ Tail(ch[u]) \in Seq(Deliveries) /\ Head(ch[u]) \in Deliveries
              /\ Len(Tail(ch[u])) \in Nat
          BY <4>1, <5>2, TailFacts
        <5>4. Head(ch[u]).gap \in Nat
          BY <5>3, ZenonT(30) DEF Deliveries
        <5>5. Queued(u) = Queued(u)' + Head(ch[u]).gap + 1
          BY <4>1, <5>2, TailSum, ZenonT(30) DEF Queued
        <5>6. Queued(u)' \in Nat
          <6>1. Len(Tail(ch[u])) \in 0..Len(Tail(ch[u]))
            BY <5>3
          <6> QED BY <5>2, <5>3, <6>1, SumsType, ZenonT(30) DEF Queued
        <5>7. item'.gap = item.gap + Head(ch[u]).gap + 1
          BY <5>1
        <5> QED BY <1>1, <3>1, <3>2, <5>4, <5>5, <5>6, <5>7
      <4>2. CASE ch[u] = <<>>
        <5>1. ch' = ch /\ item' = item
          BY <1>a, <4>2, ZenonT(30)
        <5>2. Queued(u)' = Queued(u)
          BY <5>1, ZenonT(30) DEF Queued
        <5> QED BY <3>1, <3>2, <5>1, <5>2, ZenonT(30)
      <4> QED BY <4>1, <4>2, ZenonT(30)
    <3>4. count - since[u] = Handled(u) + Queued(u) + gap[u] + InHand(u)
      BY <2>1, <2>3, ZenonT(30) DEF Balanced
    <3>5. count - since[u] = Handled(u) + Queued(u)' + gap[u] + InHand(u)'
      BY <3>1, <3>3, <3>4
    <3>6. Handled(u)' = Handled(u)
      BY <1>1, ZenonT(30) DEF Handled
    <3> QED BY <1>1, <2>3, <3>5, <3>6, ZenonT(30) DEF Balanced
  <2> QED BY <2>2, <2>3, ZenonT(30)
<1>6. NothingLost'
  BY <1>5, ZenonT(30) DEF NothingLost, Balanced, Handled, Subscribed
<1> QED BY <1>4, <1>6, ZenonT(30) DEF LossInv

\* The second send queues the delivery in hand.
LEMMA ResendBalances == LossInv /\ SendInv' /\ DeliverResend => LossInv'
<1> SUFFICES ASSUME LossInv, SendInv', DeliverResend PROVE LossInv'
  OBVIOUS
<1>0. ChanOK /\ ServesSubscribed /\ SecondSendSucceeds
  BY ZenonT(30) DEF LossInv, SendInv
<1>u. PICK u \in Subs : u = item.sub
  BY <1>0, ZenonT(30) DEF DeliverResend, ServesSubscribed
<1>d. PICK d : d = [span |-> count, gap |-> item.gap]
  BY ZenonT(30)
<1>1. /\ step = "resend" /\ step' = "next" /\ item.gap \in Nat /\ count >= 1
      /\ UNCHANGED <<count, state, since, todo, carried, sent, skipped>>
      /\ state[u] = "subscribed" /\ u \notin todo /\ Len(ch[u]) < Buffer
  BY <1>0, <1>u, ZenonT(30) DEF DeliverResend, handlerVars, ServesSubscribed, SecondSendSucceeds
<1>2. gap' = gap /\ ch' = [ch EXCEPT ![u] = Append(@, d)]
  BY <1>1, <1>u, <1>d, ZenonT(30) DEF DeliverResend, ChanSend
<1>3. d \in Deliveries /\ d.gap = item.gap
  BY <1>0, <1>1, <1>d, DeliveryTyped, ZenonT(30) DEF ChanOK
<1>4. /\ \A t \in Subs \ {u} : ch'[t] = ch[t]
      /\ ch'[u] = Append(ch[u], d) /\ ch[u] \in Seq(Deliveries)
  BY <1>0, <1>1, <1>2, ZenonT(30) DEF ChanOK
<1>5. CountersOK' /\ NewIsEmpty'
  BY <1>1, <1>2, <1>4, ZenonT(30) DEF LossInv, CountersOK, NewIsEmpty
<1>6. ASSUME NEW s \in Subs, state'[s] = "subscribed" PROVE Balanced(s)'
  <2>1. Balanced(s)
    BY <1>1, <1>6, LossIsBalance, ZenonT(30) DEF LossInv, Subscribed
  <2>2. CASE s # u
    <3>1. InHand(s)' = InHand(s)
      BY <1>1, <1>u, <2>2, ZenonT(30) DEF InHand
    <3> QED BY <1>1, <1>2, <1>4, <2>1, <2>2, <3>1, BalanceFrame, ZenonT(30)
  <2>3. CASE s = u
    <3>1. /\ Handled(u) \in Nat /\ Queued(u) \in Nat /\ gap[u] \in Nat
          /\ count \in Nat /\ since[u] \in Nat
      BY <1>1, TermsType, ZenonT(30) DEF LossInv
    <3>2. InHand(u) = item.gap + 1 /\ InHand(u)' = 0
      BY <1>1, <1>u, ZenonT(30) DEF InHand
    <3>3. Queued(u)' = Queued(u) + item.gap + 1
      BY <1>3, <1>4, AppendSum, ZenonT(30) DEF Queued
    <3>4. count - since[u] = Handled(u) + Queued(u) + gap[u] + InHand(u)
      BY <2>1, <2>3, ZenonT(30) DEF Balanced
    <3>5. count - since[u] = Handled(u) + Queued(u)' + gap[u] + 0
      <4> DEFINE h == Handled(u)  q == Queued(u)  n == gap[u]  i == item.gap
                 b == count - since[u]  q1 == Queued(u)'
      <4>1. /\ h \in Nat /\ q \in Nat /\ n \in Nat /\ i \in Nat
            /\ q1 = q + i + 1 /\ b = h + q + n + (i + 1)
        BY <1>1, <3>1, <3>2, <3>3, <3>4, ZenonT(30)
      <4> HIDE DEF h, q, n, i, b, q1
      <4>2. b = h + q1 + n + 0
        BY <4>1, SMTT(30)
      <4> QED BY <4>2, ZenonT(30) DEF h, q, n, b, q1
    <3>6. Handled(u)' = Handled(u)
      BY <1>1, ZenonT(30) DEF Handled
    <3> QED BY <1>1, <1>2, <2>3, <3>2, <3>5, <3>6, ZenonT(30) DEF Balanced
  <2> QED BY <2>2, <2>3, ZenonT(30)
<1>7. NothingLost'
  BY <1>6, ZenonT(30) DEF NothingLost, Balanced, Handled, Subscribed
<1> QED BY <1>5, <1>7, ZenonT(30) DEF LossInv

\* The handler moves what it receives from the queue to the event it sends, to
\* the skipped spans, or to carriedGap.
LEMMA ReceiveBalances ==
    ASSUME LossInv, SendInv', NEW u \in Subs, NEW o, Receive(u, o) PROVE LossInv'
<1>0. ChanOK /\ CountersOK
  BY ZenonT(30) DEF LossInv, SendInv
<1> DEFINE g == Head(ch[u]).gap
<1>1. /\ ch[u] # <<>> /\ ch' = [ch EXCEPT ![u] = Tail(@)]
      /\ UNCHANGED <<count, state, gap, since, todo, step, item>>
  BY ZenonT(30) DEF Receive, deliverVars
<1>2. \/ /\ carried' = [carried EXCEPT ![u] = @ + g] /\ sent' = sent
         /\ skipped' = [skipped EXCEPT ![u] = @ + 1]
      \/ /\ carried' = [carried EXCEPT ![u] = @ + g + 1] /\ sent' = sent
         /\ skipped' = skipped
      \/ /\ sent' = [sent EXCEPT ![u] = @ + 1 + g + carried[u]]
         /\ carried' = [carried EXCEPT ![u] = 0] /\ skipped' = skipped
  BY ZenonT(30) DEF Receive
<1>3. /\ ch[u] \in Seq(Deliveries) /\ ch'[u] = Tail(ch[u])
      /\ \A t \in Subs \ {u} : ch'[t] = ch[t]
  BY <1>0, <1>1, ZenonT(30) DEF ChanOK
<1>4. /\ Tail(ch[u]) \in Seq(Deliveries) /\ Len(Tail(ch[u])) \in Nat
      /\ Head(ch[u]) \in Deliveries
  BY <1>1, <1>3, TailFacts
<1>5. g \in Nat
  BY <1>4, ZenonT(30) DEF Deliveries
<1> HIDE DEF g
<1>6. sent[u] \in Nat /\ skipped[u] \in Nat /\ carried[u] \in Nat
  BY <1>0, ZenonT(30) DEF CountersOK
<1>7. /\ CountersOK'
      /\ \A t \in Subs \ {u} : /\ sent'[t] = sent[t] /\ skipped'[t] = skipped[t]
                               /\ carried'[t] = carried[t]
  <2>1. CASE /\ carried' = [carried EXCEPT ![u] = @ + g] /\ sent' = sent
             /\ skipped' = [skipped EXCEPT ![u] = @ + 1]
    BY <1>0, <1>1, <2>1, <1>5, <1>6 DEF CountersOK
  <2>2. CASE /\ carried' = [carried EXCEPT ![u] = @ + g + 1] /\ sent' = sent
             /\ skipped' = skipped
    BY <1>0, <1>1, <2>2, <1>5, <1>6, SMTT(30) DEF CountersOK
  <2>3. CASE /\ sent' = [sent EXCEPT ![u] = @ + 1 + g + carried[u]]
             /\ carried' = [carried EXCEPT ![u] = 0] /\ skipped' = skipped
    BY <1>0, <1>1, <2>3, <1>5, <1>6, SMTT(30) DEF CountersOK
  <2> QED BY <1>2, <2>1, <2>2, <2>3, ZenonT(30)
<1>8. Handled(u)' = Handled(u) + g + 1
  <2>1. /\ DOMAIN sent = Subs /\ DOMAIN skipped = Subs /\ DOMAIN carried = Subs
    BY <1>0, ZenonT(30) DEF CountersOK
  <2>2. \/ carried'[u] = carried[u] + g /\ sent'[u] = sent[u] /\ skipped'[u] = skipped[u] + 1
        \/ carried'[u] = carried[u] + g + 1 /\ sent'[u] = sent[u] /\ skipped'[u] = skipped[u]
        \/ /\ sent'[u] = sent[u] + 1 + g + carried[u] /\ carried'[u] = 0
           /\ skipped'[u] = skipped[u]
    BY <1>2, <2>1, ZenonT(30)
  <2>3. sent'[u] + skipped'[u] + carried'[u] = sent[u] + skipped[u] + carried[u] + g + 1
    BY <1>5, <1>6, <2>2, SMTT(30)
  <2> QED BY <2>3, ZenonT(30) DEF Handled
<1>9. NewIsEmpty'
  <2>1. state[u] # "new"
    BY <1>1, ZenonT(30) DEF LossInv, NewIsEmpty
  <2> QED BY <1>1, <1>3, <1>7, <2>1, ZenonT(30) DEF LossInv, NewIsEmpty
<1>10. ASSUME NEW s \in Subs, state'[s] = "subscribed" PROVE Balanced(s)'
  <2>1. Balanced(s)
    BY <1>1, <1>10, LossIsBalance, ZenonT(30) DEF LossInv, Subscribed
  <2>2. InHand(s)' = InHand(s)
    BY <1>1, ZenonT(30) DEF InHand
  <2>3. CASE s # u
    BY <1>1, <1>3, <1>7, <2>1, <2>2, <2>3, BalanceFrame, ZenonT(30)
  <2>4. CASE s = u
    <3>1. /\ Handled(u) \in Nat /\ Queued(u) \in Nat /\ gap[u] \in Nat
          /\ InHand(u) \in Nat /\ count \in Nat /\ since[u] \in Nat
      BY TermsType, ZenonT(30) DEF LossInv
    <3>2. Queued(u) = Queued(u)' + g + 1
      BY <1>1, <1>3, TailSum, ZenonT(30) DEF Queued, g
    <3>3. Queued(u)' \in Nat
      <4>1. Len(Tail(ch[u])) \in 0..Len(Tail(ch[u]))
        BY <1>4
      <4> QED BY <1>3, <1>4, <4>1, SumsType, ZenonT(30) DEF Queued
    <3>4. count - since[u] = Handled(u) + Queued(u) + gap[u] + InHand(u)
      BY <2>1, <2>4, ZenonT(30) DEF Balanced
    <3>5. count - since[u] = (Handled(u) + g + 1) + Queued(u)' + gap[u] + InHand(u)
      BY <1>5, <3>1, <3>2, <3>3, <3>4, SMTT(30)
    <3> QED BY <1>1, <1>8, <2>2, <2>4, <3>5, ZenonT(30) DEF Balanced
  <2> QED BY <2>3, <2>4, ZenonT(30)
<1>11. NothingLost'
  BY <1>10, ZenonT(30) DEF NothingLost, Balanced, Handled, Subscribed
<1> QED BY <1>7, <1>9, <1>11, ZenonT(30) DEF LossInv

\* A subscription starts with an empty account.
LEMMA SubscribeBalances ==
    ASSUME LossInv, SendInv', NEW u \in Subs, Subscribe(u) PROVE LossInv'
<1>0. ChanOK /\ CountersOK
  BY ZenonT(30) DEF LossInv, SendInv
<1>1. /\ step = "idle" /\ state[u] = "new" /\ state' = [state EXCEPT ![u] = "subscribed"]
      /\ since' = [since EXCEPT ![u] = count]
      /\ UNCHANGED <<count, ch, gap, todo, step, item, carried, sent, skipped>>
  BY ZenonT(30) DEF Subscribe, LockFree, deliverVars
<1>2. count \in Nat
  BY <1>0, MaxSpansAssumption DEF ChanOK
<1>3. CountersOK' /\ NewIsEmpty'
  BY <1>0, <1>1, <1>2, ZenonT(30) DEF LossInv, CountersOK, NewIsEmpty, ChanOK
<1>4. ASSUME NEW s \in Subs, state'[s] = "subscribed" PROVE Balanced(s)'
  <2>1. InHand(s)' = InHand(s) /\ InHand(s) = 0
    BY <1>1, ZenonT(30) DEF InHand
  <2>2. CASE s # u
    <3>1. state[s] = "subscribed" /\ since'[s] = since[s]
      BY <1>0, <1>1, <1>4, <2>2, ZenonT(30) DEF ChanOK, CountersOK
    <3>2. Balanced(s)
      BY <3>1, LossIsBalance, ZenonT(30) DEF LossInv, Subscribed
    <3> QED BY <1>1, <2>1, <3>1, <3>2, BalanceFrame, ZenonT(30)
  <2>3. CASE s = u
    <3>1. ch[u] = <<>> /\ gap[u] = 0 /\ carried[u] = 0 /\ sent[u] = 0 /\ skipped[u] = 0
      BY <1>1, ZenonT(30) DEF LossInv, NewIsEmpty
    <3>2. since'[u] = count
      BY <1>0, <1>1, ZenonT(30) DEF CountersOK
    <3>3. Queued(u)' = 0 /\ Handled(u)' = 0
      BY <1>1, <3>1, EmptySum DEF Queued, Handled
    <3>4. count - count = 0 + 0 + 0 + 0
      BY <1>2, SMTT(30)
    <3> QED BY <1>1, <2>1, <2>3, <3>1, <3>2, <3>3, <3>4, ZenonT(30) DEF Balanced
  <2> QED BY <2>2, <2>3, ZenonT(30)
<1>5. NothingLost'
  BY <1>4, ZenonT(30) DEF NothingLost, Balanced, Handled, Subscribed
<1> QED BY <1>3, <1>5, ZenonT(30) DEF LossInv

\* Unlocking, cancelling and stuttering change no account.
LEMMA OtherBalances ==
    ASSUME LossInv, SendInv',
           AppendUnlock \/ (\E u \in Subs : Cancel(u)) \/ UNCHANGED vars
    PROVE  LossInv'
<1>0. ChanOK
  BY ZenonT(30) DEF LossInv, SendInv
<1>1. /\ UNCHANGED <<count, ch, gap, since, carried, sent, skipped, item, todo>>
      /\ \/ step' = step
         \/ step = "next" /\ todo = {} /\ step' = "idle"
      /\ \A s \in Subs : state'[s] = state[s] \/ state'[s] = "closed"
  BY <1>0, ZenonT(30) DEF AppendUnlock, Cancel, vars, subVars, deliverVars, handlerVars, ChanOK
<1>2. CountersOK' /\ NewIsEmpty'
  BY <1>1, ZenonT(30) DEF LossInv, CountersOK, NewIsEmpty
<1>3. ASSUME NEW s \in Subs, state'[s] = "subscribed" PROVE Balanced(s)'
  <2>1. Balanced(s)
    BY <1>1, <1>3, LossIsBalance, ZenonT(30) DEF LossInv, Subscribed
  <2>2. InHand(s)' = InHand(s)
    BY <1>1, ZenonT(30) DEF InHand
  <2> QED BY <1>1, <2>1, <2>2, BalanceFrame, ZenonT(30)
<1>4. NothingLost'
  BY <1>3, ZenonT(30) DEF NothingLost, Balanced, Handled, Subscribed
<1> QED BY <1>2, <1>4, ZenonT(30) DEF LossInv

\* No span is lost silently, for every number of spans and subscribers and every
\* size of the channels: each one appended since a subscription is an event, a
\* span the filter refused, a queued delivery, or counted once in some gap.
THEOREM EverySpanAccounted == Spec => []NothingLost
<1>1. LossInv /\ [Next]_vars => LossInv'
  <2> SUFFICES ASSUME LossInv, [Next]_vars PROVE LossInv'
    OBVIOUS
  <2>1. SendInv'
    BY SendStep, ZenonT(30) DEF LossInv
  <2>2. \/ AppendWrite \/ DeliverEvict \/ DeliverResend
        \/ AppendUnlock \/ (\E s \in Subs : Cancel(s)) \/ UNCHANGED vars
        \/ \E s \in Subs : DeliverTry(s) \/ Subscribe(s) \/ \E o : Receive(s, o)
    BY Zenon DEF Next, Deliver
  <2> QED BY <2>1, <2>2, AppendBalances, EvictBalances, ResendBalances, TryBalances,
             ReceiveBalances, SubscribeBalances, OtherBalances, ZenonT(30)
<1>2. LossInv => NothingLost
  BY ZenonT(30) DEF LossInv
<1> QED BY <1>1, <1>2, LossInit, PTL DEF Spec

-----------------------------------------------------------------------------
(* The capture bridge.                                                      *)

\* The library's Max of two naturals is one of them and bounds both.
LEMMA MaxOfTwo ==
    ASSUME NEW a \in Int, NEW b \in Int
    PROVE  Max({a, b}) \in {a, b} /\ Max({a, b}) >= a /\ Max({a, b}) >= b
<1>1. \E x \in {a, b} : \A y \in {a, b} : x >= y
  <2>1. CASE a >= b
    BY <2>1
  <2>2. CASE b >= a
    BY <2>2
  <2> QED BY <2>1, <2>2
<1> QED BY <1>1, ZenonT(30) DEF Max

\* The Boolean variables of BridgeTypeOK.
Flags ==
    /\ started \in BOOLEAN /\ stopped \in BOOLEAN /\ receiver \in BOOLEAN
    /\ seen \in BOOLEAN /\ stopCh \in BOOLEAN /\ coalDone \in BOOLEAN
    /\ dirty \in BOOLEAN /\ writeFailed \in BOOLEAN
    /\ closed \in BOOLEAN /\ emitPanicked \in BOOLEAN

\* The other variables of BridgeTypeOK.
Data ==
    /\ startPc \in {"none", "grpc", "http", "publish", "build", "write", "unwind",
                    "drain", "done", "failed"}
    /\ stopPc \in {"none", "signal", "coalescer", "receiver", "drain", "emitters",
                   "close", "done"}
    /\ server \in {"none", "grpc", "serving", "stopping", "stopped"}
    /\ tracked \in [Targets -> MaybeSpec] /\ calls \in 0..MaxCalls
    /\ posting \in SUBSET Callers
    /\ coal \in {"none", "select", "debounce", "write", "done"}
    /\ em \in [Emitters -> {"idle", "arrived", "report", "add", "emit"}]
    /\ kind \in [Emitters -> {"none", "grpc", "http", "report"}]
    /\ left \in [Emitters -> 0..MaxEvents] /\ delta \in [Emitters -> Nat]
    /\ lastRestartCount \in Nat /\ restartsTotal \in Nat
    /\ events \in 0..EventBuffer

\* BridgeTypeOK is its two halves.
LEMMA TypeHalves == BridgeTypeOK <=> Flags /\ Data
  BY Zenon DEF BridgeTypeOK, Flags, Data

\* The flags start and stay Boolean.
LEMMA FlagsInit == BridgeInit => Flags
  BY Zenon DEF BridgeInit, Flags

\* Every step keeps the flags Boolean.
LEMMA FlagsStep == Flags /\ [BridgeNext]_bridgeVars => Flags'
<1> SUFFICES ASSUME Flags, [BridgeNext]_bridgeVars PROVE Flags'
  OBVIOUS
<1> USE DEF life, reload, config, emit, restarts, channel, Flags
<1>1. CASE StartCall
  BY <1>1, Zenon DEF StartCall
<1>2. CASE StartStep
  <2>1. CASE StartListen
    BY <2>1, Zenon DEF StartListen, StartFails
  <2>2. CASE StartPublish
    BY <2>2, Zenon DEF StartPublish
  <2>3. CASE StartBuild
    BY <2>3, Zenon DEF StartBuild
  <2>4. CASE StartWrite
    BY <2>4, Zenon DEF StartWrite
  <2>5. CASE StartUnwind
    BY <2>5, Zenon DEF StartUnwind, StartFails
  <2> QED BY <1>2, <2>1, <2>2, <2>3, <2>4, <2>5, ZenonT(30) DEF StartStep
<1>3. CASE StopCall
  BY <1>3, Zenon DEF StopCall
<1>4. CASE StopStep
  <2>1. CASE StopSignal
    BY <2>1, Zenon DEF StopSignal
  <2>2. CASE StopAwaitCoalescer
    BY <2>2, Zenon DEF StopAwaitCoalescer
  <2>3. CASE StopReceiver
    BY <2>3, Zenon DEF StopReceiver
  <2>4. CASE StopAwaitEmitters
    BY <2>4, Zenon DEF StopAwaitEmitters
  <2>5. CASE StopClose
    BY <2>5, Zenon DEF StopClose
  <2> QED BY <1>4, <2>1, <2>2, <2>3, <2>4, <2>5, ZenonT(30) DEF StopStep
<1>5. CASE CoalescerStep
  <2>1. CASE CoalescerSignal
    BY <2>1, Zenon DEF CoalescerSignal
  <2>2. CASE CoalescerBuild
    BY <2>2, Zenon DEF CoalescerBuild
  <2>3. CASE CoalescerWrite
    BY <2>3, Zenon DEF CoalescerWrite
  <2>4. CASE CoalescerExit
    BY <2>4, Zenon DEF CoalescerExit
  <2> QED BY <1>5, <2>1, <2>2, <2>3, <2>4, ZenonT(30) DEF CoalescerStep
<1>6. ASSUME NEW e \in Emitters, NEW k \in {"grpc", "http", "report"}, Arrive(e, k)
      PROVE  Flags'
  BY <1>6, Zenon DEF Arrive
<1>7. ASSUME NEW e \in Emitters, EmitterStep(e) PROVE Flags'
  <2>1. ASSUME NEW n \in 0..MaxEvents, BeginEmit(e, n) PROVE Flags'
    BY <2>1, Zenon DEF BeginEmit
  <2>2. ASSUME NEW c \in RestartCounts, NEW n \in 0..MaxEvents, RestartDelta(e, c, n)
        PROVE  Flags'
    BY <2>2, Zenon DEF RestartDelta
  <2>3. CASE RestartAdd(e)
    BY <2>3, Zenon DEF RestartAdd
  <2>4. CASE EmitSend(e)
    BY <2>4, Zenon DEF EmitSend
  <2>5. CASE EndEmit(e)
    BY <2>5, Zenon DEF EndEmit
  <2> QED BY <1>7, <2>1, <2>2, <2>3, <2>4, <2>5, ZenonT(30) DEF EmitterStep
<1>8. CASE Consume
  BY <1>8, Zenon DEF Consume
<1>9. ASSUME NEW c \in Callers, SetModule(c) \/ triggerReload(c) PROVE Flags'
  BY <1>9, ZenonT(30) DEF SetModule, triggerReload
<1>10. ASSUME NEW c \in Callers, NEW t \in Targets, NEW v \in MaybeSpec, Track(c, t, v)
       PROVE  Flags'
  BY <1>10, Zenon DEF Track
<1>11. CASE UNCHANGED bridgeVars
  BY <1>11, Zenon DEF bridgeVars
<1> QED
  BY <1>1, <1>2, <1>3, <1>4, <1>5, <1>6, <1>7, <1>8, <1>9, <1>10, <1>11, ZenonT(30) DEF BridgeNext

\* The other variables start in their types.
LEMMA DataInit == BridgeInit => Data
  BY BoundsAssumption DEF BridgeInit, Data, MaybeSpec

\* Every step keeps the other variables in their types.
LEMMA DataStep == Data /\ [BridgeNext]_bridgeVars => Data'
<1> SUFFICES ASSUME Data, [BridgeNext]_bridgeVars PROVE Data'
  BY ZenonT(30)
<1> USE BoundsAssumption DEF life, reload, config, emit, restarts, channel, Data
<1>1. CASE StartCall
  BY <1>1, ZenonT(30) DEF StartCall
<1>2. CASE StartStep
  <2>1. CASE StartListen
    BY <2>1, ZenonT(30) DEF StartListen, StartFails
  <2>2. CASE StartPublish
    BY <2>2, ZenonT(30) DEF StartPublish
  <2>3. CASE StartBuild
    BY <2>3, ZenonT(30) DEF StartBuild
  <2>4. CASE StartWrite
    BY <2>4, ZenonT(30) DEF StartWrite
  <2>5. CASE StartUnwind
    BY <2>5, ZenonT(30) DEF StartUnwind, StartFails
  <2> QED BY <1>2, <2>1, <2>2, <2>3, <2>4, <2>5, ZenonT(30) DEF StartStep
<1>3. CASE StopCall
  BY <1>3, ZenonT(30) DEF StopCall
<1>4. CASE StopStep
  <2>1. CASE StopSignal
    BY <2>1, ZenonT(30) DEF StopSignal
  <2>2. CASE StopAwaitCoalescer
    BY <2>2, ZenonT(30) DEF StopAwaitCoalescer
  <2>3. CASE StopReceiver
    BY <2>3, ZenonT(30) DEF StopReceiver
  <2>4. CASE StopAwaitEmitters
    BY <2>4, ZenonT(30) DEF StopAwaitEmitters
  <2>5. CASE StopClose
    BY <2>5, ZenonT(30) DEF StopClose
  <2> QED BY <1>4, <2>1, <2>2, <2>3, <2>4, <2>5, ZenonT(30) DEF StopStep
<1>5. CASE CoalescerStep
  <2>1. CASE CoalescerSignal
    BY <2>1, ZenonT(30) DEF CoalescerSignal
  <2>2. CASE CoalescerBuild
    BY <2>2, ZenonT(30) DEF CoalescerBuild
  <2>3. CASE CoalescerWrite
    BY <2>3, ZenonT(30) DEF CoalescerWrite
  <2>4. CASE CoalescerExit
    BY <2>4, ZenonT(30) DEF CoalescerExit
  <2> QED BY <1>5, <2>1, <2>2, <2>3, <2>4, ZenonT(30) DEF CoalescerStep
<1>6. ASSUME NEW e \in Emitters, NEW k \in {"grpc", "http", "report"}, Arrive(e, k)
      PROVE  Data'
  BY <1>6, SMTT(30) DEF Arrive
<1>7. ASSUME NEW e \in Emitters, EmitterStep(e) PROVE Data'
  <2>1. ASSUME NEW n \in 0..MaxEvents, BeginEmit(e, n) PROVE Data'
    BY <2>1, SMTT(30) DEF BeginEmit
  <2>2. ASSUME NEW c \in RestartCounts, NEW n \in 0..MaxEvents, RestartDelta(e, c, n)
        PROVE  Data'
    <3>0. c \in Nat /\ lastRestartCount \in Nat /\ c - lastRestartCount \in Int
      OBVIOUS
    <3>1. Max({0, c - lastRestartCount}) \in Nat
      <4>1. ASSUME NEW d \in Int PROVE Max({0, d}) \in Nat
        <5>1. 0 \in Int
          OBVIOUS
        <5>2. Max({0, d}) \in {0, d} /\ Max({0, d}) >= 0
          BY <5>1, MaxOfTwo, Zenon
        <5> QED BY <5>2, SMTT(30)
      <4> QED BY <3>0, <4>1, ZenonT(30)
    <3>2. Max({c, lastRestartCount}) \in Nat
      <4>1. ASSUME NEW m \in Nat, NEW n2 \in Nat PROVE Max({m, n2}) \in Nat
        BY MaxOfTwo, m \in Int, n2 \in Int, ZenonT(30)
      <4> QED BY <3>0, <4>1, ZenonT(30)
    <3> QED BY <2>2, <3>1, <3>2 DEF RestartDelta
  <2>3. CASE RestartAdd(e)
    BY <2>3, SMTT(30) DEF RestartAdd
  <2>4. CASE EmitSend(e)
    BY <2>4 DEF EmitSend
  <2>5. CASE EndEmit(e)
    BY <2>5, ZenonT(30) DEF EndEmit
  <2> QED BY <1>7, <2>1, <2>2, <2>3, <2>4, <2>5, ZenonT(30) DEF EmitterStep
<1>8. CASE Consume
  BY <1>8 DEF Consume
<1>9. ASSUME NEW c \in Callers, SetModule(c) \/ triggerReload(c) PROVE Data'
  BY <1>9, SMTT(30) DEF SetModule, triggerReload
<1>10. ASSUME NEW c \in Callers, NEW t \in Targets, NEW v \in MaybeSpec, Track(c, t, v)
       PROVE  Data'
  BY <1>10, SMTT(30) DEF Track
<1>11. CASE UNCHANGED bridgeVars
  BY <1>11, ZenonT(30) DEF bridgeVars
<1> QED
  BY <1>1, <1>2, <1>3, <1>4, <1>5, <1>6, <1>7, <1>8, <1>9, <1>10, <1>11, ZenonT(30) DEF BridgeNext

\* Every reachable state is well typed; the Events channel is never overfull.
THEOREM TypeCorrect == BridgeSpec => []BridgeTypeOK
  BY TypeHalves, FlagsInit, FlagsStep, DataInit, DataStep, PTL DEF BridgeSpec

-----------------------------------------------------------------------------
\* Who may still emit, and how far Stop has come.
StopInv ==
    /\ em \in [Emitters -> {"idle", "arrived", "report", "add", "emit"}]
    /\ stopPc # "none" => stopped
    /\ stopPc \in {"close", "done"} => emitWG = {}
    /\ closed => stopPc = "done"
    /\ NoEmitOnClosed

\* BridgeInit establishes it: nothing is closed.
LEMMA StopInit == BridgeInit => StopInv
  BY ZenonT(30) DEF BridgeInit, StopInv, NoEmitOnClosed

\* Steps that change neither Stop's progress, the emitters nor the channel.
LEMMA StopFrame ==
    StopInv /\ UNCHANGED <<stopPc, stopped, em, closed, emitPanicked>> => StopInv'
  BY SMTT(30) DEF StopInv, NoEmitOnClosed, emitWG

\* Every step keeps it: once Stop has found emitWG empty, beginEmit refuses.
LEMMA StopInductive == StopInv /\ [BridgeNext]_bridgeVars => StopInv'
<1> SUFFICES ASSUME StopInv, [BridgeNext]_bridgeVars PROVE StopInv'
  BY ZenonT(30)
<1> USE DEF life, reload, config, emit, restarts, channel
<1>1. CASE StartCall \/ StartStep
  BY <1>1, StopFrame, ZenonT(30) DEF StartCall, StartStep, StartListen, StartPublish, StartBuild,
     StartWrite, StartUnwind
<1>2. CASE StopCall \/ StopStep
  BY <1>2 DEF StopCall, StopStep, StopSignal, StopAwaitCoalescer, StopReceiver,
     StopAwaitEmitters, StopClose, StopInv, NoEmitOnClosed, emitWG
<1>3. CASE CoalescerStep
  BY <1>3, StopFrame, ZenonT(30) DEF CoalescerStep, CoalescerSignal, CoalescerBuild,
     CoalescerWrite, CoalescerExit
<1>4. ASSUME NEW e \in Emitters, NEW k \in {"grpc", "http", "report"}, Arrive(e, k)
      PROVE  StopInv'
  BY <1>4, ZenonT(30) DEF Arrive, StopInv, NoEmitOnClosed, emitWG
<1>5. ASSUME NEW e \in Emitters, EmitterStep(e) PROVE StopInv'
  <2>1. ASSUME NEW n \in 0..MaxEvents, BeginEmit(e, n) PROVE StopInv'
    BY <2>1, ZenonT(30) DEF BeginEmit, StopInv, NoEmitOnClosed, emitWG
  <2>2. ASSUME NEW c \in RestartCounts, NEW n \in 0..MaxEvents, RestartDelta(e, c, n)
        PROVE  StopInv'
    BY <2>2, ZenonT(30) DEF RestartDelta, StopInv, NoEmitOnClosed, emitWG
  <2>3. CASE RestartAdd(e)
    BY <2>3, ZenonT(30) DEF RestartAdd, StopInv, NoEmitOnClosed, emitWG
  <2>4. CASE EmitSend(e)
    BY <2>4, ZenonT(30) DEF EmitSend, StopInv, NoEmitOnClosed, emitWG
  <2>5. CASE EndEmit(e)
    BY <2>5, ZenonT(30) DEF EndEmit, StopInv, NoEmitOnClosed, emitWG
  <2> QED BY <1>5, <2>1, <2>2, <2>3, <2>4, <2>5, ZenonT(30) DEF EmitterStep
<1>6. CASE Consume
  BY <1>6, StopFrame, ZenonT(30) DEF Consume
<1>7. ASSUME NEW c \in Callers, SetModule(c) \/ triggerReload(c) PROVE StopInv'
  BY <1>7, StopFrame, ZenonT(30) DEF SetModule, triggerReload
<1>8. ASSUME NEW c \in Callers, NEW t \in Targets, NEW v \in MaybeSpec, Track(c, t, v)
      PROVE  StopInv'
  BY <1>8, StopFrame, ZenonT(30) DEF Track
<1>9. CASE UNCHANGED bridgeVars
  BY <1>9, StopFrame, ZenonT(30) DEF bridgeVars
<1> QED BY <1>1, <1>2, <1>3, <1>4, <1>5, <1>6, <1>7, <1>8, <1>9, ZenonT(30) DEF BridgeNext

\* No OTLP handler and no restart report sends on the closed Events channel,
\* whatever the races between Start, Stop, the receiver's shutdown and emitters.
THEOREM NeverSendsOnClosed == BridgeSpec => []NoEmitOnClosed
<1>1. StopInv => NoEmitOnClosed
  BY ZenonT(30) DEF StopInv
<1> QED BY <1>1, StopInit, StopInductive, PTL DEF BridgeSpec

-----------------------------------------------------------------------------
\* The coalescer runs only after Start's own write, and a config that is stale
\* by the time it is written has a signal behind it.
ReloadInv ==
    /\ startPc # "done" => coal = "none"
    /\ (startPc = "write" \/ coal = "write") /\ built # buildConfig =>
           dirty \/ posting # {}
    /\ NoLostReload

\* BridgeInit establishes it: nothing runs and nothing is tracked.
LEMMA ReloadInit == BridgeInit => ReloadInv
  BY ZenonT(30) DEF BridgeInit, ReloadInv, NoLostReload

\* Steps that leave the calls, the coalescer and the file alone, and do not
\* bring Start to its write.
LEMMA ReloadFrame ==
    /\ ReloadInv
    /\ UNCHANGED <<tracked, posting, dirty, coal, built, file, writeFailed>>
    /\ startPc' = startPc \/ (startPc # "done" /\ startPc' \notin {"write", "done"})
    => ReloadInv'
  BY DEF ReloadInv, NoLostReload, buildConfig

\* Every step keeps it: a call posts its signal after its update, and a signal
\* is consumed before the config is built.
LEMMA ReloadInductive == ReloadInv /\ [BridgeNext]_bridgeVars => ReloadInv'
<1> SUFFICES ASSUME ReloadInv, [BridgeNext]_bridgeVars PROVE ReloadInv'
  BY ZenonT(30)
<1> USE DEF life, reload, config, emit, restarts, channel
<1>1. CASE StartCall \/ StartListen \/ StartPublish \/ StartUnwind
  BY <1>1, ReloadFrame, ZenonT(30) DEF StartCall, StartListen, StartPublish, StartUnwind, StartFails
<1>2. CASE StartBuild
  BY <1>2, ZenonT(30) DEF StartBuild, ReloadInv, NoLostReload, buildConfig
<1>3. CASE StartWrite
  BY <1>3, ZenonT(30) DEF StartWrite, ReloadInv, NoLostReload, buildConfig
<1>4. CASE StopCall \/ StopStep
  BY <1>4, ReloadFrame, ZenonT(30) DEF StopCall, StopStep, StopSignal, StopAwaitCoalescer,
     StopReceiver, StopAwaitEmitters, StopClose
<1>5. CASE CoalescerSignal
  BY <1>5, ZenonT(30) DEF CoalescerSignal, ReloadInv, NoLostReload, buildConfig
<1>6. CASE CoalescerBuild
  BY <1>6, ZenonT(30) DEF CoalescerBuild, ReloadInv, NoLostReload, buildConfig
<1>7. CASE CoalescerWrite
  BY <1>7, ZenonT(30) DEF CoalescerWrite, ReloadInv, NoLostReload, buildConfig
<1>8. CASE CoalescerExit
  BY <1>8, ZenonT(30) DEF CoalescerExit, ReloadInv, NoLostReload, buildConfig
<1>9. ASSUME NEW e \in Emitters, NEW k \in {"grpc", "http", "report"}, Arrive(e, k)
      PROVE  ReloadInv'
  BY <1>9, ReloadFrame, ZenonT(30) DEF Arrive
<1>10. ASSUME NEW e \in Emitters, EmitterStep(e) PROVE ReloadInv'
  BY <1>10, ReloadFrame, ZenonT(30)
  DEF EmitterStep, BeginEmit, RestartDelta, RestartAdd, EmitSend, EndEmit
<1>11. CASE Consume
  BY <1>11, ReloadFrame, ZenonT(30) DEF Consume
<1>12. ASSUME NEW c \in Callers, SetModule(c) PROVE ReloadInv'
  BY <1>12, ZenonT(30) DEF SetModule, ReloadInv, NoLostReload, buildConfig
<1>13. ASSUME NEW c \in Callers, triggerReload(c) PROVE ReloadInv'
  BY <1>13, ZenonT(30) DEF triggerReload, ReloadInv, NoLostReload, buildConfig
<1>14. ASSUME NEW c \in Callers, NEW t \in Targets, NEW v \in MaybeSpec, Track(c, t, v)
       PROVE  ReloadInv'
  BY <1>14, ZenonT(30) DEF Track, ReloadInv, NoLostReload
<1>15. CASE UNCHANGED bridgeVars
  BY <1>15, ReloadFrame, ZenonT(30) DEF bridgeVars
<1> QED
  BY <1>1, <1>2, <1>3, <1>4, <1>5, <1>6, <1>7, <1>8, <1>9, <1>10, <1>11, <1>12,
     <1>13, <1>14, <1>15, ZenonT(30)
  DEF BridgeNext, StartStep, CoalescerStep

\* No AllowPod, BlockPod, AllowPID or BlockPID call is lost between the one-slot
\* dirty channel, the debounce window and the write.
THEOREM ReloadsNeverLost == BridgeSpec => []NoLostReload
<1>1. ReloadInv => NoLostReload
  BY ZenonT(30) DEF ReloadInv
<1> QED BY <1>1, ReloadInit, ReloadInductive, PTL DEF BridgeSpec
=============================================================================
