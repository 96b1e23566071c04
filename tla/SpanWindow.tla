----------------------------- MODULE SpanWindow -----------------------------
(* What the span buffer promises: it holds the last Capacity spans appended, *)
(* oldest first, and an append is atomic.                                    *)
EXTENDS Integers, Sequences

CONSTANTS Capacity,         \* entries the buffer keeps
          Spans             \* spans, in the order in which they are captured

VARIABLE window

LastOf(s, n) == IF Len(s) <= n THEN s ELSE SubSeq(s, Len(s) - n + 1, Len(s))

Init == window = <<>>

Append1(x) == window' = LastOf(Append(window, x), Capacity)

Next == \E x \in Spans : Append1(x)

Spec == Init /\ [][Next]_window
=============================================================================
