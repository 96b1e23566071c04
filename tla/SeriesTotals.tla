---------------------------- MODULE SeriesTotals ----------------------------
(***************************************************************************)
(* What the metric forwarder promises (cmd/ollie/forward.go): a series per *)
(* label set, which shows what its own datapoints add up to since it first *)
(* appeared, and which may be forgotten.  That the label sets of a metric  *)
(* are brought to a common schema does not show.                           *)
(***************************************************************************)
EXTENDS Integers, Functions

CONSTANTS Labels,    \* the label sets
          Events     \* the datapoints

VARIABLE totals      \* label set -> [bounds, value]

(* Deltas add up as long as the bounds stay the same, the rest replaces.    *)
Total(old, ev) ==
    [bounds |-> ev.bounds,
     value  |-> ev.value + IF ev.delta /\ old.bounds = ev.bounds
                           THEN old.value ELSE 0]

Init == totals = <<>>

Record(id, ev) ==
    LET old == IF id \in DOMAIN totals THEN totals[id]
               ELSE [bounds |-> ev.bounds, value |-> 0]
    IN totals' = [x \in DOMAIN totals \union {id} |->
                     IF x = id THEN Total(old, ev) ELSE totals[x]]

Forget == \E S \in SUBSET DOMAIN totals : totals' = Restrict(totals, S)

Next == Forget \/ \E id \in Labels, ev \in Events : Record(id, ev)

Spec == Init /\ [][Next]_totals
=============================================================================
