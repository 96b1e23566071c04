----------------------------- MODULE Forwarder ------------------------------
(***************************************************************************)
(* The metric forwarder of the agent (cmd/ollie/forward.go, with the OTLP  *)
(* translation of pkg/capture/translate.go): datapoints of one metric are  *)
(* folded into series, all of which carry the same label keys.  A new key  *)
(* widens the schema and re-keys what is stored.                           *)
(*                                                                         *)
(* A metric is an OTLP instrument [data, temporality, monotonic].  An      *)
(* attribute set is a function from keys to values; "" is Empty.           *)
(***************************************************************************)
EXTENDS Integers, Functions, FiniteSets

CONSTANTS Keys, Forwardable,  \* attribute keys, those ForwardableLabel admits
          Values, Empty,      \* label values, ""
          Layouts,            \* histogram bucket layouts
          Instruments,        \* what the metric may be
          Amounts,            \* values of datapoints
          StaleAfter          \* staleAfter, in ticks of the clock

ASSUME ForwarderAssumption == Amounts \subseteq Int /\ StaleAfter \in Nat

VARIABLES schema,       \* labelSchema[name]: a set of keys
          series,       \* label values over schema -> [bounds, value, age]
          metric        \* the instrument

fwdVars == <<schema, series, metric>>

Attributes == UNION {[K -> Values] : K \in SUBSET Keys}

(* datapointsOf: sums, gauges and histograms have datapoints, nothing else. *)
HasPoints(m) == m.data \in {"sum", "gauge", "histogram"}

(* TranslateMetrics: one event; the labels of the resource are among the    *)
(* attributes.                                                              *)
Translate(m, attrs, amount, layout) ==
    [attrs |-> attrs, value |-> amount,
     type |-> m.data, temporality |-> m.temporality, monotonic |-> m.monotonic,
     bounds |-> IF m.data = "histogram" THEN layout ELSE 0]

EventsOf(m) ==
    IF HasPoints(m)
    THEN {Translate(m, a, n, l) : a \in Attributes, n \in Amounts, l \in Layouts}
    ELSE {}

allowedLabels(attrs) == Restrict(attrs, DOMAIN attrs \intersect Forwardable)

coerceToSchema(keys, labels) ==
    [k \in keys |-> IF k \in DOMAIN labels THEN labels[k] ELSE Empty]

(* Every stored series moves to its label values over the wider schema.     *)
rekeySeries(keys) ==
    LET at == [l \in DOMAIN series |-> coerceToSchema(keys, l)]
    IN [l \in Range(at) |-> series[CHOOSE m \in DOMAIN series : at[m] = l]]

(* A delta counter or histogram accumulates, unless the layout changed;     *)
(* cumulative and unspecified totals and gauges replace.                    *)
Fold(st, ev) ==
    [bounds |-> ev.bounds, age |-> 0,
     value |-> IF /\ ev.temporality = "delta"
                  /\ \/ ev.type = "histogram" /\ st.bounds = ev.bounds
                     \/ ev.type = "sum" /\ ev.monotonic
               THEN st.value + ev.value
               ELSE ev.value]

FwdInit ==
    /\ schema = {} /\ series = <<>>
    /\ metric \in Instruments

(* Mutant of Record: the first datapoint's keys are the schema for good.    *)
RecordPinned(ev) ==
    LET labels == allowedLabels(ev.attrs)
        keys   == IF schema = {} THEN DOMAIN labels ELSE schema
        l      == coerceToSchema(keys, labels)
        st     == IF l \in DOMAIN series THEN series[l]
                  ELSE [bounds |-> ev.bounds, value |-> 0, age |-> 0]
    IN /\ schema' = keys
       /\ series' = [x \in DOMAIN series \union {l} |->
                        IF x = l THEN Fold(st, ev) ELSE series[x]]
       /\ UNCHANGED metric

Record(ev) ==
    LET labels == allowedLabels(ev.attrs)
        keys   == schema \union DOMAIN labels
        moved  == IF keys = schema THEN series ELSE rekeySeries(keys)
        l      == coerceToSchema(keys, labels)
        st     == IF l \in DOMAIN moved THEN moved[l]
                  ELSE [bounds |-> ev.bounds, value |-> 0, age |-> 0]
    IN /\ schema' = keys
       /\ series' = [x \in DOMAIN moved \union {l} |->
                        IF x = l THEN Fold(st, ev) ELSE moved[x]]
       /\ UNCHANGED metric

(* Collect: what has not been reported for staleAfter goes, the rest is     *)
(* shown.                                                                   *)
Kept == {l \in DOMAIN series : series[l].age <= StaleAfter}

Collect == series' = Restrict(series, Kept) /\ UNCHANGED <<schema, metric>>

(* Time passes.                                                             *)
Age == /\ series' = [l \in DOMAIN series |->
                        [series[l] EXCEPT !.age =
                            IF @ <= StaleAfter THEN @ + 1 ELSE @]]
       /\ UNCHANGED <<schema, metric>>

-----------------------------------------------------------------------------
(* A label with an empty value is no label (Prometheus data model).         *)
Canon(l) == RestrictValues(l, LAMBDA v : v # Empty)

(* What the series show, by label set.                                      *)
View ==
    LET at(id) == CHOOSE l \in DOMAIN series : Canon(l) = id
    IN [id \in {Canon(l) : l \in DOMAIN series} |->
           [bounds |-> series[at(id)].bounds, value |-> series[at(id)].value]]

AbstractEvents ==
    [bounds : {0} \union Layouts, value : Amounts, delta : BOOLEAN]

Totals == INSTANCE SeriesTotals
              WITH totals <- View, Labels <- {Canon(a) : a \in Attributes},
                   Events <- AbstractEvents

(* Record, rekeySeries and Collect implement SeriesTotals: a series is       *)
(* never merged with, split from, or credited to another label set, however *)
(* the schema grows, and a delta is counted once.                           *)
ForwarderKeepsTotals == Totals!Spec
=============================================================================
