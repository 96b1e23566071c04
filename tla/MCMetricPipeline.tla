-------------------------- MODULE MCMetricPipeline --------------------------
(* MetricPipeline for TLC: a label that comes and goes, a delta counter or   *)
(* a delta histogram whose layout changes.                                   *)
EXTENDS MetricPipeline

CONSTANTS route, v

MCInstruments ==
    {[data |-> "sum", temporality |-> "delta", monotonic |-> TRUE],
     [data |-> "histogram", temporality |-> "delta", monotonic |-> FALSE]}

(* The counter goes to the remote writer, the histogram to the OTLP relay.   *)
MCInit == Init /\ (metric.data = "sum" <=> "rw" \in Relays)

MCSpec == MCInit /\ [][Next]_vars /\ Fairness
=============================================================================
