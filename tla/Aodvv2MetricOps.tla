--------------------------- MODULE Aodvv2MetricOps ---------------------------
(***************************************************************************)
(* Routing metrics (aoddv2_metric.c).  Metric values are uint8_t.  Only    *)
(* the hop count has a cost, a maximum and an ordering; every other metric *)
(* type costs nothing and has the maximum 0.                               *)
(***************************************************************************)
EXTENDS Integers

CONSTANT MaxHopCount   \* CONFIG_METRIC_HOP_COUNT_AODVV2_MAX, 255 by default

ASSUME MaxHopCountAssumption == MaxHopCount \in 1..255

METRIC_HOP_COUNT == 3

MetricValue == 0..255

LinkCost(type) == IF type = METRIC_HOP_COUNT THEN 1 ELSE 0

MetricMax(type) == IF type = METRIC_HOP_COUNT THEN MaxHopCount ELSE 0

\* aodvv2_metric_update adds one hop, in eight bits.
MetricUpdate(type, metric) ==
    IF type = METRIC_HOP_COUNT THEN (metric + 1) % 256 ELSE metric
=============================================================================
