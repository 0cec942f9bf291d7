----------------------------- MODULE MCAodvv2Lrs -----------------------------
(* Two slots and three destinations: the table fills up.  The intervals     *)
(* keep the order of the configured ones (5 < 205 < 300 seconds) and the    *)
(* clock runs past two lifetimes of a route.                                *)
EXTENDS Aodvv2Lrs

CONSTANTS d1, d2, d3, n1, unspec

MCAddr == {d1, d2, d3, n1, unspec}
MCNodes == [addr : {d1, d2, d3}, type : {METRIC_HOP_COUNT}, seqnum : {1, 2},
            metric : {1}, sender : {n1}]
=============================================================================
