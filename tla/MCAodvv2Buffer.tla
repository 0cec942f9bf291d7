--------------------------- MODULE MCAodvv2Buffer ---------------------------
(* Three packets to two destinations compete for two slots.                 *)
EXTENDS Aodvv2Buffer

CONSTANTS p1, p2, p3, d1, d2

MCPkts == {p1, p2, p3}
MCDsts == {d1, d2}
MCDstOf == [p \in MCPkts |-> IF p = p3 THEN d2 ELSE d1]
=============================================================================
