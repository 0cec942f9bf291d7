--------------------------- MODULE MCAodvv2Seqnum ---------------------------
(* The three originating threads with RIOT's priority order, SeqMax small  *)
(* enough that the counter wraps several times.                            *)
EXTENDS Aodvv2Seqnum

MCThreads == {"ipv6", "aodvv2", "shell"}
MCPrio == [t \in MCThreads |->
             CASE t = "ipv6" -> 4 [] t = "aodvv2" -> 6 [] OTHER -> 7]
MCReporters == {"shell"}
=============================================================================
