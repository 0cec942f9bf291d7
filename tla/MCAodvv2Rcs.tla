----------------------------- MODULE MCAodvv2Rcs -----------------------------
(* The IPv6 thread, the shell and the VAINA server with their priorities;   *)
(* two-bit addresses with every prefix length, and the two entries of the   *)
(* default configuration.                                                   *)
EXTENDS Aodvv2Rcs

MCThreads == {"ipv6", "shell", "vaina"}
MCPrio == [t \in MCThreads |->
             CASE t = "ipv6" -> 4 [] t = "shell" -> 7 [] OTHER -> 9]
MCAdders == {"shell", "vaina"}
MCDeleters == {"vaina"}
MCSeekers == {"ipv6", "shell"}
=============================================================================
