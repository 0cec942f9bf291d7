---------------------------- MODULE MCAodvv2Mcmsg ----------------------------
(* Two entries, one key of this router and two of others, so the set fills  *)
(* up; sequence numbers on both sides of the wrap.                          *)
EXTENDS Aodvv2Mcmsg, TLC

CONSTANTS own, k1, k2, nokey, unspec, junk

MCKey == {own, k1, k2}
MCOwnKey == {own}
MCRtr == {unspec, junk}
MCSymmetry == Permutations({k1, k2})
MCSeqNums == {65535, 1, 2}
=============================================================================
