-------------------------- MODULE Aodvv2SeqnumOps --------------------------
(***************************************************************************)
(* The sequence-number arithmetic every AODVv2 table relies on             *)
(* (mesh/sys/include/net/aodvv2/seqnum.h).  SeqMax is 65535 in the code:   *)
(* aodvv2_seqnum_t is a uint16_t, so values live in 0..SeqMax and          *)
(* conversions to it are taken modulo SeqMax + 1.                          *)
(***************************************************************************)
EXTENDS Integers

CONSTANT SeqMax   \* largest value of aodvv2_seqnum_t

\* The modulus SeqMax + 1 is even and leaves room for 1 and its successor.
ASSUME SeqMaxAssumption == SeqMax \in Nat /\ SeqMax >= 3 /\ SeqMax % 2 = 1

SeqNumMod == SeqMax + 1

SeqNum == 0..SeqMax

\* The implicit conversion of a wider unsigned value to aodvv2_seqnum_t.
ToSeqNum(n) == n % SeqNumMod

\* aodvv2_seqnum_cmp: the 16-bit two's complement reading of the difference.
SeqnumCmp(existing, received) ==
    LET diff == (received - existing) % SeqNumMod
    IN  IF diff >= SeqNumMod \div 2 THEN diff - SeqNumMod ELSE diff
=============================================================================
