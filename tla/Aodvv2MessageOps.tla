-------------------------- MODULE Aodvv2MessageOps --------------------------
(***************************************************************************)
(* What the reader (aodvv2_reader.c) and the writer (aodvv2_writer.c) make *)
(* of a RREQ or RREP: the translation between a message on the air and the *)
(* static _msg_data of a router, as operators.                             *)
(*                                                                         *)
(* An address is a pair <<prefix, host>> of the two halves of an IPv6      *)
(* address, and a prefix length 128, 64 or 0 (never set).  A message on    *)
(* the air is its hop limit and the sequence of its addresses, each with   *)
(* the address TLVs attached to it: a function from the names of the TLVs  *)
(* that are present to their values.  The RFC 5444 library that packs and  *)
(* parses the bytes is taken as it is used: addresses come out in the      *)
(* order in which they were added, and the reader looks at the first byte  *)
(* of a TLV's value only.                                                  *)
(***************************************************************************)
EXTENDS Aodvv2SeqnumOps, Aodvv2MetricOps, SequencesExt

CONSTANTS Prefix, Host,   \* the halves of addresses
          ZeroPrefix, ZeroHost

ASSUME AddressAssumption == ZeroPrefix \in Prefix /\ ZeroHost \in Host

Addr == Prefix \X Host
Unspecified == <<ZeroPrefix, ZeroHost>>
PfxLen == {0, 64, 128}

\* node_data_t and aodvv2_message_t; SeqNoRtr and the timestamp are left out.
Node == [addr : Addr, pfx : PfxLen, metric : MetricValue, seqnum : SeqNum]
MsgData == [hopLimit : 0..255, sender : Addr, type : Nat, orig : Node, targ : Node]

NoNode == [addr |-> Unspecified, pfx |-> 0, metric |-> 0, seqnum |-> 0]
NoMsgData == [hopLimit |-> 0, sender |-> Unspecified, type |-> 0, orig |-> NoNode, targ |-> NoNode]

\* A prefix covers an address; a length of 0 is never tested.
InPrefix(addr, prefix, len) == prefix[1] = addr[1] /\ (len = 128 => prefix[2] = addr[2])
-----------------------------------------------------------------------------
\* The prefix length the writer puts on the air.
SentPfx(len) == IF len = 0 THEN 128 ELSE len

\* _cb_rreq_add_addresses
EncodeRreq(d) ==
    [kind |-> "RREQ", hopLimit |-> d.hopLimit, addrs |->
      << [addr |-> d.orig.addr, pfx |-> SentPfx(d.orig.pfx),
          tlv |-> [ORIGSEQNUM |-> d.orig.seqnum, METRIC |-> d.orig.metric]],
         [addr |-> d.targ.addr, pfx |-> SentPfx(d.targ.pfx), tlv |-> <<>>] >>]

\* _cb_rrep_add_addresses: TargSeqNum is the sending router's own number.
EncodeRrep(d, ownSeqnum) ==
    [kind |-> "RREP", hopLimit |-> d.hopLimit, addrs |->
      << [addr |-> d.orig.addr, pfx |-> SentPfx(d.orig.pfx),
          tlv |-> [ORIGSEQNUM |-> d.orig.seqnum]],
         [addr |-> d.targ.addr, pfx |-> SentPfx(d.targ.pfx),
          tlv |-> [TARGSEQNUM |-> ownSeqnum, METRIC |-> d.targ.metric]] >>]
-----------------------------------------------------------------------------
Has(a, name) == name \in DOMAIN a.tlv

\* *tlv->single_value
Byte(a, name) == a.tlv[name] % 256

\* netaddr_to_ipv6_addr: bits beyond the prefix keep what dst held before.
ToIpv6Addr(dst, a) == IF a.pfx = 128 THEN a.addr ELSE <<a.addr[1], dst[2]>>

Dropped(d) == [data |-> d, dropped |-> TRUE]
Okay(d) == [data |-> d, dropped |-> FALSE]

\* Assignments to fields of _msg_data.
WithMetric(node, metric) ==
    [addr |-> node.addr, pfx |-> node.pfx, metric |-> metric, seqnum |-> node.seqnum]

WithNodes(d, type, orig, targ) ==
    [hopLimit |-> d.hopLimit, sender |-> d.sender, type |-> type, orig |-> orig, targ |-> targ]

\* The metric TLV, which belongs to the address `owner' says it does; both
\* callbacks store its value as OrigNode's metric.
ReadMetric(d, a, owner) ==
    IF ~(Has(a, "METRIC") <=> owner) THEN Dropped(d)
    ELSE IF ~owner THEN Okay(d)
    ELSE Okay(WithNodes(d, METRIC_HOP_COUNT, WithMetric(d.orig, Byte(a, "METRIC")), d.targ))

\* _cb_rreq_blocktlv_addresstlvs_okay
ReadRreqAddress(d, a) ==
    LET orig ==
          IF ~Has(a, "ORIGSEQNUM") THEN d.orig
          ELSE [addr |-> ToIpv6Addr(d.orig.addr, a), pfx |-> a.pfx,
                metric |-> d.orig.metric, seqnum |-> Byte(a, "ORIGSEQNUM")]
        targ ==
          IF Has(a, "ORIGSEQNUM") /\ ~Has(a, "TARGSEQNUM") THEN d.targ
          ELSE [addr |-> ToIpv6Addr(d.targ.addr, a), pfx |-> a.pfx, metric |-> d.targ.metric,
                seqnum |-> IF Has(a, "TARGSEQNUM") THEN Byte(a, "TARGSEQNUM") ELSE d.targ.seqnum]
    IN  ReadMetric(WithNodes(d, d.type, orig, targ), a, Has(a, "ORIGSEQNUM"))

\* _cb_rrep_blocktlv_addresstlvs_okay: OrigNode's prefix length is stored as
\* TargNode's.
ReadRrepAddress(d, a) ==
    LET orig ==
          IF ~Has(a, "ORIGSEQNUM") THEN d.orig
          ELSE [addr |-> ToIpv6Addr(d.orig.addr, a), pfx |-> d.orig.pfx,
                metric |-> d.orig.metric, seqnum |-> Byte(a, "ORIGSEQNUM")]
        targ ==
          [addr   |-> IF Has(a, "TARGSEQNUM") THEN ToIpv6Addr(d.targ.addr, a) ELSE d.targ.addr,
           pfx    |-> a.pfx,
           metric |-> d.targ.metric,
           seqnum |-> IF Has(a, "TARGSEQNUM") THEN Byte(a, "TARGSEQNUM") ELSE d.targ.seqnum]
    IN  IF ~Has(a, "ORIGSEQNUM") /\ ~Has(a, "TARGSEQNUM") THEN Dropped(d)
        ELSE ReadMetric(WithNodes(d, d.type, orig, targ), a,
                        Has(a, "TARGSEQNUM") /\ ~Has(a, "ORIGSEQNUM"))

\* The message callback, then the address callback for every address until
\* one drops the message.
ReadMessage(old, sender, m) ==
    LET Begun(hopLimit) == [hopLimit |-> hopLimit, sender |-> sender, type |-> old.type,
                            orig |-> old.orig, targ |-> old.targ]
        Step(r, a) ==
          IF r.dropped THEN r
          ELSE IF m.kind = "RREQ" THEN ReadRreqAddress(r.data, a)
          ELSE ReadRrepAddress(r.data, a)
    IN  IF m.hopLimit = 0 THEN Dropped(Begun(0))
        ELSE FoldLeft(Step, Okay(Begun(m.hopLimit - 1)), m.addrs)

MetricLimitReached(type, metric) == MetricMax(type) - LinkCost(type) <= metric

\* The checks at the start of _cb_rreq_end_callback.
RreqRefused(r) ==
    \/ r.dropped
    \/ r.data.orig.addr = Unspecified \/ r.data.orig.seqnum = 0
    \/ r.data.targ.addr = Unspecified
    \/ r.data.hopLimit = 0
    \/ MetricLimitReached(r.data.type, r.data.orig.metric)

\* The checks at the start of _cb_rrep_end_callback.
RrepRefused(r) ==
    \/ r.dropped
    \/ r.data.orig.addr = Unspecified \/ r.data.orig.seqnum = 0
    \/ r.data.targ.addr = Unspecified \/ r.data.targ.seqnum = 0
    \/ MetricLimitReached(r.data.type, r.data.targ.metric)
=============================================================================
