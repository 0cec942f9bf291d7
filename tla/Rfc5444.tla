------------------------------ MODULE Rfc5444 ------------------------------
(***************************************************************************)
(* The RFC 5444 library (oonf_api/rfc5444) as one node uses it: a writer   *)
(* with one target puts messages into packets, a reader takes packets      *)
(* apart, calls its consumers and gives messages back to the writer to be  *)
(* forwarded.  rfc5444_writer_create_message calls the content provider;   *)
(* what the provider adds is one step each, between CreateMessage and      *)
(* Finish, while the state of the writer keeps everything else away.       *)
(*                                                                         *)
(* A packet sent may reach the reader once or never, in any order, and     *)
(* with its end missing.                                                   *)
(***************************************************************************)
EXTENDS Rfc5444WriterOps, Rfc5444ReaderOps, TLC

CONSTANTS
  MsgType, Originator, HopLimit,  \* what the message creator puts in the header
  Prefix, Required,               \* the addresses [bin, plen] a provider may add, those of
                                  \* them it may ask to be in every fragment
  MessageTlv, AddressTlv,         \* the TLVs [type, ext, val] it may add
  HasPktSeqno, PacketTlvs,        \* what the packet handlers add to a packet
  PacketSize, MsgSize, AddrTlvSize,
  Consumers,                      \* the reader's consumers, as registered
  Verdict,                        \* what their callbacks may return
  Cut,                            \* how many bytes a packet may lose at its end
  MaxMessages, MaxAddresses,      \* bounds: messages; addresses and, with them, TLVs
  MaxItems                        \* of all messages together

ASSUME Rfc5444Assumption ==
  /\ PacketSize \in Nat /\ MsgSize \in Nat /\ AddrTlvSize \in Nat
  /\ Required \subseteq Prefix /\ HasPktSeqno \in BOOLEAN /\ 0 \in Cut /\ Cut \subseteq Nat

VARIABLES
  writer,      \* struct rfc5444_writer and the message under construction
  target,      \* struct rfc5444_writer_target
  out,         \* every packet sent
  asked,       \* what the creator of each message was told is in it
  read,        \* the packets (places in out) the reader has been given
  got          \* what it made of the packet it was given last, until the next step
vars == <<writer, target, out, asked, read, got>>

NothingRead ==
  [result |-> "OKAY", msgs |-> <<>>, calls |-> <<>>, forwards |-> <<>>, verdict |-> <<>>,
   packet |-> 0, cut |-> 0]
Idle == [state |-> "NONE", hops |-> FALSE, msg |-> TlvData(0, 0), late |-> <<>>,
         head |-> <<>>, nonMandatory |-> <<>>, addrtlvUsed |-> 0]

\* rfc5444_writer_init, rfc5444_writer_register_target.
Init ==
  /\ writer = Idle
  /\ target = [pkt |-> TlvData(0, PacketSize), bin |-> <<>>, flushed |-> TRUE, seqno |-> 0]
  /\ out = <<>> /\ asked = <<>> /\ read = {} /\ got = NothingRead

-----------------------------------------------------------------------------
(* Packets: rfc5444_pkt_generator.c *)

BeginPacket(t) ==
  [t EXCEPT !.pkt = FoldLeft(TlvAdd, TlvData(3 + Bit(HasPktSeqno, 2), PacketSize), PacketTlvs),
            !.flushed = FALSE, !.seqno = @ + 1]

WritePktheader(t) ==
  LET tlvs == t.pkt.added \o t.pkt.set
  IN  <<Bit(HasPktSeqno, 8) + Bit(tlvs # <<>>, 4)>>
        \o (IF HasPktSeqno THEN U16(t.seqno % 65536) ELSE <<>>)
        \o (IF tlvs # <<>> THEN U16(Len(tlvs)) \o tlvs ELSE <<>>)

\* The state of the target and the packets sent, after a flush.
FlushTarget(ts) ==
  IF ts.target.flushed THEN ts
  ELSE [target |-> [ts.target EXCEPT !.pkt.set = <<>>, !.bin = <<>>, !.flushed = TRUE],
        out |-> Append(ts.out, WritePktheader(ts.target) \o ts.target.bin)]

\* rfc5444_writer_flush, by the node; force makes an empty packet.
Flush(force) ==
  LET ready == IF target.flushed /\ force THEN BeginPacket(target) ELSE target
      ts == FlushTarget([target |-> ready, out |-> out])
  IN  /\ writer.state = "NONE"
      /\ target.flushed => force /\ asked = <<>> /\ out = <<>>    \* bound: one empty packet
      /\ target' = ts.target /\ out' = ts.out
      /\ got' = NothingRead
      /\ UNCHANGED <<writer, asked, read>>

-----------------------------------------------------------------------------
(* A message under construction *)

Addresses == writer.head \o writer.nonMandatory

\* What the messages have in them so far, for the bounds.
AddressCount == Len(Addresses) + Total(Map(asked, LAMBDA q : Len(q.addrs)))
TlvCount(list) == Total(Map(list, LAMBDA a : Len(a.tlvs)))
ItemCount == AddressCount + TlvCount(asked) + Len(writer.late) + TlvCount(Addresses)
               + Total(Map(asked, LAMBDA q : TlvCount(q.addrs)))

MayAddItem == ItemCount < MaxItems

HeaderSize(hops) == 6 + AddrLen + 2 + Bit(hops, 2)

\* rfc5444_writer_create_message up to the first content provider.
CreateMessage(hops) ==
  LET t == IF target.flushed THEN BeginPacket(target) ELSE target
      room == PacketSize - Used(t.pkt)
  IN  /\ writer.state = "NONE" /\ Len(asked) < MaxMessages
      /\ asked = <<>> => out = <<>>                                \* bound
      /\ target' = t
      /\ writer' = [Idle EXCEPT !.state = "ADD_MSGTLV", !.hops = hops,
                      !.msg = TlvData(HeaderSize(hops), IF room < MsgSize THEN room ELSE MsgSize)]
      /\ asked' = Append(asked, [tlvs |-> <<>>, must |-> {}, addrs |-> <<>>, result |-> "OPEN"])
      /\ got' = NothingRead
      /\ UNCHANGED <<out, read>>

AddMessageTlv(t) ==
  LET d == TlvAdd(writer.msg, t)
  IN  /\ writer.state = "ADD_MSGTLV" /\ MayAddItem
      /\ writer' = [writer EXCEPT !.msg = d]
      /\ asked' = [asked EXCEPT ![Len(asked)].tlvs = IF d = writer.msg THEN @ ELSE Append(@, t)]
      /\ got' = NothingRead
      /\ UNCHANGED <<target, out, read>>

\* The provider sets the TLV when the fragment is finished.
AllocateMessageTlv(t) ==
  LET d == TlvAllocate(writer.msg, t.ext # 0, Len(t.val))
  IN  /\ writer.state = "ADD_MSGTLV" /\ MayAddItem
      /\ writer' = [writer EXCEPT !.msg = d,
                                  !.late = IF d = writer.msg THEN @ ELSE Append(@, t)]
      /\ got' = NothingRead
      /\ UNCHANGED <<target, out, asked, read>>

SamePrefix(a, p) == a.bin = p.bin /\ a.plen = p.plen

\* rfc5444_writer_add_address: an address added before keeps its list.
AddAddress(p, mandatory) ==
  LET Raised(list) == Map(list, LAMBDA a :
        IF SamePrefix(a, p) THEN [a EXCEPT !.mandatory = @ \/ mandatory] ELSE a)
      new == [bin |-> p.bin, plen |-> p.plen, mandatory |-> mandatory, tlvs |-> <<>>]
      known == \E a \in ToSet(Addresses) : SamePrefix(a, p)
  IN  /\ writer.state \in {"ADD_MSGTLV", "ADD_ADDRESSES"}
      /\ known \/ (AddressCount < MaxAddresses /\ MayAddItem)
      /\ writer' = [writer EXCEPT !.state = "ADD_ADDRESSES",
           !.head = IF known THEN Raised(@) ELSE IF mandatory THEN Append(@, new) ELSE @,
           !.nonMandatory = IF known THEN Raised(@) ELSE IF mandatory THEN @ ELSE Append(@, new)]
      /\ got' = NothingRead
      /\ UNCHANGED <<target, out, asked, read>>

\* rfc5444_writer_add_addrtlv without allow_dup.
AddAddrtlv(p, t) ==
  LET Given(list) == Map(list, LAMBDA a :
        IF SamePrefix(a, p) THEN [a EXCEPT !.tlvs = InTree(@, t, LowerType)] ELSE a)
  IN  /\ writer.state = "ADD_ADDRESSES"
      /\ \E a \in ToSet(Addresses) :
           SamePrefix(a, p) /\ \A u \in ToSet(a.tlvs) : FullType(u) # FullType(t)
      /\ writer.addrtlvUsed + Len(t.val) <= AddrTlvSize
      /\ MayAddItem
      /\ writer' = [writer EXCEPT !.head = Given(@), !.nonMandatory = Given(@),
                                  !.addrtlvUsed = @ + Len(t.val)]
      /\ got' = NothingRead
      /\ UNCHANGED <<target, out, asked, read>>

-----------------------------------------------------------------------------
(* The end of a message *)

\* _write_msgheader.
WriteMsgheader(d, addrs) ==
  <<MsgType, 128 + Bit(writer.hops, 96) + 16 + AddrLen - 1>>
    \o U16(d.header + Len(d.added) + Len(d.set) + Len(addrs)) \o Originator
    \o (IF writer.hops THEN <<HopLimit, 0>> ELSE <<>>)
    \o U16(Len(asked)) \o U16(Len(d.added) + Len(d.set))

\* Variant: the bytes already in the packet are forgotten.
FullForgetful(pkt, bin, size) == pkt.header + Len(pkt.added) + Len(pkt.set) + size > pkt.max

Full(pkt, bin, size) == pkt.header + Len(pkt.added) + Len(pkt.set) + Len(bin) + size > pkt.max

\* _finalize_message_fragment.
FinalizeFragment(ts, addrs) ==
  LET d == FoldLeft(TlvSet, [writer.msg EXCEPT !.set = <<>>], writer.late)
      bytes == WriteMsgheader(d, addrs) \o d.added \o d.set \o addrs
      flushed == FlushTarget(ts)
      begun == IF Full(ts.target.pkt, ts.target.bin, Len(bytes))
               THEN [flushed EXCEPT !.target = BeginPacket(@)] ELSE ts
  IN  [begun EXCEPT !.target.bin = @ \o bytes]

\* What the loop over the addresses makes of them.
Fragmented(A) ==
  IF A = <<>> THEN [result |-> "OKAY", frags |-> <<[list |-> <<>>, bytes |-> <<>>]>>]
  ELSE Fragments(SessionStart(A), A, writer.msg.max - Used(writer.msg))

\* rfc5444_writer_create_message after the content providers.
Finish ==
  /\ writer.state \in {"ADD_MSGTLV", "ADD_ADDRESSES"}
  /\ \E s \in {Fragmented(Addresses)} :
       /\ \E ts \in {FoldLeft(LAMBDA t, f : FinalizeFragment(t, f.bytes),
                             [target |-> target, out |-> out], s.frags)} :
            target' = ts.target /\ out' = ts.out
       /\ asked' = [asked EXCEPT ![Len(asked)] =
                     [tlvs |-> @.tlvs \o writer.late, must |-> DOMAIN writer.head,
                      addrs |-> Addresses, result |-> s.result]]
       /\ writer' = IF s.result = "LOOPS" THEN [writer EXCEPT !.state = "HANGS"] ELSE Idle
  /\ got' = NothingRead
  /\ UNCHANGED read

-----------------------------------------------------------------------------
(* The reader, and forwarding *)

HopLimitAt(bytes) == 5 + (IF Has(bytes[2], 128) THEN (bytes[2] % 16) + 1 ELSE 0)
HopCountAt(bytes) == HopLimitAt(bytes) + Bit(Has(bytes[2], 64), 1)

\* Variant: the hop limit is left as it is.
HoppedUnlimited(bytes) ==
  IF Has(bytes[2], 32) THEN [bytes EXCEPT ![HopCountAt(bytes)] = (@ + 1) % 256] ELSE bytes

\* The header of a message sent on.
Hopped(bytes) ==
  LET limited == IF Has(bytes[2], 64) THEN [bytes EXCEPT ![HopLimitAt(bytes)] = @ - 1] ELSE bytes
  IN  IF Has(bytes[2], 32) THEN [limited EXCEPT ![HopCountAt(bytes)] = (@ + 1) % 256] ELSE limited

\* rfc5444_writer_forward_msg.
ForwardMsg(ts, bytes) ==
  LET Room(t) == t.pkt.max - (Used(t.pkt) + Len(t.bin))
      flushed == IF ~ts.target.flushed /\ Len(bytes) > Room(ts.target) THEN FlushTarget(ts) ELSE ts
      begun == IF flushed.target.flushed
               THEN [flushed EXCEPT !.target = BeginPacket(@)] ELSE flushed
  IN  IF Len(bytes) > Room(begun.target) THEN begun
      ELSE [begun EXCEPT !.target.bin = @ \o Hopped(bytes)]

\* rfc5444_reader_handle_packet on the k-th packet, of which cut bytes are missing.
Receive(k, verdict, cut) ==
  /\ writer.state = "NONE" /\ k \notin read /\ cut < Len(out[k])
  /\ cut = 0 \/ verdict = <<>>           \* bound: one disturbance
  /\ read' = read \cup {k}
  /\ \E g \in {HandlePacket(SubSeq(out[k], 1, Len(out[k]) - cut), Consumers, verdict)} :
       /\ got' = g @@ [verdict |-> verdict, packet |-> k, cut |-> cut]
       /\ \E ts \in {FoldLeft(ForwardMsg, [target |-> target, out |-> out], g.forwards)} :
            target' = ts.target /\ out' = ts.out
  /\ UNCHANGED <<writer, asked>>

Next ==
  \/ \E force \in BOOLEAN : Flush(force)
  \/ \E hops \in BOOLEAN : CreateMessage(hops)
  \/ \E t \in MessageTlv : AddMessageTlv(t)
  \/ \E t \in MessageTlv : AllocateMessageTlv(t)
  \/ \E p \in Prefix : AddAddress(p, FALSE)
  \/ \E p \in Required : AddAddress(p, TRUE)
  \/ \E p \in Prefix, t \in AddressTlv : AddAddrtlv(p, t)
  \/ Finish
  \/ \E k \in DOMAIN out, verdict \in Verdict, cut \in Cut : Receive(k, verdict, cut)

Spec == Init /\ [][Next]_vars

-----------------------------------------------------------------------------
(* Properties *)

\* Everything written so far, as whole packets, and what a reader makes of it.
Written == FlushTarget([target |-> target, out |-> out]).out
Reading(packets) == Map(packets, LAMBDA b : HandlePacket(b, Consumers, <<>>))
MsgsIn(readings) == Concat(Map(readings, LAMBDA r : r.msgs))

TlvAt(t, idx) == [type |-> t.type, ext |-> t.ext, val |-> ValueAt(t, idx)]

\* The addresses of a message with the TLVs that apply to them.
AddressesOf(m) ==
  Concat([k \in DOMAIN m.blocks |-> [i \in DOMAIN m.blocks[k].addrs |->
    [addr |-> m.blocks[k].addrs[i],
     tlvs |-> {TlvAt(t, i - 1) : t \in {u \in ToSet(m.blocks[k].tlvs) : Covers(u, i - 1)}}]]])

Wanted(a) == [addr |-> [bin |-> a.bin, plen |-> a.plen], tlvs |-> ToSet(a.tlvs)]

AsAsked(q, frags) ==
  LET must  == [i \in q.must |-> Wanted(q.addrs[i])]
      rest  == SubSeq(q.addrs, Len(must) + 1, Len(q.addrs))
      once  == {Wanted(a) : a \in {x \in ToSet(rest) : ~x.mandatory}}
      Begin(f) == SubSeq(AddressesOf(f), 1, Len(must))
      More(f)  == SubSeq(AddressesOf(f), Len(must) + 1, Len(AddressesOf(f)))
  IN  /\ frags # <<>>
      /\ \A f \in ToSet(frags) : /\ Begin(f) = must
                                 /\ {TlvAt(t, 0) : t \in ToSet(f.tlvs)} = ToSet(q.tlvs)
                                 /\ Len(f.tlvs) = Len(q.tlvs)
      /\ \A all \in {Concat(Map(frags, More))} :
           /\ ToSet(all) = ToSet(Map(rest, Wanted))
           /\ SelectSeq(all, LAMBDA w : w \in once)
                = SelectSeq(Map(rest, Wanted), LAMBDA w : w \in once)

\* Whatever blocks and fragments the writer chose, a reader gets out of the
\* fragments of a message what its creator put in: in every fragment the message
\* TLVs and the addresses that must be in all, in order, and every other address
\* once, each with its own TLVs (rfc5444_msg_generator.c:851, :1069, :1214 against
\* rfc5444_reader.c:447 and :808).
ReassembledAsAsked ==
  writer.state = "NONE" => \A seen \in {Reading(Written)} : \A msgs \in {MsgsIn(seen)} :
    /\ \A r \in ToSet(seen) : r.result = "OKAY"
    /\ \A n \in DOMAIN asked : asked[n].result = "OKAY" =>
         AsAsked(asked[n], SelectSeq(msgs, LAMBDA m : m.seqno = n /\ m.hopcount = 0))

OnePlen(q) == \A a, b \in ToSet(q.addrs) : a.plen = b.plen

\* No message and no packet outgrows its buffer: the running estimate of what an
\* address costs (rfc5444_msg_generator.c:851) is never below what is written, as
\* long as a message does not mix prefix lengths (line 961 counts those wrongly).
PacketsFit ==
  writer.state = "NONE" => \A k \in DOMAIN Written : \A b \in {Written[k]} :
    \A msgs \in {ToSet(HandlePacket(b, <<>>, <<>>).msgs)} :
      (\A m \in msgs : OnePlen(asked[m.seqno])) =>
        Len(b) <= PacketSize /\ \A m \in msgs : Len(m.bytes) <= MsgSize

\* A message sent on is the one that was read, one hop further: nothing else of
\* it changes, wherever its header puts the hop fields and whatever it shares
\* its packet with (rfc5444_msg_generator.c:544).
ForwardedIntact ==
  writer.state = "NONE" => \A msgs \in {ToSet(MsgsIn(Reading(Written)))} :
    \A m \in msgs : m.hopcount > 0 =>
      /\ m.hoplimit + m.hopcount = HopLimit
      /\ \E o \in msgs : o = [m EXCEPT !.hopcount = 0, !.hoplimit = HopLimit,
                                       !.start = o.start, !.bytes = o.bytes]

\* How many bytes the messages ms take, from the i-th on.
BytesFrom(ms, i) == FoldLeft(LAMBDA sum, m : sum + Len(m.bytes), 0, SubSeq(ms, i, Len(ms)))

\* Of a packet whose end is missing the reader takes the messages that are
\* whole, all of them and no other, and says that it ends too early unless the
\* cut falls between two messages (rfc5444_reader.c:1134: the size field is checked
\* before anything is read).
OnlyWholeMessages ==
  got.packet # 0 /\ got.verdict = <<>> =>
    \E sent \in {HandlePacket(out[got.packet], <<>>, <<>>).msgs} :
      LET whole == {i \in DOMAIN sent : BytesFrom(sent, i + 1) >= got.cut}
          ends  == {BytesFrom(sent, i) : i \in 1 .. Len(sent) + 1}
      IN  /\ got.msgs = SubSeq(sent, 1, Cardinality(whole))
          /\ got.result = IF got.cut \in ends THEN "OKAY" ELSE "END_OF_BUFFER"

ConsumerOf(call) == CHOOSE c \in ToSet(Consumers) : c.id = call.id
ReturnOf(call) ==
  Says(got.verdict, ConsumerOf(call), IF call.what = "end" THEN -1 ELSE call.at.n)

\* A consumer is shown for an address exactly the values of the TLVs its entries
\* name, though the TLVs of the block are shared by index ranges and multivalue
\* fields and walked once for all entries (rfc5444_reader.c:623).
ConsumerSeesItsTlvs ==
  \A call \in ToSet(got.calls) : call.what = "block" /\ call.at.n > 0 =>
    \E a \in ToSet(asked[call.at.msg].addrs) :
      /\ SamePrefix(a, call.at.addr)
      /\ \A j \in DOMAIN call.found :
           LET x == ConsumerOf(call).entries[j]
               mine == SelectSeq(a.tlvs, LAMBDA t : IF x.matchExt THEN IntOrder(t) = IntOrder(x)
                                                    ELSE t.type = x.type)
           IN  call.found[j] = Map(mine, LAMBDA t : t.val)

CallsOf(c, what) == {i \in DOMAIN got.calls : got.calls[i].id = c.id /\ got.calls[i].what = what}

\* A drop reaches the later consumers of what was dropped, the address, the
\* message or the packet, and no one else (rfc5444_reader.c:1016, :1225, :237).  A
\* message consumer that was called is called once more when the message ends.
DropsReachTheLater ==
  /\ \A i, j \in DOMAIN got.calls : i < j /\ got.calls[j].what = "block" =>
       LET first == got.calls[i]
           later == got.calls[j]
           r     == ReturnOf(first)
           same  == first.at.start = later.at.start
       IN  /\ r # DROP_PACKET
           /\ r \in {DROP_MSG_BUT_FORWARD, DROP_MESSAGE} => ~same
           /\ r = DROP_ADDRESS /\ first.at.n > 0 => ~(same /\ first.at.n = later.at.n)
  /\ \A c \in ToSet(Consumers) : c.ends /\ ~c.addrblock =>
       Cardinality(CallsOf(c, "end")) = Cardinality(CallsOf(c, "block"))

=============================================================================
