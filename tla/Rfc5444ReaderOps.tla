-------------------------- MODULE Rfc5444ReaderOps --------------------------
(***************************************************************************)
(* How the RFC 5444 reader (oonf_api/rfc5444/rfc5444_reader.c) takes a     *)
(* packet apart and hands it to its consumers.  A packet is a sequence of  *)
(* bytes; a reading position p runs over it up to the last byte e that may *)
(* be read.  A callback of a consumer does nothing to the reader but give  *)
(* it a result: verdict has the results that are not OKAY.                 *)
(***************************************************************************)
EXTENDS Integers, Sequences, SequencesExt, FiniteSets

OKAY == 0
DROP_TLV == 1
DROP_ADDRESS == 2
DROP_MSG_BUT_FORWARD == 3
DROP_MESSAGE == 4
DROP_PACKET == 5

Has(flags, v) == (flags \div v) % 2 = 1
Map1(s, F(_)) == [i \in DOMAIN s |-> F(s[i])]
Larger(a, b) == IF a > b THEN a ELSE b

\* _rfc5444_get_u8 and _get_u16: 0 for what is not there.  The pointer stays
\* at the end then and END_OF_BUFFER is remembered; here p runs on past e + 1.
Byte(b, p, e) == IF p <= e THEN b[p] ELSE 0
Word(b, p, e) == 256 * Byte(b, p, e) + Byte(b, p + 1, e)

Fail(r) == [result |-> r]

-----------------------------------------------------------------------------
(* TLVs and TLV blocks *)

\* _parse_tlv in the order of its fields.  A TLV is [type, ext, from, to, multi,
\* len, val]: from and to are index1 and index2, val has one value of len bytes
\* for each address when multi.
TlvBody(b, v, e, h, covers, len) ==
  LET multi == Has(h.flags, 4) /\ len > 0 /\ covers # 1
  IN  IF v + len > e + 1 THEN Fail("END_OF_BUFFER")
      ELSE IF multi /\ covers = 0 THEN Fail("DIVISION_BY_ZERO")
      ELSE IF multi /\ len % covers # 0 THEN Fail("BAD_TLV_LENGTH")
      ELSE [result |-> "OKAY", next |-> v + len,
            tlv |-> [type |-> h.type, ext |-> h.ext, from |-> h.from, to |-> h.to,
                     multi |-> multi, len |-> IF multi THEN len \div covers ELSE len,
                     val |-> SubSeq(b, v, v + len - 1)]]

TlvLength(b, r, e, h, count) ==
  LET short == Has(h.flags, 16)
      long  == Has(h.flags, 8)
      covers == (h.to - h.from + 1) % 256
  IN  IF count > 0 /\ (h.from >= count \/ h.to >= count) THEN Fail("BAD_TLV_INDEX")
      ELSE IF long THEN IF short THEN TlvBody(b, r + 2, e, h, covers, Word(b, r, e))
                        ELSE Fail("BAD_TLV_VALUEFLAGS")
      ELSE IF short THEN TlvBody(b, r + 1, e, h, covers, Byte(b, r, e))
      ELSE TlvBody(b, r, e, h, covers, 0)

TlvIndexes(b, q, e, h, count) ==
  LET one == Has(h.flags, 64)
      two == Has(h.flags, 32)
      i   == Byte(b, q, e)
  IN  IF one /\ two THEN Fail("BAD_TLV_IDXFLAGS")
      ELSE IF two
      THEN TlvLength(b, q + 2, e, h @@ [from |-> i, to |-> Byte(b, q + 1, e)], count)
      ELSE IF one THEN TlvLength(b, q + 1, e, h @@ [from |-> i, to |-> i], count)
      ELSE TlvLength(b, q, e, h @@ [from |-> 0, to |-> (count - 1) % 256], count)

ParseTlv(b, p, e, count) ==
  LET flags == Byte(b, p + 1, e)
      ext   == Has(flags, 128)
  IN  TlvIndexes(b, p + (IF ext THEN 3 ELSE 2), e,
                 [type |-> Byte(b, p, e), flags |-> flags,
                  ext |-> IF ext THEN Byte(b, p + 2, e) ELSE 0], count)

IntOrder(t) == 256 * t.type + t.ext

\* avl_insert into a tree with duplicates: behind the first of the same key.
InTree(tree, x, Before(_, _)) ==
  LET lower == {i \in DOMAIN tree : Before(tree[i], x)}
      same  == {i \in DOMAIN tree : ~Before(tree[i], x) /\ ~Before(x, tree[i])}
  IN  InsertAt(tree, 1 + Cardinality(lower) + (IF same = {} THEN 0 ELSE 1), x)

LowerType(s, t) == IntOrder(s) < IntOrder(t)

RECURSIVE ParseTlvs(_, _, _, _, _, _), TlvParsed(_, _, _, _, _, _)
ParseTlvs(b, p, end, e, count, tlvs) ==
  IF p >= end THEN [result |-> "OKAY", next |-> p, tlvs |-> tlvs]
  ELSE TlvParsed(b, ParseTlv(b, p, e, count), end, e, count, tlvs)

TlvParsed(b, t, end, e, count, tlvs) ==
  IF t.result # "OKAY" THEN Fail(t.result)
  ELSE ParseTlvs(b, t.next, end, e, count, InTree(tlvs, t.tlv, LowerType))

ParseTlvblock(b, p, e, count) ==
  LET end == p + 2 + Word(b, p, e)
  IN  IF end > e + 1 THEN Fail("END_OF_BUFFER")
      ELSE ParseTlvs(b, p + 2, end, e, count, <<>>)

-----------------------------------------------------------------------------
(* Address blocks and messages *)

\* The addresses behind the head h.head and the tail h.tail of a block, whose
\* middle parts and prefix lengths start at mids.
Middles(b, mids, e, h, midLen, addrLen) ==
  LET ends   == mids + midLen * h.num
      single == Has(h.flags, 16)
      many   == Has(h.flags, 8)
      next   == ends + (IF single THEN 1 ELSE IF many THEN h.num ELSE 0)
      Plen(i) == IF many THEN b[ends + i - 1] ELSE IF single THEN b[ends] ELSE 8 * addrLen
  IN  IF mids > e + 1 \/ ends > e + 1 THEN Fail("END_OF_BUFFER")
      ELSE IF single /\ many THEN Fail("BAD_MSG_PREFIXFLAGS")
      ELSE IF next > e + 1 THEN Fail("END_OF_BUFFER")
      ELSE [result |-> "OKAY", next |-> next,
            addrs |-> [i \in 1 .. h.num |->
              [bin  |-> h.head \o SubSeq(b, mids + midLen * (i - 1), mids + midLen * i - 1)
                          \o h.tail,
               plen |-> Plen(i)]]]

Tailed(b, q, e, h, addrLen) ==
  LET zero == Has(h.flags, 32)
      full == Has(h.flags, 64)
      len  == IF zero \/ full THEN Byte(b, q, e) ELSE 0
      mids == q + (IF full THEN 1 + len ELSE IF zero THEN 1 ELSE 0)
  IN  IF q > e + 1 THEN Fail("END_OF_BUFFER")
      ELSE IF full /\ zero THEN Fail("BAD_MSG_TAILFLAGS")
      ELSE IF full /\ (len < 1 \/ len >= addrLen) THEN Fail("BAD_ADDR_TAIL_LENGTH")
      ELSE Middles(b, mids, e,
                   h @@ [tail |-> IF full THEN SubSeq(b, q + 1, q + len) ELSE [i \in 1 .. len |-> 0]],
                   (addrLen - Len(h.head) - len) % 256, addrLen)

ParseAddrblock(b, p, e, addrLen) ==
  LET num   == Byte(b, p, e)
      flags == Byte(b, p + 1, e)
      len   == Byte(b, p + 2, e)
  IN  IF num = 0 THEN Fail("EMPTY_ADDRBLOCK")
      ELSE IF ~Has(flags, 128)
      THEN Tailed(b, p + 2, e, [num |-> num, flags |-> flags, head |-> <<>>], addrLen)
      ELSE IF len < 1 \/ len >= addrLen THEN Fail("BAD_ADDR_HEAD_LENGTH")
      ELSE Tailed(b, p + 3 + len, e,
                  [num |-> num, flags |-> flags, head |-> SubSeq(b, p + 3, p + 2 + len)], addrLen)

RECURSIVE ParseBlocks(_, _, _, _, _), AddressesParsed(_, _, _, _, _), TlvblockParsed(_, _, _, _, _, _)
ParseBlocks(b, p, e, addrLen, blocks) ==
  IF p > e THEN [result |-> "OKAY", blocks |-> blocks]
  ELSE AddressesParsed(b, ParseAddrblock(b, p, e, addrLen), e, addrLen, blocks)

AddressesParsed(b, a, e, addrLen, blocks) ==
  IF a.result # "OKAY" THEN Fail(a.result)
  ELSE TlvblockParsed(b, a.addrs, ParseTlvblock(b, a.next, e, Len(a.addrs)), e, addrLen, blocks)

TlvblockParsed(b, addrs, t, e, addrLen, blocks) ==
  IF t.result # "OKAY" THEN Fail(t.result)
  ELSE ParseBlocks(b, t.next, e, addrLen, Append(blocks, [addrs |-> addrs, tlvs |-> t.tlvs]))

\* Variant: a message is taken to end where the packet does, if that is earlier.
MessageEndClipped(p, size, e) == IF p + size - 1 > e THEN e ELSE p + size - 1

MessageEnd(p, size, e) == p + size - 1

\* The parsing half of _handle_message.
ParseMessage(b, p, e) ==
  LET flags == Byte(b, p + 1, e)
      size  == Word(b, p + 2, e)
      addrLen == (flags % 16) + 1
      o     == p + 4
      limitAt == o + (IF Has(flags, 128) THEN addrLen ELSE 0)
      countAt == limitAt + (IF Has(flags, 64) THEN 1 ELSE 0)
      seqAt == countAt + (IF Has(flags, 32) THEN 1 ELSE 0)
      tlvAt == seqAt + (IF Has(flags, 16) THEN 2 ELSE 0)
      end   == MessageEnd(p, size, e)
      t     == ParseTlvblock(b, tlvAt, end, 0)
      r     == ParseBlocks(b, t.next, end, addrLen, <<>>)
  IN  IF tlvAt > e + 1 \/ end > e THEN Fail("END_OF_BUFFER")
      ELSE IF t.result # "OKAY" THEN Fail(t.result)
      ELSE IF r.result # "OKAY" THEN Fail(r.result)
      ELSE [result |-> "OKAY", next |-> end + 1,
            msg |-> [type |-> Byte(b, p, e), addrLen |-> addrLen,
                     orig |-> SubSeq(b, o, limitAt - 1),
                     hasLimit |-> Has(flags, 64), hoplimit |-> IF Has(flags, 64) THEN Byte(b, limitAt, e) ELSE 0,
                     hopcount |-> IF Has(flags, 32) THEN Byte(b, countAt, e) ELSE 0,
                     seqno |-> IF Has(flags, 16) THEN Word(b, seqAt, e) ELSE 0,
                     tlvs |-> t.tlvs, blocks |-> r.blocks, start |-> p, bytes |-> SubSeq(b, p, end)]]

-----------------------------------------------------------------------------
(* Consumers.  A consumer is [id, order, addrblock, type, entries, ends]:  *)
(* it wants the message (or every address, addrblock) of one type, with    *)
(* the TLVs its entries name; ends says that it has an end_callback.       *)

\* What the callback of c returns: for the message (n = 0), for its n-th
\* address, or at its end (n = -1).
Says(verdict, c, n) == IF <<c.id, n>> \in DOMAIN verdict THEN verdict[<<c.id, n>>] ELSE OKAY

LowerEntry(x, y) == IntOrder(x) < IntOrder(y)

\* _add_consumer sorts the entries, equal ones in the order given.
SortedEntries(entries) ==
  FoldLeft(LAMBDA list, x :
             InsertAt(list, 1 + Cardinality({i \in DOMAIN list : ~LowerEntry(x, list[i])}), x),
           <<>>, entries)

LowerConsumer(c, d) ==
  c.order < d.order \/ (c.order = d.order /\ ~c.addrblock /\ d.addrblock)

AddConsumer(consumers, c) ==
  InTree(consumers,
         [c EXCEPT !.entries = Map1(SortedEntries(@),
            LAMBDA x : [x EXCEPT !.maxLen = Larger(x.minLen, @)])], LowerConsumer)

\* _compare_tlvtypes, for positions that may be past the end of either list.
CompareTypes(tlvs, i, entries, j) ==
  IF i > Len(tlvs) THEN (IF j > Len(entries) THEN 0 ELSE 1)
  ELSE IF j > Len(entries) THEN -1
  ELSE IF entries[j].matchExt THEN IntOrder(tlvs[i]) - IntOrder(entries[j])
  ELSE tlvs[i].type - entries[j].type

\* The value of a TLV for the address with index idx.
ValueAt(t, idx) ==
  IF t.multi THEN SubSeq(t.val, (idx - t.from) * t.len + 1, (idx - t.from + 1) * t.len) ELSE t.val

\* Variant: the index range of a TLV is not looked at.
CoversAll(t, idx) == TRUE

Covers(t, idx) == t.from <= idx /\ idx <= t.to

\* _schedule_tlvblock: walk the TLVs and the consumer's entries side by side.
RECURSIVE ScheduleTlvblock(_, _, _, _, _, _)
ScheduleTlvblock(tlvs, i, entries, j, idx, w) ==
  LET t     == tlvs[i]
      c     == entries[j]
      match == i <= Len(tlvs) /\ j <= Len(entries) /\ Covers(t, idx)
                 /\ CompareTypes(tlvs, i, entries, j) = 0
      badLen == match /\ c.matchLen /\ ~(t.len \in c.minLen .. c.maxLen)
      order == CompareTypes(tlvs, i, entries, j)
      next  == IF i <= Len(tlvs) /\ order <= 0 THEN i + 1 ELSE i
      done  == CompareTypes(tlvs, next, entries, j) > 0
      found == IF match THEN [w.found EXCEPT ![j] = Append(@, ValueAt(t, idx))] ELSE w.found
      failed == \/ w.failed
                \/ (order >= 0 \/ done) /\ c.mandatory /\ ~match
                \/ order >= 0 /\ badLen
  IN  IF i > Len(tlvs) /\ j > Len(entries) THEN w
      ELSE ScheduleTlvblock(tlvs, next, entries, IF done THEN j + 1 ELSE j, idx,
                            [found |-> found, failed |-> failed])

\* The block_callback; DROP_TLV does not get past it.
Block(st, c, tlvs, idx, at, verdict) ==
  LET w == ScheduleTlvblock(tlvs, 1, c.entries, 1, idx,
             [found |-> [j \in DOMAIN c.entries |-> <<>>], failed |-> FALSE])
      v == Says(verdict, c, at.n)
  IN  IF w.failed THEN st
      ELSE [st EXCEPT !.calls = Append(@, [id |-> c.id, what |-> "block", at |-> at,
                                           found |-> w.found, dropped |-> FALSE]),
                      !.result = IF v = DROP_TLV THEN OKAY ELSE v]

\* An end_callback is told whether the context was dropped.
End(st, c, at, verdict) ==
  IF ~c.ends THEN st
  ELSE [st EXCEPT !.calls = Append(@, [id |-> c.id, what |-> "end", at |-> at, found |-> <<>>,
                                       dropped |-> st.result # OKAY]),
                  !.result = Larger(@, Says(verdict, c, -1))]

MessageAt(m) == [msg |-> m.seqno, start |-> m.start, n |-> 0, addr |-> <<>>]
AddressAt(m, n, a) == [msg |-> m.seqno, start |-> m.start, n |-> n, addr |-> a]

\* Variant: the address is not marked as dropped.
AddressForgotten(st, n) == [st EXCEPT !.result = OKAY]

AddressDropped(st, n) == [st EXCEPT !.result = OKAY, !.drop = @ \cup {n}]

\* schedule_msgaddr_consumer: every address not dropped before, until one of
\* the callbacks drops more than an address.
ScheduleAddresses(st, c, m, verdict) ==
  LET all == FlattenSeq([k \in DOMAIN m.blocks |->
               [i \in DOMAIN m.blocks[k].addrs |-> <<k, i>>]])
      Visit(s, n) ==
        LET k  == all[n][1]
            i  == all[n][2]
            at == AddressAt(m, n, m.blocks[k].addrs[i])
            r  == End(Block(s, c, m.blocks[k].tlvs, i - 1, at, verdict), c, at, verdict)
        IN  IF s.result # OKAY \/ n \in s.drop THEN s
            ELSE IF r.result = DROP_ADDRESS THEN AddressDropped(r, n) ELSE r
  IN  FoldLeft(Visit, st, [n \in DOMAIN all |-> n])

\* schedule_end_message_cbs, for the consumers of same_order from the last.
EndMessage(st, m, verdict) ==
  FoldLeft(LAMBDA s, c : End(s, c, MessageAt(m), verdict), [st EXCEPT !.open = <<>>],
           Reverse(st.open))

ToConsumer(st, c, m, verdict) ==
  IF st.result # OKAY THEN st
  ELSE IF c.addrblock THEN ScheduleAddresses(st, c, m, verdict)
  ELSE [Block(st, c, m.tlvs, 0, MessageAt(m), verdict) EXCEPT !.open = Append(@, c)]

\* The scheduling half of _handle_message.  open holds same_order.
ScheduleMessage(consumers, m, verdict) ==
  LET Closes(st, c) == st.open # <<>> /\ c.order > Last(st.open).order
      Visit(st, c) ==
        IF st.result # OKAY THEN st
        ELSE ToConsumer(IF Closes(st, c) THEN EndMessage(st, m, verdict) ELSE st, c, m, verdict)
  IN  EndMessage(FoldLeft(Visit, [result |-> OKAY, calls |-> <<>>, drop |-> {}, open |-> <<>>],
                          SelectSeq(consumers, LAMBDA c : c.type = m.type)), m, verdict)

Forwards(m, result) ==
  result \in {OKAY, DROP_MSG_BUT_FORWARD} /\ m.hasLimit /\ m.hoplimit > 1

Handled(got, m, st) ==
  [got EXCEPT !.msgs = Append(@, m), !.calls = @ \o st.calls,
              !.forwards = @ \o (IF Forwards(m, st.result) THEN <<m.bytes>> ELSE <<>>)]

RECURSIVE HandleMessages(_, _, _, _, _), Parsed(_, _, _, _, _), Scheduled(_, _, _, _, _, _)
HandleMessages(b, p, consumers, verdict, got) ==
  IF p > Len(b) THEN got
  ELSE Parsed(b, ParseMessage(b, p, Len(b)), consumers, verdict, got)

Parsed(b, r, consumers, verdict, got) ==
  IF r.result # "OKAY" THEN [got EXCEPT !.result = r.result]
  ELSE Scheduled(b, r, ScheduleMessage(consumers, r.msg, verdict), consumers, verdict, got)

Scheduled(b, r, st, consumers, verdict, got) ==
  IF st.result = DROP_PACKET THEN Handled(got, r.msg, st)
  ELSE HandleMessages(b, r.next, consumers, verdict, Handled(got, r.msg, st))

\* rfc5444_reader_handle_packet.
HandlePacket(b, consumers, verdict) ==
  LET first == Byte(b, 1, Len(b))
      p     == IF Has(first, 8) THEN 4 ELSE 2
      t     == IF Has(first, 4) THEN ParseTlvblock(b, p, Len(b), 0)
               ELSE [result |-> "OKAY", next |-> p, tlvs |-> <<>>]
      none  == [result |-> "OKAY", msgs |-> <<>>, calls |-> <<>>, forwards |-> <<>>]
  IN  IF first \div 16 # 0 THEN [none EXCEPT !.result = "UNSUPPORTED_VERSION"]
      ELSE IF p > Len(b) + 1 THEN [none EXCEPT !.result = "END_OF_BUFFER"]
      ELSE IF t.result # "OKAY" THEN [none EXCEPT !.result = t.result]
      ELSE HandleMessages(b, t.next, consumers, verdict, none)

=============================================================================
