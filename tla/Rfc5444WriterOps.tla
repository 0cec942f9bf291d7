-------------------------- MODULE Rfc5444WriterOps --------------------------
(***************************************************************************)
(* How the RFC 5444 writer (oonf_api/rfc5444) turns a list of addresses    *)
(* with address TLVs into the bytes of one or more message fragments: the  *)
(* running cost estimate that chooses the address blocks, the split into   *)
(* fragments, and the encoding of blocks, TLVs and headers.                *)
(*                                                                         *)
(* An address is [bin, plen, mandatory, tlvs], its TLVs [type, ext, val]   *)
(* ordered by full type.  An address is named by its place in the message. *)
(***************************************************************************)
EXTENDS Integers, Sequences, SequencesExt, FiniteSetsExt

CONSTANT AddrLen                      \* writer->msg_addr_len
ASSUME AddrLenAssumption == AddrLen \in 1 .. 15

Bit(b, v) == IF b THEN v ELSE 0       \* a flag of a flags byte
U16(n) == <<n \div 256, n % 256>>
FullType(t) == 256 * t.type + t.ext
Concat(ss) == FlattenSeq(ss)
Total(ns) == FoldLeft(LAMBDA a, b : a + b, 0, ns)
Map(s, F(_)) == [i \in DOMAIN s |-> F(s[i])]

-----------------------------------------------------------------------------
(* TLVs of messages and packets: rfc5444_tlv_writer.c *)

TlvSize(hasExt, len) ==
  2 + Bit(hasExt, 1) + len + (IF len > 255 THEN 2 ELSE Bit(len > 0, 1))

LengthField(len) == IF len > 255 THEN U16(len) ELSE IF len > 0 THEN <<len>> ELSE <<>>
LengthFlags(len) == Bit(len > 255, 8) + Bit(len > 0, 16)

WriteTlv(t) ==
  <<t.type, Bit(t.ext > 0, 128) + LengthFlags(Len(t.val))>>
    \o (IF t.ext > 0 THEN <<t.ext>> ELSE <<>>) \o LengthField(Len(t.val)) \o t.val

\* struct rfc5444_tlv_writer_data; added and set stand for the bytes behind the header.
TlvData(header, max) ==
  [header |-> header, added |-> <<>>, allocated |-> 0, set |-> <<>>, max |-> max]
Used(d) == d.header + Len(d.added) + d.allocated

TlvAdd(d, t) ==
  IF Used(d) + TlvSize(t.ext # 0, Len(t.val)) > d.max THEN d
  ELSE [d EXCEPT !.added = @ \o WriteTlv(t)]

TlvAllocate(d, hasExt, len) ==
  IF Used(d) + TlvSize(hasExt, len) > d.max THEN d
  ELSE [d EXCEPT !.allocated = @ + TlvSize(hasExt, len)]

TlvSet(d, t) ==
  IF d.allocated - Len(d.set) < TlvSize(t.ext # 0, Len(t.val)) THEN d
  ELSE [d EXCEPT !.set = @ \o WriteTlv(t)]

-----------------------------------------------------------------------------
(* Address compression.  For every head length i, acs[i] is the cheapest   *)
(* encoding found so far whose open block uses a head of i bytes.          *)

NoBlock == [start |-> 0, multi |-> FALSE, head |-> 0]
NoSession == [ptr |-> 0, multiplen |-> FALSE, closed |-> FALSE, total |-> 0, current |-> 0]

TlvOf(A, a, ft) ==
  LET hits == {t \in ToSet(A[a].tlvs) : FullType(t) = ft}
  IN  IF hits = {} THEN <<>> ELSE <<CHOOSE t \in hits : TRUE>>

SameLength(A, prev, a, t) ==
  prev # 0 /\ \E u \in ToSet(TlvOf(A, prev, FullType(t))) : Len(u.val) = Len(t.val)
SameValue(A, prev, a, t) ==
  prev # 0 /\ \E u \in ToSet(TlvOf(A, prev, FullType(t))) : u.val = t.val

TlvCost(t) ==
  2 + Bit(t.ext > 0, 1) + 2 + Bit(Len(t.val) > 255, 1) + Bit(Len(t.val) > 0, 1) + Len(t.val)

CommonHead(a, b) ==
  Max({h \in 0 .. AddrLen : \A i \in 1 .. h : a[i] = b[i]})

\* _close_addrblock: remember the best block ending at last for heads from `head`.
CloseAddrblock(s, last, head) ==
  LET heads == IF head < AddrLen THEN head .. AddrLen - 1 ELSE {head}
      best  == CHOOSE i \in heads : \A j \in heads :
                 s.acs[i].total < s.acs[j].total \/ (s.acs[i].total = s.acs[j].total /\ i <= j)
      keep  == s.acs[best].closed /\ s.blk[last].start # 0
  IN  [s EXCEPT
        !.blk[last] = IF keep THEN @
                      ELSE [start |-> s.acs[best].ptr, multi |-> s.acs[best].multiplen,
                            head |-> best],
        !.acs = [i \in DOMAIN @ |-> IF i > head /\ i < AddrLen
                                    THEN [@[i] EXCEPT !.total = s.acs[best].total] ELSE @[i]]]

\* What a TLV costs in a block that goes on.
ContinueTlv(A, prev, a, t, b) ==
  IF ~SameLength(A, prev, a, t) THEN TlvCost(t)
  ELSE IF b.multi THEN Len(t.val)
  ELSE IF ~SameValue(A, prev, a, t) THEN Len(t.val) * b.count
  ELSE 0

\* _compress_address for address a behind prev (0: the first of its fragment),
\* with which it shares a head of `head` bytes; same addresses in a row have its
\* prefix length.
Compress(s, A, prev, a, head, same) ==
  LET base == s.acs[AddrLen - 1].total
      Ended(i) == prev = 0 \/ head < i
      NewCost(i) == 2 + Bit(i > 0, 1) + AddrLen + Bit(A[a].plen # 8 * AddrLen, 1) + 2
                      + Total(Map(A[a].tlvs, TlvCost))
      Plens(i) == IF s.acs[i].multiplen THEN 1
                  ELSE IF same = 1 THEN s.index[s.acs[i].ptr] - s.index[a] + 1 ELSE 0
      Cost(i, t) == IF Ended(i) THEN TlvCost(t)
                    ELSE ContinueTlv(A, prev, a, t, s.tb[FullType(t)][i])
      Continue(i) == (IF Ended(i) THEN 0 ELSE AddrLen - i + Plens(i))
                       + Total(Map(A[a].tlvs, LAMBDA t : Cost(i, t)))
      Fresh(i) == Ended(i) \/ s.acs[i].total + Continue(i) > base + NewCost(i)
      Mine(ft) == TlvOf(A, a, ft)
  IN  [s EXCEPT
        !.same = same,
        !.acs = [i \in DOMAIN @ |->
           IF i = AddrLen THEN @[i]
           ELSE IF Fresh(i)
           THEN [ptr |-> a, multiplen |-> FALSE, closed |-> @[i].closed \/ prev # 0,
                 total |-> base, current |-> NewCost(i)]
           ELSE [@[i] EXCEPT !.multiplen = @ \/ same = 1, !.closed = FALSE,
                             !.current = Continue(i)]],
        !.tb = [ft \in DOMAIN @ |->
           IF Mine(ft) = <<>> THEN @[ft]
           ELSE [i \in DOMAIN @[ft] |->
                  IF Fresh(i) \/ ~SameLength(A, prev, a, Mine(ft)[1])
                  THEN [count |-> 1, multi |-> FALSE]
                  ELSE [count |-> @[ft][i].count + 1,
                        multi |-> @[ft][i].multi \/ ~SameValue(A, prev, a, Mine(ft)[1])]]]]

CompressBehind(s, A, prev, a, head) ==
  Compress(CloseAddrblock(s, prev, head), A, prev, a, head,
           IF A[prev].plen = A[a].plen THEN s.same + 1 ELSE 1)

\* For address a, the last of s.list.
CompressAddress(s, A, a) ==
  IF Len(s.list) = 1 THEN Compress(s, A, 0, a, 0, s.same)
  ELSE LET prev == s.list[Len(s.list) - 1]
       IN  CompressBehind(s, A, prev, a, CommonHead(A[prev].bin, A[a].bin))

-----------------------------------------------------------------------------
(* Encoding: _write_addresses and what it calls *)

\* The longest tail, leaving one byte between head and tail, that all share.
TailLen(A, members, head) ==
  Max({t \in 0 .. AddrLen - head - 1 : \A m \in ToSet(members), i \in 1 .. t :
         A[m].bin[AddrLen + 1 - i] = A[members[1]].bin[AddrLen + 1 - i]})

\* _write_addresstlv for the TLVs of one type on members seg.from .. seg.to.
WriteAddressTlv(A, members, ft, seg) ==
  LET Val(k) == TlvOf(A, members[k], ft)[1].val
      n     == Len(members)
      whole == seg.from = 1 /\ seg.to = n
      one   == seg.from = seg.to
      len   == (Len(Val(seg.from)) * (IF seg.same THEN 1 ELSE seg.to - seg.from + 1)) % 65536
      ext   == ft % 256
  IN  <<ft \div 256, Bit(ext # 0, 128) + Bit(~whole /\ one, 64) + Bit(~whole /\ ~one, 32)
                       + Bit(~seg.same, 4) + LengthFlags(len)>>
        \o (IF ext # 0 THEN <<ext>> ELSE <<>>)
        \o (IF whole THEN <<>> ELSE IF one THEN <<seg.from - 1>> ELSE <<seg.from - 1, seg.to - 1>>)
        \o LengthField(len)
        \o (IF seg.same THEN Val(seg.from)
            ELSE Concat([k \in 1 .. seg.to - seg.from + 1 |-> Val(seg.from + k - 1)]))

\* Variant: a value that changes does not make the TLV multivalue.
SegmentGrownSame(A, members, seg, k, t) == [seg EXCEPT !.to = k]

SegmentGrown(A, members, seg, k, t) ==
  [seg EXCEPT !.to = k, !.same = @ /\ SameValue(A, members[k - 1], members[k], t)]

\* _write_addresstlvs: one TLV of a type for a run of addresses that carry it.
WriteAddressTlvs(A, members) ==
  LET pairs == Concat([k \in DOMAIN members |->
                 [j \in DOMAIN A[members[k]].tlvs |-> <<k, A[members[k]].tlvs[j]>>]])
      types == {FullType(p[2]) : p \in ToSet(pairs)}
      Visit(w, p) ==
        LET k  == p[1]
            ft == FullType(p[2])
            seg == w.open[ft]
            new == [from |-> k, to |-> k, same |-> TRUE]
            goesOn == seg.to = k - 1 /\ Len(TlvOf(A, members[seg.to], ft)[1].val) = Len(p[2].val)
        IN  IF seg.to = 0
            THEN [w EXCEPT !.open[ft] = new, !.active = Append(@, ft)]
            ELSE IF goesOn
            THEN [w EXCEPT !.open[ft] = SegmentGrown(A, members, seg, k, p[2])]
            ELSE [w EXCEPT !.open[ft] = new, !.out = @ \o WriteAddressTlv(A, members, ft, seg)]
      Rest(w) == w.out \o Concat(Map(w.active, LAMBDA ft :
                                       WriteAddressTlv(A, members, ft, w.open[ft])))
  IN  Rest(FoldLeft(Visit, [open |-> [ft \in types |-> [from |-> 0, to |-> 0, same |-> TRUE]],
                            active |-> <<>>, out |-> <<>>], pairs))

WriteTlvblock(tlvs) == U16(Len(tlvs)) \o tlvs

\* The block of members, in which the first has the bytes bin.
WriteHeadTail(A, members, multi, bin, head, tail) ==
  LET ending == SubSeq(bin, AddrLen - tail + 1, AddrLen)
      zero == tail > 0 /\ ToSet(ending) = {0}
      single == ~multi /\ A[members[1]].plen # 8 * AddrLen
  IN  <<Len(members) % 256, Bit(head > 0, 128) + Bit(tail > 0 /\ ~zero, 64) + Bit(zero, 32)
                              + Bit(single, 16) + Bit(multi, 8)>>
        \o (IF head > 0 THEN <<head>> \o SubSeq(bin, 1, head) ELSE <<>>)
        \o (IF tail > 0 THEN <<tail>> \o (IF zero THEN <<>> ELSE ending) ELSE <<>>)
        \o Concat(Map(members, LAMBDA m : SubSeq(A[m].bin, head + 1, AddrLen - tail)))
        \o (IF multi THEN Map(members, LAMBDA m : A[m].plen)
            ELSE IF single THEN <<A[members[1]].plen>> ELSE <<>>)
        \o WriteTlvblock(WriteAddressTlvs(A, members))

WriteBlock(A, members, b) ==
  LET one == Len(members) = 1
  IN  WriteHeadTail(A, members, b.multi, A[members[1]].bin, IF one THEN 0 ELSE b.head,
                    IF one THEN 0 ELSE TailLen(A, members, b.head))

\* The blocks of a fragment, found from its last address backwards.
RECURSIVE WriteAddresses(_, _, _)
WriteAddresses(A, blk, list) ==
  LET b    == blk[Last(list)]
      from == CHOOSE i \in DOMAIN list : list[i] = b.start
  IN  IF list = <<>> THEN <<>>
      ELSE WriteAddresses(A, blk, SubSeq(list, 1, from - 1))
             \o WriteBlock(A, SubSeq(list, from, Len(list)), b)

-----------------------------------------------------------------------------
(* The loop of rfc5444_writer_create_message over the addresses.           *)

SessionStart(A) ==
  [p |-> 1, first |-> TRUE, firstp |-> 0, lastp |-> 0, list |-> <<>>, grew |-> FALSE,
   acs |-> <<>>, same |-> 0, tb |-> <<>>, idx |-> 0, index |-> [a \in DOMAIN A |-> 0],
   blk |-> [a \in DOMAIN A |-> NoBlock], done |-> {}, nonMandatory |-> 0,
   frags |-> <<>>, result |-> "OKAY"]

FragmentStart(s, A) ==
  LET types == {FullType(t) : t \in UNION {ToSet(A[a].tlvs) : a \in DOMAIN A}}
      none  == [i \in 0 .. AddrLen - 1 |-> [count |-> 0, multi |-> FALSE]]
  IN  [s EXCEPT !.acs = [i \in 0 .. AddrLen |-> NoSession], !.tb = [ft \in types |-> none],
                !.same = 1, !.firstp = s.p, !.first = FALSE, !.grew = FALSE]

Emit(s, A) ==
  LET c == CloseAddrblock(s, s.lastp, 0)
  IN  [c EXCEPT !.frags = Append(@, [list |-> s.list, bytes |-> WriteAddresses(A, c.blk, s.list)])]

Skip(s, A) == s.p \in s.done /\ ~A[s.p].mandatory

\* The next address, compressed behind the others of the fragment.
Compressed(s, A) ==
  CompressAddress([s EXCEPT !.index[s.p] = s.idx, !.idx = @ + 1, !.list = Append(@, s.p)], A, s.p)

Fits(c, max) ==
  \E i \in 0 .. AddrLen - 1 :
    /\ c.acs[i].total + c.acs[i].current <= max
    /\ c.index[c.p] - c.index[c.acs[i].ptr] <= 254

Taken(c, A) ==
  LET isNew == c.p \notin c.done
  IN  [c EXCEPT
        !.acs = [i \in DOMAIN @ |-> [@[i] EXCEPT !.total = @ + c.acs[i].current, !.current = 0]],
        !.lastp = c.p, !.done = @ \cup {c.p}, !.p = @ + 1, !.grew = @ \/ isNew,
        !.nonMandatory = @ + Bit(isNew /\ ~A[c.p].mandatory, 1)]

FromFirst(s) == [s EXCEPT !.p = s.firstp, !.first = TRUE, !.list = <<>>]

\* A fragment to which no new address could be added is written again and
\* again: the code does not return ("LOOPS").
RECURSIVE Fragments(_, _, _), Placed(_, _, _)
Fragments(s, A, max) ==
  IF s.p > Len(A) THEN Emit(s, A)
  ELSE IF Skip(s, A) THEN Fragments([s EXCEPT !.p = @ + 1], A, max)
  ELSE Placed(Compressed(IF s.first THEN FragmentStart(s, A) ELSE s, A), A, max)

Placed(c, A, max) ==
  IF Fits(c, max) THEN Fragments(Taken(c, A), A, max)
  ELSE IF c.nonMandatory = 0 THEN [c EXCEPT !.result = "MTU_TOO_SMALL"]
  ELSE IF ~c.grew THEN [c EXCEPT !.result = "LOOPS"]
  ELSE Fragments(FromFirst(Emit([c EXCEPT !.list = Front(@)], A)), A, max)

=============================================================================
