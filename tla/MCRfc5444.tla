----------------------------- MODULE MCRfc5444 -----------------------------
(***************************************************************************)
(* A node with a packet buffer so small that three addresses hardly fit.   *)
(* The addresses share heads and tails, one of them has two prefix         *)
(* lengths; the TLVs differ in type, extension, length and value.          *)
(***************************************************************************)
EXTENDS Rfc5444

Addr(first, last, plen) == [bin |-> <<first, 0, 0, 0, 0, 0, 0, last>>, plen |-> plen]
MCOriginator == Addr(10, 9, 64).bin
MCPrefix == {Addr(10, 1, 64), Addr(10, 2, 64), Addr(10, 2, 56), Addr(99, 2, 64)}
MCRequired == {Addr(10, 1, 64)}
MCMessageTlv == {[type |-> 3, ext |-> 1, val |-> <<5>>]}
MCAddressTlv == {[type |-> 1, ext |-> 0, val |-> <<7>>], [type |-> 1, ext |-> 0, val |-> <<8>>],
                 [type |-> 1, ext |-> 2, val |-> <<7, 7>>]}
MCPacketTlvs == <<[type |-> 9, ext |-> 0, val |-> <<>>]>>

Entry(type, ext, matchExt) ==
  [type |-> type, ext |-> ext, matchExt |-> matchExt, mandatory |-> FALSE,
   matchLen |-> FALSE, minLen |-> 0, maxLen |-> 0]
Consumer(id, order, addrblock, entries) ==
  [id |-> id, order |-> order, addrblock |-> addrblock, type |-> 10, entries |-> entries,
   ends |-> ~addrblock]

MCConsumers ==
  FoldLeft(AddConsumer, <<>>,
    <<Consumer("late", 2, FALSE, <<>>), Consumer("addr", 1, TRUE, <<Entry(2, 0, FALSE), Entry(1, 0, FALSE)>>),
      Consumer("msg", 1, FALSE, <<Entry(3, 0, FALSE)>>),
      Consumer("lateaddr", 2, TRUE, <<Entry(1, 2, TRUE)>>)>>)

\* One callback, or the end_callback too, has a say.
MCVerdict ==
  {<<>>} \cup {<<c, n>> :> r : c \in {"msg"}, n \in {0, -1}, r \in {DROP_MSG_BUT_FORWARD}}
         \cup {<<"msg", 0>> :> DROP_PACKET}
         \cup {<<"addr", n>> :> r : n \in {1}, r \in {DROP_ADDRESS, DROP_MESSAGE}}

=============================================================================
