--------------------------- MODULE Aodvv2NetworkProofs ---------------------------
(***************************************************************************)
(* Proofs about the network of AODVv2 routers, for every set of routers,   *)
(* every topology, every set of clients and every size of the tables and   *)
(* queues.                                                                 *)
(***************************************************************************)
EXTENDS Aodvv2Network, FiniteSetTheorems, WellFoundedInduction, TLAPS

(* A non-empty set of numbers has a smallest one.                           *)
LEMMA SmallestExists ==
    ASSUME NEW S, S \subseteq Nat, S # {}
    PROVE  \E x \in S : \A y \in S : x <= y
  <1> DEFINE Less == {p \in Nat \X Nat : p[1] < p[2]}
  <1>1. IsWellFoundedOn(Less, Nat)
    <2>1. Less = OpToRel(<, Nat)
      BY Zenon DEF OpToRel
    <2> QED BY <2>1, NatLessThanWellFounded, Zenon
  <1>2. \E x \in S : \A y \in S : ~(<<y, x>> \in Less)
    BY <1>1, WFMin, Zenon
  <1>3. \A x, y \in Nat : <<y, x>> \in Less <=> y < x
    OBVIOUS
  <1> HIDE DEF Less
  <1>4. PICK x \in S : \A y \in S : ~(<<y, x>> \in Less)
    BY <1>2, Zenon
  <1>5. \A y \in S : ~(y < x)
    BY <1>3, <1>4, Zenon
  <1>6. \A y \in S : x <= y
    BY <1>5
  <1> QED BY <1>6

(* What appending to a queue does to its elements.                          *)
LEMMA AppendElements ==
    ASSUME NEW S, NEW q \in Seq(S), NEW x \in S
    PROVE  /\ Append(q, x) \in Seq(S) /\ Len(Append(q, x)) = Len(q) + 1
           /\ \A i \in 1..Len(q) : Append(q, x)[i] = q[i]
           /\ Append(q, x)[Len(q) + 1] = x
           /\ {Append(q, x)[i] : i \in 1..Len(Append(q, x))} = {q[i] : i \in 1..Len(q)} \union {x}
  <1>1. /\ Append(q, x) \in Seq(S) /\ Len(Append(q, x)) = Len(q) + 1 /\ Len(q) \in Nat
        /\ \A i \in 1..Len(q) : Append(q, x)[i] = q[i]
        /\ Append(q, x)[Len(q) + 1] = x
    OBVIOUS
  <1>2. 1..Len(Append(q, x)) = 1..Len(q) \union {Len(q) + 1}
    BY <1>1
  <1>3. Len(q) + 1 \in 1..Len(Append(q, x))
    BY <1>1
  <1> QED BY <1>1, <1>2, <1>3

(* The same for taking the head of a queue.                                 *)
LEMMA TailElements ==
    ASSUME NEW S, NEW q \in Seq(S), q # <<>>
    PROVE  /\ Tail(q) \in Seq(S) /\ Len(Tail(q)) = Len(q) - 1
           /\ 1 \in 1..Len(q) /\ Head(q) = q[1]
           /\ Head(q) \in {q[i] : i \in 1..Len(q)}
           /\ \A i \in 1..Len(Tail(q)) : i + 1 \in 2..Len(q) /\ Tail(q)[i] = q[i + 1]
           /\ {Tail(q)[i] : i \in 1..Len(Tail(q))} \subseteq {q[i] : i \in 1..Len(q)}
  <1>1. /\ Tail(q) \in Seq(S) /\ Len(Tail(q)) = Len(q) - 1 /\ Len(q) \in Nat
        /\ 1 \in 1..Len(q) /\ Head(q) = q[1]
        /\ \A i \in 1..Len(Tail(q)) : i + 1 \in 2..Len(q) /\ Tail(q)[i] = q[i + 1]
    OBVIOUS
  <1>2. \A i \in 1..Len(Tail(q)) : i + 1 \in 1..Len(q) /\ Tail(q)[i] = q[i + 1]
    BY <1>1
  <1> QED BY <1>1, <1>2

(* Everything on the air was written by a router, and everything in a queue *)
(* is an order to send or a message that was on the air.                    *)
Messages == {EncodeRreq(p) : p \in MsgData} \union {EncodeRrep(p, s) : p \in MsgData, s \in SeqNum}

RreqItem == [t : {"rreq"}, pkt : MsgData]
RrepItem == [t : {"rrep"}, pkt : MsgData, nextHop : Addr \union {NoHop}]
RcvItem == [t : {"rcv"}, from : Addr, msg : Messages]
Items == RreqItem \union RrepItem \union RcvItem

NibEntry == [dst : Addr, pfx : PfxLen, hop : Addr]

Elements(q) == {q[i] : i \in 1..Len(q)}

(* What the AODVv2 thread of n still has to do.                             *)
Pending(n) == Elements(queue[n]) \union {cur[n]}

QueueType ==
    /\ queue \in [Routers -> Seq(Items)]
    /\ \A n \in Routers : Len(queue[n]) <= QueueSize
    /\ cur \in [Routers -> Items \union {Idle}]

TableType ==
    /\ lrs \in [Routers -> Lrs!Table]
    /\ nib \in [Routers -> SUBSET NibEntry]
    /\ \A n \in Routers : IsFiniteSet(nib[n]) /\ Cardinality(nib[n]) <= NibSize

DataType ==
    /\ seqnum \in [Routers -> SeqNum \ {0}]
    /\ mcmsg \in [Routers -> Mc!Table]
    /\ msgData \in [Routers -> MsgData]
    /\ waiting \in [Routers -> [PacketSlots -> Addr \union {NoPacket}]]

AirType ==
    /\ air \subseteq [from : Routers, to : Routers, msg : Messages]
    /\ \A f \in air : <<f.from, f.to>> \in Link

TypeInv == QueueType /\ TableType /\ DataType /\ AirType
-----------------------------------------------------------------------------

(* The callback for one address of a message.                               *)
ReadStep(kind, r, x) ==
    IF r.dropped THEN r
    ELSE IF kind = "RREQ" THEN ReadRreqAddress(r.data, x)
    ELSE ReadRrepAddress(r.data, x)

Begun(old, sender, hopLimit) ==
    [hopLimit |-> hopLimit, sender |-> sender, type |-> old.type,
     orig |-> old.orig, targ |-> old.targ]

(* A message of two addresses is read address by address.                   *)
LEMMA ReadTwo ==
    ASSUME NEW old, NEW sender, NEW m, NEW a, NEW b,
           m.addrs = <<a, b>>, m.hopLimit # 0
    PROVE  ReadMessage(old, sender, m) =
             ReadStep(m.kind, ReadStep(m.kind, Okay(Begun(old, sender, m.hopLimit - 1)), a), b)
  <1> DEFINE start == Okay(Begun(old, sender, m.hopLimit - 1))
             Step(r, x) == ReadStep(m.kind, r, x)
             Body(f) == [s \in SUBSET {1, 2} |->
                            IF s = {} THEN start ELSE Step(f[s \ {Max(s)}], <<a, b>>[Max(s)])]
             iter == CHOOSE f : f = Body(f)
             g == [s \in SUBSET {1, 2} |->
                     IF s = {} THEN start ELSE IF s = {1} THEN Step(start, a)
                     ELSE IF s = {2} THEN Step(start, b) ELSE Step(Step(start, a), b)]
  <1>1. ReadMessage(old, sender, m) = FoldLeft(Step, start, <<a, b>>)
    BY Zenon DEF ReadMessage, ReadStep, Begun
  <1> HIDE DEF start
  <1>2. DOMAIN <<a, b>> = {1, 2}
    OBVIOUS
  <1>3. FoldLeft(Step, start, <<a, b>>) = iter[{1, 2}]
    BY <1>2, Zenon DEF FoldLeft, MapThenFoldSet
  <1>4. Max({1}) = 1 /\ Max({2}) = 2 /\ Max({1, 2}) = 2
    BY DEF Max
  <1>5. \A s \in SUBSET {1, 2} : s = {} \/ s = {1} \/ s = {2} \/ s = {1, 2}
    OBVIOUS
  <1>6. /\ {1} \ {1} = {} /\ {2} \ {2} = {} /\ {1, 2} \ {2} = {1}
        /\ {1} # {2} /\ {1, 2} # {1} /\ {1, 2} # {2} /\ {1} # {} /\ {2} # {} /\ {1, 2} # {}
    OBVIOUS
  <1>7. g = Body(g)
    <2> SUFFICES ASSUME NEW s \in SUBSET {1, 2} PROVE g[s] = Body(g)[s]
      BY Zenon
    <2>1. CASE s = {}
      BY <2>1
    <2>2. CASE s = {1}
      BY <2>2, <1>4, <1>6
    <2>3. CASE s = {2}
      BY <2>3, <1>4, <1>6
    <2>4. CASE s = {1, 2}
      BY <2>4, <1>4, <1>6
    <2> QED BY <1>5, <2>1, <2>2, <2>3, <2>4, Zenon
  <1>8. iter = Body(iter)
    BY <1>7, Zenon
  <1> HIDE DEF iter
  <1>9. iter[{}] = start
    BY <1>8, Zenon
  <1>10. iter[{1}] = Step(start, a)
    BY <1>8, <1>9, <1>4, <1>6
  <1>11. iter[{1, 2}] = Step(iter[{1}], b)
    BY <1>8, <1>4, <1>6
  <1> QED BY <1>1, <1>3, <1>10, <1>11 DEF start

(* The address the reader takes from a node of a message: the host bits of  *)
(* what it had before stay where the prefix ends early.                     *)
Received(dst, node) == IF SentPfx(node.pfx) = 128 THEN node.addr ELSE <<node.addr[1], dst[2]>>

RreqRead(old, s, p) ==
    [hopLimit |-> p.hopLimit - 1, sender |-> s, type |-> METRIC_HOP_COUNT,
     orig |-> [addr |-> Received(old.orig.addr, p.orig), pfx |-> SentPfx(p.orig.pfx),
               metric |-> p.orig.metric % 256, seqnum |-> p.orig.seqnum % 256],
     targ |-> [addr |-> Received(old.targ.addr, p.targ), pfx |-> SentPfx(p.targ.pfx),
               metric |-> old.targ.metric, seqnum |-> old.targ.seqnum]]

RrepRead(old, s, p, own) ==
    [hopLimit |-> p.hopLimit - 1, sender |-> s, type |-> METRIC_HOP_COUNT,
     orig |-> [addr |-> Received(old.orig.addr, p.orig), pfx |-> old.orig.pfx,
               metric |-> p.targ.metric % 256, seqnum |-> p.orig.seqnum % 256],
     targ |-> [addr |-> Received(old.targ.addr, p.targ), pfx |-> SentPfx(p.targ.pfx),
               metric |-> old.targ.metric, seqnum |-> own % 256]]

(* What the callbacks make of a RREQ and of a RREP that a router wrote.     *)
LEMMA ReadRreq ==
    ASSUME NEW old, NEW s, NEW p, p.hopLimit # 0
    PROVE  ReadMessage(old, s, EncodeRreq(p)) = Okay(RreqRead(old, s, p))
  <1> DEFINE m == EncodeRreq(p)
             a == [addr |-> p.orig.addr, pfx |-> SentPfx(p.orig.pfx),
                   tlv |-> [ORIGSEQNUM |-> p.orig.seqnum, METRIC |-> p.orig.metric]]
             b == [addr |-> p.targ.addr, pfx |-> SentPfx(p.targ.pfx), tlv |-> <<>>]
             one == WithNodes(Begun(old, s, p.hopLimit - 1), METRIC_HOP_COUNT,
                      [addr |-> Received(old.orig.addr, p.orig), pfx |-> SentPfx(p.orig.pfx),
                       metric |-> p.orig.metric % 256, seqnum |-> p.orig.seqnum % 256],
                      old.targ)
  <1>1. m.hopLimit = p.hopLimit /\ m.addrs = <<a, b>> /\ m.kind = "RREQ"
    BY DEF EncodeRreq
  <1>2. ReadMessage(old, s, m) =
          ReadStep("RREQ", ReadStep("RREQ", Okay(Begun(old, s, p.hopLimit - 1)), a), b)
    <2> HIDE DEF m, a, b
    <2> QED BY <1>1, ReadTwo
  <1>4. /\ Has(a, "ORIGSEQNUM") /\ Has(a, "METRIC") /\ ~Has(a, "TARGSEQNUM")
        /\ ~Has(b, "ORIGSEQNUM") /\ ~Has(b, "METRIC") /\ ~Has(b, "TARGSEQNUM")
        /\ Byte(a, "ORIGSEQNUM") = p.orig.seqnum % 256
        /\ Byte(a, "METRIC") = p.orig.metric % 256
    BY DEF Has, Byte
  <1>5. /\ a.pfx = SentPfx(p.orig.pfx) /\ b.pfx = SentPfx(p.targ.pfx)
        /\ \A x : ToIpv6Addr(x, a) = Received(x, p.orig) /\ ToIpv6Addr(x, b) = Received(x, p.targ)
    BY DEF ToIpv6Addr, Received
  <1> HIDE DEF a, b, m
  <1>6. ReadRreqAddress(Begun(old, s, p.hopLimit - 1), a) = Okay(one)
    BY <1>4, <1>5 DEF ReadRreqAddress, ReadMetric, WithNodes, WithMetric, Begun, RreqRead
  <1>7. ReadRreqAddress(one, b) = Okay(RreqRead(old, s, p))
    BY <1>4, <1>5 DEF ReadRreqAddress, ReadMetric, WithNodes, WithMetric, Begun, RreqRead
  <1>8. \A d, x : ReadStep("RREQ", Okay(d), x) = ReadRreqAddress(d, x)
    BY DEF ReadStep, Okay
  <1> HIDE DEF one
  <1> QED BY <1>2, <1>6, <1>7, <1>8, Zenon DEF m

(* The same for a RREP.                                                     *)
LEMMA ReadRrep ==
    ASSUME NEW old, NEW s, NEW p, NEW own, p.hopLimit # 0
    PROVE  ReadMessage(old, s, EncodeRrep(p, own)) = Okay(RrepRead(old, s, p, own))
  <1> DEFINE m == EncodeRrep(p, own)
             a == [addr |-> p.orig.addr, pfx |-> SentPfx(p.orig.pfx),
                   tlv |-> [ORIGSEQNUM |-> p.orig.seqnum]]
             b == [addr |-> p.targ.addr, pfx |-> SentPfx(p.targ.pfx),
                   tlv |-> [TARGSEQNUM |-> own, METRIC |-> p.targ.metric]]
             one == WithNodes(Begun(old, s, p.hopLimit - 1), old.type,
                      [addr |-> Received(old.orig.addr, p.orig), pfx |-> old.orig.pfx,
                       metric |-> old.orig.metric, seqnum |-> p.orig.seqnum % 256],
                      [addr |-> old.targ.addr, pfx |-> SentPfx(p.orig.pfx),
                       metric |-> old.targ.metric, seqnum |-> old.targ.seqnum])
  <1>1. m.hopLimit = p.hopLimit /\ m.addrs = <<a, b>> /\ m.kind = "RREP"
    BY DEF EncodeRrep
  <1>2. ReadMessage(old, s, m) =
          ReadStep("RREP", ReadStep("RREP", Okay(Begun(old, s, p.hopLimit - 1)), a), b)
    <2> HIDE DEF m, a, b
    <2> QED BY <1>1, ReadTwo
  <1>4. /\ Has(a, "ORIGSEQNUM") /\ ~Has(a, "METRIC") /\ ~Has(a, "TARGSEQNUM")
        /\ ~Has(b, "ORIGSEQNUM") /\ Has(b, "METRIC") /\ Has(b, "TARGSEQNUM")
        /\ Byte(a, "ORIGSEQNUM") = p.orig.seqnum % 256
        /\ Byte(b, "TARGSEQNUM") = own % 256
        /\ Byte(b, "METRIC") = p.targ.metric % 256
    BY DEF Has, Byte
  <1>5. /\ a.pfx = SentPfx(p.orig.pfx) /\ b.pfx = SentPfx(p.targ.pfx)
        /\ \A x : ToIpv6Addr(x, a) = Received(x, p.orig) /\ ToIpv6Addr(x, b) = Received(x, p.targ)
    BY DEF ToIpv6Addr, Received
  <1> HIDE DEF a, b, m
  <1>6. ReadRrepAddress(Begun(old, s, p.hopLimit - 1), a) = Okay(one)
    BY <1>4, <1>5 DEF ReadRrepAddress, ReadMetric, WithNodes, WithMetric, Begun
  <1>7. ReadRrepAddress(one, b) = Okay(RrepRead(old, s, p, own))
    BY <1>4, <1>5 DEF ReadRrepAddress, ReadMetric, WithNodes, WithMetric, Begun, RrepRead
  <1>8. \A d, x : ReadStep("RREP", Okay(d), x) = ReadRrepAddress(d, x)
    BY DEF ReadStep, Okay
  <1> HIDE DEF one
  <1> QED BY <1>2, <1>6, <1>7, <1>8, Zenon DEF m
-----------------------------------------------------------------------------
(* The constants of the sets.                                               *)
LEMMA Constants ==
    /\ NSlots \in Nat /\ NEntries \in Nat /\ NibSize \in Nat /\ QueueSize \in Nat /\ BufferSize \in Nat
    /\ Unspecified \in Addr /\ SeqMax \in Nat /\ SeqMax >= 3 /\ MaxHopCount \in 1..255
  BY NetworkAssumption, AddressAssumption, SeqMaxAssumption, MaxHopCountAssumption
     DEF Unspecified, Addr

(* Nothing ages: a refresh changes no route.                                *)
LEMMA Unaged ==
    ASSUME NEW t \in Lrs!Table
    PROVE  Lrs!Refreshed(t, Now) = t
  <1>1. \A r : Lrs!Reset(r, Now) = r
    BY DEF Lrs!Reset, Now
  <1>2. \A i \in Lrs!Slots : t[i] = [route |-> t[i].route, used |-> t[i].used]
    BY DEF Lrs!Table
  <1> QED BY <1>1, <1>2 DEF Lrs!Refreshed, Lrs!Table

(* The first slot of a loop over the route set.                             *)
LEMMA LrsMin ==
    ASSUME NEW S, S \subseteq Lrs!Slots, S # {}
    PROVE  Lrs!Min(S) \in S
  <1>1. S \subseteq Nat
    BY Constants DEF Lrs!Slots
  <1> QED BY <1>1, SmallestExists DEF Lrs!Min

(* Leads(t, i, addr): slot i is a route of the hop count metric to addr.    *)
Leads(t, i, addr) == t[i].route.addr = addr /\ t[i].route.type = METRIC_HOP_COUNT

(* What a lookup in the route set returns.                                  *)
LEMMA FindCases ==
    ASSUME NEW t \in Lrs!Table, NEW addr
    PROVE  LET hit == Lrs!Find(t, addr, METRIC_HOP_COUNT, Now)
           IN  \/ hit = 0 /\ \A i \in Lrs!Slots : ~Leads(t, i, addr)
               \/ hit # 0 /\ hit \in Lrs!Slots /\ Leads(t, hit, addr)
  <1> DEFINE hits == Lrs!Hits(t, addr, METRIC_HOP_COUNT)
  <1>1. Lrs!Find(t, addr, METRIC_HOP_COUNT, Now) = IF hits = {} THEN 0 ELSE Lrs!Min(hits)
    BY Unaged DEF Lrs!Find
  <1>2. hits = {i \in Lrs!Slots : Leads(t, i, addr)}
    BY DEF Lrs!Hits, Leads
  <1> HIDE DEF hits
  <1>3. CASE hits = {}
    BY <1>1, <1>2, <1>3
  <1>4. CASE hits # {}
    <2>1. Lrs!Min(hits) \in hits
      BY <1>2, <1>4, LrsMin
    <2>2. 0 \notin Lrs!Slots
      BY Constants DEF Lrs!Slots
    <2> QED BY <1>1, <1>2, <1>4, <2>1, <2>2
  <1> QED BY <1>3, <1>4

(* What adding a route to a destination without one does.                   *)
LEMMA AddCases ==
    ASSUME NEW t \in Lrs!Table, NEW r \in Lrs!Route,
           Lrs!Find(t, r.addr, r.type, Now) = 0
    PROVE  \/ Lrs!Free(t) = {} /\ Lrs!AddEntry(t, r, Now) = t
           \/ \E i \in Lrs!Free(t) :
                 Lrs!AddEntry(t, r, Now) = [t EXCEPT ![i] = [route |-> r, used |-> TRUE]]
  <1>1. Lrs!Scanned(t, r.addr, r.type, Now) = t
    <2>1. Lrs!Scanned(t, r.addr, r.type, Now) = [i \in Lrs!Slots |-> t[i]]
      BY Unaged DEF Lrs!Scanned
    <2> QED BY <2>1 DEF Lrs!Table
  <1>2. CASE Lrs!Free(t) = {}
    BY <1>1, <1>2 DEF Lrs!AddEntry
  <1>3. CASE Lrs!Free(t) # {}
    <2>1. Lrs!Min(Lrs!Free(t)) \in Lrs!Free(t)
      BY <1>3, LrsMin DEF Lrs!Free
    <2>2. Lrs!AddEntry(t, r, Now) = [t EXCEPT ![Lrs!Min(Lrs!Free(t))] = [route |-> r, used |-> TRUE]]
      BY <1>1, <1>3 DEF Lrs!AddEntry
    <2> QED BY <2>1, <2>2
  <1> QED BY <1>2, <1>3

(* Slot i of router n's route set gets route r.                             *)
Put(n, i, r, used) == [lrs[n] EXCEPT ![i] = [route |-> r, used |-> used]]

(* The two ways a message about a node changes the tables: a new route,     *)
(* stored if there is room, or a replaced one.                              *)
Updated(n, d, node, u) ==
    LET e == [dst |-> node.addr, pfx |-> node.pfx, hop |-> d.sender]
    IN  \E r \in Lrs!Route :
          /\ r.addr = node.addr /\ r.type = METRIC_HOP_COUNT /\ r.nextHop = d.sender
          /\ \/ /\ \A i \in Lrs!Slots : ~Leads(lrs[n], i, node.addr)
                /\ u.nib = NibAdd(nib[n], e)
                /\ \/ Lrs!Free(lrs[n]) = {} /\ u.lrs = lrs[n]
                   \/ \E i \in Lrs!Free(lrs[n]) : u.lrs = Put(n, i, r, TRUE)
             \/ \E i \in Lrs!Slots :
                  /\ Leads(lrs[n], i, node.addr)
                  /\ u.lrs = Put(n, i, r, lrs[n][i].used)
                  /\ \E rest \in NibDel(nib[n], node.addr, node.pfx) : u.nib = NibAdd(rest, e)

(* The route aodvv2_lrs_fill_routing_entry_* makes of a message.            *)
LEMMA FilledRoute ==
    ASSUME NEW d \in MsgData, NEW node \in Node, d.type = METRIC_HOP_COUNT
    PROVE  LET r == Lrs!FillRoutingEntry(NodeData(d, node), LinkCost(d.type), Now)
           IN  /\ r \in Lrs!Route /\ r.addr = node.addr
               /\ r.type = METRIC_HOP_COUNT /\ r.nextHop = d.sender
  <1>1. (node.metric + LinkCost(d.type)) % 256 \in 0..255
    BY DEF Node, MetricValue, LinkCost
  <1> QED BY <1>1 DEF Lrs!FillRoutingEntry, NodeData, Lrs!Route, Lrs!Validity, Now, Lrs!RouteState,
                      MsgData, Node, Lrs!MetricValue, Lrs!SeqNum, SeqNum, METRIC_HOP_COUNT

(* The callbacks do nothing else.                                           *)
LEMMA UpdateCases ==
    ASSUME TypeInv, NEW n \in Routers, NEW d \in MsgData, NEW node \in Node,
           d.type = METRIC_HOP_COUNT, NEW u \in RouteUpdates(n, d, node)
    PROVE  Updated(n, d, node, u)
  <1> DEFINE route == Lrs!FillRoutingEntry(NodeData(d, node), LinkCost(d.type), Now)
             hit == Lrs!Find(lrs[n], node.addr, d.type, Now)
             e == [dst |-> node.addr, pfx |-> node.pfx, hop |-> d.sender]
  <1>1. lrs[n] \in Lrs!Table
    BY DEF TypeInv, TableType
  <1>2. /\ route \in Lrs!Route /\ route.addr = node.addr
        /\ route.type = METRIC_HOP_COUNT /\ route.nextHop = d.sender
    BY FilledRoute
  <1>3. \/ /\ hit = 0
           /\ u = [lrs |-> Lrs!AddEntry(lrs[n], route, Now), nib |-> NibAdd(nib[n], e)]
        \/ /\ hit # 0
           /\ \E rest \in NibDel(nib[n], node.addr, node.pfx) :
                u = [lrs |-> [lrs[n] EXCEPT ![hit].route = route], nib |-> NibAdd(rest, e)]
    BY Zenon DEF RouteUpdates
  <1> HIDE DEF route
  <1>4. CASE hit = 0
    <2>1. \A i \in Lrs!Slots : ~Leads(lrs[n], i, node.addr)
      BY <1>1, <1>4, FindCases
    <2>2. Lrs!Find(lrs[n], route.addr, route.type, Now) = 0
      BY <1>2, <1>4
    <2>3. \/ Lrs!Free(lrs[n]) = {} /\ Lrs!AddEntry(lrs[n], route, Now) = lrs[n]
          \/ \E i \in Lrs!Free(lrs[n]) : Lrs!AddEntry(lrs[n], route, Now) = Put(n, i, route, TRUE)
      BY <1>1, <1>2, <2>2, AddCases DEF Put
    <2>4. u.lrs = Lrs!AddEntry(lrs[n], route, Now) /\ u.nib = NibAdd(nib[n], e)
      BY <1>3, <1>4
    <2> QED BY <1>2, <2>1, <2>3, <2>4 DEF Updated
  <1>5. CASE hit # 0
    <2>1. hit \in Lrs!Slots /\ Leads(lrs[n], hit, node.addr)
      BY <1>1, <1>5, FindCases
    <2>2. [lrs[n] EXCEPT ![hit].route = route] = Put(n, hit, route, lrs[n][hit].used)
      <3> HIDE DEF hit
      <3> QED BY <1>1, <2>1 DEF Lrs!Table, Put
    <2>3. /\ u.lrs = [lrs[n] EXCEPT ![hit].route = route]
          /\ \E rest \in NibDel(nib[n], node.addr, node.pfx) : u.nib = NibAdd(rest, e)
      BY <1>3, <1>5
    <2> HIDE DEF hit
    <2> QED BY <1>2, <2>1, <2>2, <2>3 DEF Updated
  <1> QED BY <1>4, <1>5
-----------------------------------------------------------------------------
(* What the forwarding table can become.                                    *)
LEMMA NibTypes ==
    ASSUME NEW table \in SUBSET NibEntry, IsFiniteSet(table), Cardinality(table) <= NibSize,
           NEW e \in NibEntry, NEW dst, NEW pfx
    PROVE  /\ NibAdd(table, e) \in SUBSET NibEntry
           /\ IsFiniteSet(NibAdd(table, e)) /\ Cardinality(NibAdd(table, e)) <= NibSize
           /\ \A rest \in NibDel(table, dst, pfx) :
                /\ rest \in SUBSET NibEntry /\ rest \subseteq table
                /\ IsFiniteSet(rest) /\ Cardinality(rest) <= NibSize
  <1>1. IsFiniteSet(table \union {e})
    BY FS_AddElement
  <1>2. ASSUME NEW rest \in NibDel(table, dst, pfx)
        PROVE  rest \subseteq table
    BY <1>2, Zenon DEF NibDel
  <1>3. ASSUME NEW rest, rest \subseteq table
        PROVE  IsFiniteSet(rest) /\ Cardinality(rest) <= NibSize
    <2>1. IsFiniteSet(rest) /\ Cardinality(rest) <= Cardinality(table)
      BY <1>3, FS_Subset
    <2> QED BY <2>1, FS_CardinalityType, Constants
  <1> QED BY <1>1, <1>2, <1>3 DEF NibAdd

(* Both ways keep the tables well formed.                                   *)
LEMMA UpdatedTypes ==
    ASSUME TypeInv, NEW n \in Routers, NEW d \in MsgData, NEW node \in Node,
           NEW u, Updated(n, d, node, u)
    PROVE  /\ u.lrs \in Lrs!Table
           /\ u.nib \in SUBSET NibEntry /\ IsFiniteSet(u.nib) /\ Cardinality(u.nib) <= NibSize
  <1> DEFINE e == [dst |-> node.addr, pfx |-> node.pfx, hop |-> d.sender]
  <1>1. e \in NibEntry
    BY DEF NibEntry, MsgData, Node
  <1>2. nib[n] \in SUBSET NibEntry /\ IsFiniteSet(nib[n]) /\ Cardinality(nib[n]) <= NibSize
    BY DEF TypeInv, TableType
  <1>3. u.nib = NibAdd(nib[n], e)
          \/ \E rest \in NibDel(nib[n], node.addr, node.pfx) : u.nib = NibAdd(rest, e)
    BY DEF Updated
  <1> HIDE DEF e
  <1>4. u.nib \in SUBSET NibEntry /\ IsFiniteSet(u.nib) /\ Cardinality(u.nib) <= NibSize
    <2>1. CASE u.nib = NibAdd(nib[n], e)
      BY <1>1, <1>2, <2>1, NibTypes
    <2>2. CASE \E rest \in NibDel(nib[n], node.addr, node.pfx) : u.nib = NibAdd(rest, e)
      <3>1. PICK rest \in NibDel(nib[n], node.addr, node.pfx) : u.nib = NibAdd(rest, e)
        BY <2>2
      <3>2. rest \in SUBSET NibEntry /\ IsFiniteSet(rest) /\ Cardinality(rest) <= NibSize
        BY <1>1, <1>2, NibTypes
      <3> QED BY <1>1, <3>1, <3>2, NibTypes
    <2> QED BY <1>3, <2>1, <2>2
  <1>5. u.lrs \in Lrs!Table
    <2>1. lrs[n] \in Lrs!Table
      BY DEF TypeInv, TableType
    <2>2. \A i \in Lrs!Slots, r \in Lrs!Route, used \in BOOLEAN : Put(n, i, r, used) \in Lrs!Table
      BY <2>1 DEF Put, Lrs!Table
    <2>3. \A i \in Lrs!Slots : lrs[n][i].used \in BOOLEAN
      BY <2>1 DEF Lrs!Table
    <2>4. \/ u.lrs = lrs[n]
          \/ \E r \in Lrs!Route : \E i \in Lrs!Slots : \E used \in BOOLEAN : u.lrs = Put(n, i, r, used)
      BY <2>3 DEF Updated, Lrs!Free
    <2> QED BY <2>1, <2>2, <2>4
  <1> QED BY <1>4, <1>5

(* The first entry of a loop over the message set.                          *)
LEMMA McMin ==
    ASSUME NEW S, S \subseteq Mc!Entries, S # {}
    PROVE  Mc!Min(S) \in S
  <1>1. S \subseteq Nat
    BY Constants DEF Mc!Entries
  <1> QED BY <1>1, SmallestExists DEF Mc!Min

(* The message set stays a table of entries.                                *)
LEMMA McmsgType ==
    ASSUME NEW t \in Mc!Table, NEW msg \in Mc!Rreq
    PROVE  Mc!Process(t, msg, Now).table \in Mc!Table
  <1> DEFINE hits == Mc!ComparableEntries(t, msg, Now)
             s == Mc!Scanned(t, msg, Now)
             hit == Mc!Min(hits)
  <1>1. Mc!NoEntry \in Mc!Entry
    BY Constants DEF Mc!NoEntry, Mc!Entry, Mc!MetricValue, Mc!SeqNum, NoKey
  <1>2. \A e \in Mc!Entry : Mc!Purged(e, Now) \in Mc!Entry
    BY <1>1 DEF Mc!Purged
  <1>3. \A x \in Mc!Table, i \in Mc!Entries : x[i] \in Mc!Entry
    BY DEF Mc!Table
  <1>4. s \in Mc!Table
    BY <1>2, <1>3 DEF Mc!Scanned, Mc!Table
  <1>5. hits \subseteq Mc!Entries
    BY DEF Mc!ComparableEntries
  <1>8. msg.seqnum \in Mc!SeqNum /\ msg.metric \in Mc!MetricValue /\ msg.key \in Key \union {NoKey}
    BY DEF Mc!Rreq
  <1> HIDE DEF s, hits
  <1>9. Mc!Add(s, msg, Now) \in Mc!Table
    <2>1. CASE Mc!Free(s) = {}
      BY <1>4, <2>1 DEF Mc!Add
    <2>2. CASE Mc!Free(s) # {}
      <3> DEFINE i == Mc!Min(Mc!Free(s))
      <3>1. i \in Mc!Entries
        BY <2>2, McMin DEF Mc!Free
      <3>2. Mc!Add(s, msg, Now) = [s EXCEPT ![i] = [key |-> msg.key, rtr |-> s[i].rtr,
              seqnum |-> msg.seqnum, metric |-> msg.metric, removal |-> Now + 300, used |-> TRUE]]
        BY <2>2 DEF Mc!Add
      <3> HIDE DEF i
      <3>3. [key |-> msg.key, rtr |-> s[i].rtr, seqnum |-> msg.seqnum, metric |-> msg.metric,
             removal |-> Now + 300, used |-> TRUE] \in Mc!Entry
        BY <1>3, <1>4, <1>8, <3>1 DEF Mc!Entry, Now
      <3> QED BY <1>4, <3>2, <3>3 DEF Mc!Table
    <2> QED BY <2>1, <2>2
  <1>10. ASSUME hits # {}
         PROVE  Mc!Renewed(s, hit, Now) \in Mc!Table /\ Mc!Updated(s, hit, msg, Now) \in Mc!Table
    <2>1. hit \in Mc!Entries
      BY <1>5, <1>10, McMin
    <2> HIDE DEF hit
    <2>2. Mc!Renewed(s, hit, Now) = [s EXCEPT ![hit] = [key |-> s[hit].key, rtr |-> s[hit].rtr,
            seqnum |-> s[hit].seqnum, metric |-> s[hit].metric, removal |-> Now + 300,
            used |-> s[hit].used]]
      BY DEF Mc!Renewed
    <2>3. [key |-> s[hit].key, rtr |-> s[hit].rtr, seqnum |-> s[hit].seqnum,
           metric |-> s[hit].metric, removal |-> Now + 300, used |-> s[hit].used] \in Mc!Entry
      BY <1>3, <1>4, <2>1 DEF Mc!Entry, Now
    <2>4. Mc!Renewed(s, hit, Now) \in Mc!Table
      BY <1>4, <2>2, <2>3 DEF Mc!Table
    <2>5. \A i \in Mc!Entries : [key |-> s[i].key, rtr |-> s[i].rtr, seqnum |-> msg.seqnum,
             metric |-> msg.metric, removal |-> Now + 300, used |-> s[i].used] \in Mc!Entry
      BY <1>3, <1>4, <1>8 DEF Mc!Entry, Now
    <2>6. Mc!Updated(s, hit, msg, Now) \in Mc!Table
      BY <1>2, <1>3, <1>4, <2>5 DEF Mc!Updated, Mc!Table
    <2> QED BY <2>4, <2>6
  <1>11. Mc!Process(t, msg, Now).table \in
           {Mc!Add(s, msg, Now)} \union
           (IF hits = {} THEN {} ELSE {Mc!Renewed(s, hit, Now), Mc!Updated(s, hit, msg, Now)})
    BY DEF Mc!Process, s, hits
  <1> QED BY <1>9, <1>10, <1>11
-----------------------------------------------------------------------------
(* The message the event loop of n handles.                                 *)
LEMMA Handled ==
    ASSUME TypeInv, NEW n \in Routers, cur[n].t = "rcv"
    PROVE  cur[n] \in RcvItem /\ msgData[n] \in MsgData /\ cur[n].from \in Addr /\ cur[n].msg \in Messages
  <1>1. cur[n] \in Items \union {Idle} /\ msgData[n] \in MsgData
    BY DEF TypeInv, QueueType, DataType
  <1>2. cur[n] \in RcvItem
    BY <1>1 DEF Items, RreqItem, RrepItem, Idle
  <1> QED BY <1>1, <1>2 DEF RcvItem

(* A message is a RREQ or a RREP some router wrote.                         *)
LEMMA Encodings ==
    /\ \A m \in Messages : m.kind \in {"RREQ", "RREP"}
    /\ \A m \in Messages : m.kind = "RREQ" => \E p \in MsgData : m = EncodeRreq(p)
    /\ \A m \in Messages : m.kind = "RREP" => \E p \in MsgData, s \in SeqNum : m = EncodeRrep(p, s)
  <1>1. \A p : EncodeRreq(p).kind = "RREQ"
    BY DEF EncodeRreq
  <1>2. \A p, s : EncodeRrep(p, s).kind = "RREP"
    BY DEF EncodeRrep
  <1> QED BY <1>1, <1>2 DEF Messages

(* An address that was read is an address, its length one that is sent.     *)
LEMMA AddressTypes ==
    ASSUME NEW dst \in Addr, NEW node \in Node
    PROVE  Received(dst, node) \in Addr /\ SentPfx(node.pfx) \in {64, 128}
  <1>1. node.addr \in Addr /\ node.pfx \in PfxLen
    BY DEF Node
  <1> QED BY <1>1 DEF Received, SentPfx, Addr, PfxLen

(* What survives the reading of one byte.                                   *)
LEMMA Bytes ==
    /\ \A s \in SeqNum : s % 256 \in SeqNum
    /\ \A w \in MetricValue : w % 256 = w
  BY Constants DEF SeqNum, MetricValue

(* What the callbacks leave in _msg_data is message data.                   *)
LEMMA ReadTypes ==
    ASSUME NEW old \in MsgData, NEW s \in Addr, NEW p \in MsgData, NEW own \in SeqNum
    PROVE  /\ p.hopLimit # 0 => RreqRead(old, s, p) \in MsgData /\ RrepRead(old, s, p, own) \in MsgData
           /\ Begun(old, s, 0) \in MsgData
  <1>1. /\ old.orig \in Node /\ old.targ \in Node /\ p.orig \in Node /\ p.targ \in Node
        /\ p.hopLimit \in 0..255 /\ old.type \in Nat
    BY DEF MsgData
  <1>2. /\ Received(old.orig.addr, p.orig) \in Addr /\ Received(old.targ.addr, p.targ) \in Addr
        /\ SentPfx(p.orig.pfx) \in PfxLen /\ SentPfx(p.targ.pfx) \in PfxLen
    <2>1. old.orig.addr \in Addr /\ old.targ.addr \in Addr
      BY <1>1 DEF Node
    <2> QED BY <1>1, <2>1, AddressTypes DEF PfxLen
  <1>3. /\ p.orig.metric % 256 \in MetricValue /\ p.targ.metric % 256 \in MetricValue
        /\ p.orig.seqnum % 256 \in SeqNum /\ own % 256 \in SeqNum
        /\ old.orig.pfx \in PfxLen
        /\ old.targ.metric \in MetricValue /\ old.targ.seqnum \in SeqNum
    BY <1>1, Bytes DEF Node
  <1>4. p.hopLimit # 0 => p.hopLimit - 1 \in 0..255
    BY <1>1
  <1>5. RreqRead(old, s, p).orig \in Node /\ RreqRead(old, s, p).targ \in Node
    BY <1>2, <1>3 DEF RreqRead, Node
  <1>6. RrepRead(old, s, p, own).orig \in Node /\ RrepRead(old, s, p, own).targ \in Node
    BY <1>2, <1>3 DEF RrepRead, Node
  <1>7. p.hopLimit # 0 => RreqRead(old, s, p) \in MsgData
    BY <1>4, <1>5 DEF RreqRead, MsgData, METRIC_HOP_COUNT
  <1>8. p.hopLimit # 0 => RrepRead(old, s, p, own) \in MsgData
    BY <1>4, <1>6 DEF RrepRead, MsgData, METRIC_HOP_COUNT
  <1>9. Begun(old, s, 0) \in MsgData
    BY <1>1 DEF Begun, MsgData
  <1> QED BY <1>7, <1>8, <1>9

(* What is in _msg_data when a message ends.                                *)
LEMMA ReadData ==
    ASSUME TypeInv, NEW n \in Routers, cur[n].t = "rcv"
    PROVE  /\ Read(n).data \in MsgData
           /\ Read(n).dropped => Read(n).data = Begun(msgData[n], cur[n].from, 0)
           /\ ~Read(n).dropped /\ cur[n].msg.kind = "RREQ" =>
                \E p \in MsgData : /\ cur[n].msg = EncodeRreq(p) /\ p.hopLimit # 0
                                   /\ Read(n).data = RreqRead(msgData[n], cur[n].from, p)
           /\ ~Read(n).dropped /\ cur[n].msg.kind = "RREP" =>
                \E p \in MsgData, own \in SeqNum :
                   /\ cur[n].msg = EncodeRrep(p, own) /\ p.hopLimit # 0
                   /\ Read(n).data = RrepRead(msgData[n], cur[n].from, p, own)
  <1> DEFINE m == cur[n].msg
             s == cur[n].from
             old == msgData[n]
  <1>1. old \in MsgData /\ s \in Addr /\ m \in Messages
    BY Handled
  <1>2. Read(n) = ReadMessage(old, s, m)
    BY DEF Read
  <1> HIDE DEF m, s, old
  <1>3. m.hopLimit = 0 => Read(n) = Dropped(Begun(old, s, 0))
    BY <1>2, Zenon DEF ReadMessage, Begun
  <1>4. \A d : Dropped(d).dropped /\ Dropped(d).data = d /\ ~Okay(d).dropped /\ Okay(d).data = d
    BY DEF Dropped, Okay
  <1>5. 0 \in SeqNum
    BY Constants DEF SeqNum
  <1>6. CASE m.kind = "RREQ"
    <2>1. PICK p \in MsgData : m = EncodeRreq(p)
      BY <1>1, <1>6, Encodings
    <2>2. m.hopLimit = p.hopLimit
      BY <2>1 DEF EncodeRreq
    <2>3. p.hopLimit # 0 => Read(n) = Okay(RreqRead(old, s, p))
      BY <1>2, <2>1, ReadRreq
    <2> QED BY <1>1, <1>3, <1>4, <1>5, <1>6, <2>1, <2>2, <2>3, ReadTypes DEF m, s, old
  <1>7. CASE m.kind = "RREP"
    <2>1. PICK p \in MsgData, own \in SeqNum : m = EncodeRrep(p, own)
      BY <1>1, <1>7, Encodings
    <2>2. m.hopLimit = p.hopLimit
      BY <2>1 DEF EncodeRrep
    <2>3. p.hopLimit # 0 => Read(n) = Okay(RrepRead(old, s, p, own))
      BY <1>2, <2>1, ReadRrep
    <2> QED BY <1>1, <1>3, <1>4, <1>5, <1>7, <2>1, <2>2, <2>3, ReadTypes DEF m, s, old
  <1> QED BY <1>1, <1>6, <1>7, Encodings

(* A RREQ that passes the checks of the end callback, and the data it is    *)
(* answered or forwarded with.                                              *)
AcceptedRreq(n) == Receiving(n, "RREQ") /\ ~RreqRefused(Read(n))
AcceptedRrep(n) == Receiving(n, "RREP") /\ ~RrepRefused(Read(n))

(* What is known of a RREQ that passes the checks, hop limit and metric     *)
(* above all.                                                               *)
LEMMA RreqAccepted ==
    ASSUME TypeInv, NEW n \in Routers, AcceptedRreq(n)
    PROVE  \E p \in MsgData :
             /\ cur[n].msg = EncodeRreq(p) /\ p.hopLimit # 0
             /\ Read(n).data = RreqRead(msgData[n], cur[n].from, p)
             /\ LET d == UpdatedRreq(n)
                IN  /\ d \in MsgData /\ d.type = METRIC_HOP_COUNT /\ d.sender = cur[n].from
                    /\ d.hopLimit = p.hopLimit - 1 /\ d.orig.metric = p.orig.metric + 1
                    /\ d.orig.addr = Received(msgData[n].orig.addr, p.orig)
                    /\ d.orig.pfx = SentPfx(p.orig.pfx)
                    /\ d.targ.addr = Received(msgData[n].targ.addr, p.targ)
                    /\ d.targ.pfx = SentPfx(p.targ.pfx)
                    /\ d.orig.addr # Unspecified /\ d.targ.addr # Unspecified
  <1> DEFINE r == Read(n).data
  <1>1. ~Read(n).dropped /\ r.orig.addr # Unspecified /\ r.targ.addr # Unspecified
        /\ ~MetricLimitReached(r.type, r.orig.metric)
    BY DEF AcceptedRreq, RreqRefused
  <1>2. PICK p \in MsgData : /\ cur[n].msg = EncodeRreq(p) /\ p.hopLimit # 0
                             /\ r = RreqRead(msgData[n], cur[n].from, p)
    BY <1>1, ReadData DEF AcceptedRreq, Receiving
  <1>3. r \in MsgData
    BY ReadData DEF AcceptedRreq, Receiving
  <1> HIDE DEF r
  <1>4. /\ r.type = METRIC_HOP_COUNT /\ r.sender = cur[n].from /\ r.hopLimit = p.hopLimit - 1
        /\ r.orig.metric = p.orig.metric % 256
        /\ r.orig.addr = Received(msgData[n].orig.addr, p.orig) /\ r.orig.pfx = SentPfx(p.orig.pfx)
        /\ r.targ.addr = Received(msgData[n].targ.addr, p.targ) /\ r.targ.pfx = SentPfx(p.targ.pfx)
    BY <1>2 DEF RreqRead
  <1>5. p.orig.metric \in MetricValue /\ r.orig.metric = p.orig.metric
    <2>1. p.orig.metric \in MetricValue
      BY DEF MsgData, Node
    <2> QED BY <1>4, <2>1, Bytes
  <1>6. MetricUpdate(r.type, r.orig.metric) = p.orig.metric + 1 /\ p.orig.metric + 1 \in MetricValue
    <2>1. p.orig.metric < MaxHopCount - 1
      BY <1>1, <1>4, <1>5, Constants DEF MetricLimitReached, MetricMax, LinkCost, MetricValue
    <2> QED BY <1>4, <1>5, <2>1, Constants DEF MetricUpdate, MetricValue
  <1>7. UpdatedRreq(n) = WithNodes(r, METRIC_HOP_COUNT, WithMetric(r.orig, p.orig.metric + 1), r.targ)
    BY <1>4, <1>6 DEF UpdatedRreq, r
  <1>8. UpdatedRreq(n) \in MsgData
    <2>1. WithMetric(r.orig, p.orig.metric + 1) \in Node
      BY <1>3, <1>6 DEF WithMetric, Node, MsgData
    <2> QED BY <1>3, <1>7, <2>1 DEF WithNodes, MsgData, METRIC_HOP_COUNT
  <1>9. LET d == UpdatedRreq(n)
        IN  /\ d.type = METRIC_HOP_COUNT /\ d.sender = r.sender /\ d.hopLimit = r.hopLimit
            /\ d.orig.metric = p.orig.metric + 1 /\ d.orig.addr = r.orig.addr
            /\ d.orig.pfx = r.orig.pfx /\ d.targ = r.targ
    BY <1>7 DEF WithNodes, WithMetric
  <1> QED BY <1>1, <1>2, <1>4, <1>8, <1>9 DEF r

(* The same of a RREP.                                                      *)
LEMMA RrepAccepted ==
    ASSUME TypeInv, NEW n \in Routers, AcceptedRrep(n)
    PROVE  \E p \in MsgData, own \in SeqNum :
             /\ cur[n].msg = EncodeRrep(p, own) /\ p.hopLimit # 0
             /\ Read(n).data = RrepRead(msgData[n], cur[n].from, p, own)
             /\ LET d == UpdatedRrep(n)
                IN  /\ d \in MsgData /\ d.type = METRIC_HOP_COUNT /\ d.sender = cur[n].from
                    /\ d.orig.addr = Received(msgData[n].orig.addr, p.orig)
                    /\ d.orig.pfx = msgData[n].orig.pfx
                    /\ d.targ.addr = Received(msgData[n].targ.addr, p.targ)
                    /\ d.targ.pfx = SentPfx(p.targ.pfx)
                    /\ d.orig.addr # Unspecified /\ d.targ.addr # Unspecified
  <1> DEFINE r == Read(n).data
             w == MetricUpdate(r.type, r.targ.metric)
  <1>1. ~Read(n).dropped /\ r.orig.addr # Unspecified /\ r.targ.addr # Unspecified
    BY DEF AcceptedRrep, RrepRefused
  <1>2. PICK p \in MsgData, own \in SeqNum :
           /\ cur[n].msg = EncodeRrep(p, own) /\ p.hopLimit # 0
           /\ r = RrepRead(msgData[n], cur[n].from, p, own)
    BY <1>1, ReadData DEF AcceptedRrep, Receiving
  <1>3. r \in MsgData
    BY ReadData DEF AcceptedRrep, Receiving
  <1>7. UpdatedRrep(n) = WithNodes(r, r.type, r.orig, WithMetric(r.targ, w))
    BY DEF UpdatedRrep
  <1> HIDE DEF r
  <1>4. /\ r.type = METRIC_HOP_COUNT /\ r.sender = cur[n].from
        /\ r.orig.addr = Received(msgData[n].orig.addr, p.orig) /\ r.orig.pfx = msgData[n].orig.pfx
        /\ r.targ.addr = Received(msgData[n].targ.addr, p.targ) /\ r.targ.pfx = SentPfx(p.targ.pfx)
    BY <1>2 DEF RrepRead
  <1>6. w \in MetricValue
    <2>1. r.targ.metric \in MetricValue
      BY <1>3 DEF MsgData, Node
    <2> QED BY <2>1 DEF MetricUpdate, MetricValue
  <1> HIDE DEF w
  <1>8. UpdatedRrep(n) \in MsgData
    <2>1. WithMetric(r.targ, w) \in Node
      BY <1>3, <1>6 DEF WithMetric, Node, MsgData
    <2> QED BY <1>3, <1>7, <2>1 DEF WithNodes, MsgData
  <1>9. LET d == UpdatedRrep(n)
        IN  /\ d.type = r.type /\ d.sender = r.sender /\ d.orig = r.orig
            /\ d.targ.addr = r.targ.addr /\ d.targ.pfx = r.targ.pfx
    BY <1>7 DEF WithNodes, WithMetric
  <1> QED BY <1>1, <1>2, <1>4, <1>8, <1>9 DEF r
-----------------------------------------------------------------------------
(* Where a new entry of n's queue comes from: a packet without a route, the *)
(* radio, or a message that was answered, forwarded or passed on.           *)
Asked(n, it) == \E w \in Wanted : \E client \in ClientsOf(n, w.src) :
    w.router = n /\ it = [t |-> "rreq", pkt |-> NewRreq(n, client, w.dst)]

Heard(n, it) == \E f \in air :
    f.to = n /\ it = [t |-> "rcv", from |-> LinkLocal[f.from], msg |-> f.msg]

Stored(n, d, node) == Updated(n, d, node, [lrs |-> lrs'[n], nib |-> nib'[n]])

StoredRreq(n) == AcceptedRreq(n) /\ Stored(n, UpdatedRreq(n), UpdatedRreq(n).orig)
StoredRrep(n) == AcceptedRrep(n) /\ Stored(n, UpdatedRrep(n), UpdatedRrep(n).targ)

Answer(n) == LET d == UpdatedRreq(n) IN WithNodes(d, d.type, d.orig, WithMetric(d.targ, 0))

Answered(n, it) ==
    /\ StoredRreq(n) /\ IsClient(n, UpdatedRreq(n).targ.addr)
    /\ it = [t |-> "rrep", pkt |-> Answer(n), nextHop |-> UpdatedRreq(n).sender]

Relayed(n, it) == StoredRreq(n) /\ it = [t |-> "rreq", pkt |-> UpdatedRreq(n)]

PassedOn(n, it) ==
    LET d == UpdatedRrep(n)
    IN  /\ StoredRrep(n) /\ ~IsClient(n, d.orig.addr)
        /\ it = [t |-> "rrep", pkt |-> d, nextHop |-> NextHop(lrs'[n], d.orig.addr, d.type)]

Appeared(n, it) ==
    Asked(n, it) \/ Heard(n, it) \/ Answered(n, it) \/ Relayed(n, it) \/ PassedOn(n, it)

(* Where a new message on the air comes from.                               *)
Sent(f) ==
    /\ f.from \in Routers /\ f.to \in Routers
    /\ \/ cur[f.from].t = "rreq" /\ f.msg = EncodeRreq(cur[f.from].pkt)
       \/ /\ cur[f.from].t = "rrep" /\ LinkLocal[f.to] = cur[f.from].nextHop
          /\ \E s \in SeqNum : f.msg = EncodeRrep(cur[f.from].pkt, s)

(* What a step does, as far as the invariants are concerned.                *)
ItemEffect == \A k \in Routers : \A it \in Pending(k)' :
    it \in Pending(k) \union {Idle} \/ Appeared(k, it)
AirEffect == \A f \in air' : f \in air \/ Sent(f)
TableEffect == \A k \in Routers :
    (lrs'[k] = lrs[k] /\ nib'[k] = nib[k]) \/ StoredRreq(k) \/ StoredRrep(k)
DataEffect == \A k \in Routers :
    \/ msgData'[k] = msgData[k]
    \/ cur[k].t = "rcv" /\ msgData'[k] = Read(k).data
    \/ AcceptedRreq(k) /\ msgData'[k] \in {UpdatedRreq(k), Answer(k)}
    \/ AcceptedRrep(k) /\ msgData'[k] = UpdatedRrep(k)

Effects == ItemEffect /\ AirEffect /\ TableEffect /\ DataEffect

(* The queue and the message being handled, when nothing is added.          *)
LEMMA ItemsStay ==
    ASSUME TypeInv, NEW n \in Routers, UNCHANGED queue, Done(n) \/ UNCHANGED cur
    PROVE  QueueType' /\ ItemEffect
  <1>1. cur' \in [Routers -> Items \union {Idle}] /\ \A k \in Routers : cur'[k] \in {cur[k], Idle}
    BY DEF TypeInv, QueueType, Done
  <1>2. QueueType'
    BY <1>1 DEF TypeInv, QueueType
  <1> QED BY <1>1, <1>2 DEF ItemEffect, Pending, Elements

(* The queue, when an entry is added if there is room.                      *)
LEMMA ItemsGrow ==
    ASSUME TypeInv, NEW n \in Routers, NEW it \in Items, SendToSelf(n, it),
           Done(n) \/ UNCHANGED cur, Appeared(n, it)
    PROVE  QueueType' /\ ItemEffect
  <1>1. cur' \in [Routers -> Items \union {Idle}] /\ \A k \in Routers : cur'[k] \in {cur[k], Idle}
    BY DEF TypeInv, QueueType, Done
  <1>2. CASE Len(queue[n]) < QueueSize
    <2>1. queue' = [queue EXCEPT ![n] = Append(queue[n], it)] /\ queue[n] \in Seq(Items)
      BY <1>2 DEF SendToSelf, TypeInv, QueueType
    <2>2. /\ Append(queue[n], it) \in Seq(Items) /\ Len(Append(queue[n], it)) = Len(queue[n]) + 1
          /\ Elements(Append(queue[n], it)) = Elements(queue[n]) \union {it}
      BY <2>1, AppendElements DEF Elements
    <2>3. \A k \in Routers : queue'[k] = IF k = n THEN Append(queue[n], it) ELSE queue[k]
      BY <2>1 DEF TypeInv, QueueType
    <2>4. queue' \in [Routers -> Seq(Items)]
      BY <2>1, <2>2 DEF TypeInv, QueueType
    <2>5. Len(queue[n]) + 1 <= QueueSize
      <3>1. Len(queue[n]) \in Nat
        BY <2>1
      <3> QED BY <1>2, <3>1, Constants
    <2>6. \A k \in Routers : Len(queue'[k]) <= QueueSize
      BY <2>2, <2>3, <2>5 DEF TypeInv, QueueType
    <2>7. \A k \in Routers : \A x \in Elements(queue'[k]) : x \in Elements(queue[k]) \/ (k = n /\ x = it)
      BY <2>2, <2>3
    <2> QED BY <1>1, <2>4, <2>6, <2>7 DEF QueueType, ItemEffect, Pending, Elements
  <1>3. CASE ~(Len(queue[n]) < QueueSize)
    <2>1. UNCHANGED queue
      BY <1>3 DEF SendToSelf
    <2> QED BY <2>1, ItemsStay
  <1> QED BY <1>2, <1>3

(* The tables, when nothing is stored and when something is.                *)
LEMMA TablesStay ==
    ASSUME TypeInv, UNCHANGED <<lrs, nib>>
    PROVE  TableType' /\ TableEffect
  BY DEF TypeInv, TableType, TableEffect

(* The tables, when the callbacks store a route.                            *)
LEMMA TablesStored ==
    ASSUME TypeInv, NEW n \in Routers, NEW d \in MsgData, NEW node \in Node,
           d.type = METRIC_HOP_COUNT, NEW u \in RouteUpdates(n, d, node), Store(n, u)
    PROVE  TableType' /\ Stored(n, d, node) /\ lrs'[n] = u.lrs
           /\ \A k \in Routers \ {n} : lrs'[k] = lrs[k] /\ nib'[k] = nib[k]
  <1>1. Updated(n, d, node, u)
    BY UpdateCases
  <1>2. /\ u.lrs \in Lrs!Table
        /\ u.nib \in SUBSET NibEntry /\ IsFiniteSet(u.nib) /\ Cardinality(u.nib) <= NibSize
    BY <1>1, UpdatedTypes
  <1>3. /\ lrs' = [lrs EXCEPT ![n] = u.lrs] /\ nib' = [nib EXCEPT ![n] = u.nib]
        /\ lrs \in [Routers -> Lrs!Table] /\ nib \in [Routers -> SUBSET NibEntry]
    BY DEF Store, TypeInv, TableType
  <1>4. lrs'[n] = u.lrs /\ nib'[n] = u.nib
        /\ \A k \in Routers \ {n} : lrs'[k] = lrs[k] /\ nib'[k] = nib[k]
    BY <1>3
  <1>5. TableType'
    <2>1. lrs' \in [Routers -> Lrs!Table] /\ nib' \in [Routers -> SUBSET NibEntry]
      BY <1>2, <1>3
    <2>2. \A k \in Routers : IsFiniteSet(nib'[k]) /\ Cardinality(nib'[k]) <= NibSize
      BY <1>2, <1>4 DEF TypeInv, TableType
    <2> QED BY <2>1, <2>2 DEF TableType
  <1>6. Stored(n, d, node)
    BY <1>1, <1>4 DEF Stored, Updated
  <1> QED BY <1>4, <1>5, <1>6
-----------------------------------------------------------------------------
(* The rest of a router's state and the air, when they stay.                *)
LEMMA AirStays ==
    ASSUME TypeInv, air' \subseteq air
    PROVE  AirType' /\ AirEffect
  BY DEF TypeInv, AirType, AirEffect

(* The next sequence number, and the one that is sent.                      *)
LEMMA NumbersUp ==
    ASSUME NEW s \in SeqNum \ {0}
    PROVE  SeqnumInc(s) \in SeqNum \ {0} /\ ToSeqNum(s) \in SeqNum
  <1>1. s \in Int /\ 0 < SeqMax + 1 /\ SeqMax + 1 \in Int
    BY Constants DEF SeqNum
  <1>2. s % (SeqMax + 1) \in 0..SeqMax
    BY <1>1, Constants DEF SeqNum
  <1> QED BY <1>1, <1>2, Constants DEF SeqNum, SeqnumInc, ToSeqNum, SeqNumMod

(* What the message set is asked about.                                     *)
LEMMA RreqType ==
    ASSUME NEW d \in MsgData, NEW rtr \in Addr, d.type = METRIC_HOP_COUNT
    PROVE  Rreq(d, rtr) \in Mc!Rreq
  <1>1. /\ d.orig.addr \in Addr /\ d.orig.pfx \in PfxLen /\ d.targ.addr \in Addr
        /\ d.orig.seqnum \in SeqNum /\ d.orig.metric \in MetricValue
    BY DEF MsgData, Node
  <1>2. [orig |-> d.orig.addr, pfx |-> d.orig.pfx, targ |-> d.targ.addr, type |-> d.type] \in Key
    BY <1>1 DEF Key, NoKey, METRIC_HOP_COUNT
  <1> QED BY <1>1, <1>2 DEF Rreq, Mc!Rreq, Mc!SeqNum, SeqNum, Mc!MetricValue, MetricValue

(* A packet without a route starts a discovery.                             *)
LEMMA RouteInfoStep ==
    ASSUME TypeInv, NEW w \in Wanted, RouteInfo(w)
    PROVE  TypeInv' /\ Effects
  <1> DEFINE n == w.router
  <1>1. n \in Routers /\ w.dst \in Addr /\ w.src \in Addr
    BY NetworkAssumption
  <1>2. w.router = n /\ \E client \in ClientsOf(n, w.src) : FindRoute(n, client, w.dst)
    BY DEF RouteInfo
  <1> HIDE DEF n
  <1>11. PICK client \in ClientsOf(n, w.src) : FindRoute(n, client, w.dst)
    BY <1>2
  <1> DEFINE d == NewRreq(n, client, w.dst)
             it == [t |-> "rreq", pkt |-> d]
  <1>3. client.addr \in Addr /\ client.pfx \in PfxLen
    <2>1. client \in Clients[n] /\ Clients[n] \subseteq [addr : Addr, pfx : PfxLen \ {0}]
      BY <1>1, <1>11, NetworkAssumption DEF ClientsOf
    <2> QED BY <2>1
  <1>4. seqnum[n] \in SeqNum \ {0} /\ mcmsg[n] \in Mc!Table
    BY <1>1 DEF TypeInv, DataType
  <1>5. d \in MsgData /\ d.type = METRIC_HOP_COUNT
    <2>1. d.orig \in Node /\ d.targ \in Node
      BY <1>1, <1>3, <1>4, NumbersUp, Constants DEF NewRreq, Node, MetricValue, PfxLen, SeqNum
    <2> QED BY <2>1, Constants DEF NewRreq, MsgData, MetricMax, METRIC_HOP_COUNT
  <1>6. it \in Items
    BY <1>5 DEF Items, RreqItem
  <1>7. SendToSelf(n, it) /\ UNCHANGED cur /\ Asked(n, it)
    <2>1. Len(queue[n]) < QueueSize /\ queue' = [queue EXCEPT ![n] = Append(@, it)]
      BY <1>11 DEF FindRoute
    <2>2. UNCHANGED cur
      BY DEF RouteInfo
    <2>3. Asked(n, it)
      BY <1>2, <1>11 DEF Asked
    <2> QED BY <2>1, <2>2, <2>3 DEF SendToSelf
  <1>8. QueueType' /\ ItemEffect
    <2> HIDE DEF it
    <2> QED BY <1>1, <1>6, <1>7, ItemsGrow DEF Appeared
  <1>9. TableType' /\ TableEffect /\ AirType' /\ AirEffect
    BY TablesStay, AirStays DEF RouteInfo
  <1>10. DataType'
    <2>1. seqnum' = [seqnum EXCEPT ![n] = SeqnumInc(seqnum[n])]
      BY <1>11 DEF FindRoute
    <2>2. PICK rtr \in StackRtr :
             mcmsg' = [mcmsg EXCEPT ![n] = Mc!Process(mcmsg[n], Rreq(d, rtr), Now).table]
      BY <1>11 DEF FindRoute
    <2>3. Mc!Process(mcmsg[n], Rreq(d, rtr), Now).table \in Mc!Table
      <3>1. rtr \in Addr
        BY NetworkAssumption
      <3> QED BY <1>4, <1>5, <3>1, RreqType, McmsgType
    <2>4. waiting' = [waiting EXCEPT ![n] = PktAdd(waiting[n], w.dst)] /\ UNCHANGED msgData
      BY DEF RouteInfo, n
    <2>5. waiting[n] \in [PacketSlots -> Addr \union {NoPacket}]
      BY <1>1 DEF TypeInv, DataType
    <2>6. PktAdd(waiting[n], w.dst) \in [PacketSlots -> Addr \union {NoPacket}]
      BY <1>1, <2>5 DEF PktAdd
    <2>8. seqnum' \in [Routers -> SeqNum \ {0}]
      BY <1>4, <2>1, NumbersUp DEF TypeInv, DataType
    <2>9. mcmsg' \in [Routers -> Mc!Table]
      BY <2>2, <2>3 DEF TypeInv, DataType
    <2>10. waiting' \in [Routers -> [PacketSlots -> Addr \union {NoPacket}]]
      BY <2>4, <2>6 DEF TypeInv, DataType
    <2> QED BY <2>4, <2>8, <2>9, <2>10 DEF TypeInv, DataType
  <1>12. DataEffect
    BY DEF RouteInfo, DataEffect
  <1> QED BY <1>8, <1>9, <1>10, <1>12 DEF TypeInv, Effects

(* The radio delivers a message.                                            *)
LEMMA DeliverStep ==
    ASSUME TypeInv, NEW f \in air, Deliver(f)
    PROVE  TypeInv' /\ Effects
  <1> DEFINE it == [t |-> "rcv", from |-> LinkLocal[f.from], msg |-> f.msg]
  <1>1. f.from \in Routers /\ f.to \in Routers /\ f.msg \in Messages
    BY DEF TypeInv, AirType
  <1>2. it \in Items
    <2>1. LinkLocal[f.from] \in Addr
      BY <1>1, NetworkAssumption
    <2> QED BY <1>1, <2>1 DEF Items, RcvItem
  <1>3. SendToSelf(f.to, it) /\ UNCHANGED cur /\ Heard(f.to, it)
    BY DEF Deliver, Heard
  <1>4. QueueType' /\ ItemEffect
    <2> HIDE DEF it
    <2> QED BY <1>1, <1>2, <1>3, ItemsGrow DEF Appeared
  <1>5. TableType' /\ TableEffect /\ AirType' /\ AirEffect
    BY TablesStay, AirStays DEF Deliver
  <1>6. DataType' /\ DataEffect
    BY DEF Deliver, TypeInv, DataType, DataEffect
  <1> QED BY <1>4, <1>5, <1>6 DEF TypeInv, Effects

(* The radio loses a message.                                               *)
LEMMA LoseStep ==
    ASSUME TypeInv, NEW f \in air, Lose(f)
    PROVE  TypeInv' /\ Effects
  <1>1. QueueType' /\ ItemEffect
    <2>1. f.to \in Routers
      BY DEF TypeInv, AirType
    <2> QED BY <2>1, ItemsStay DEF Lose
  <1>2. TableType' /\ TableEffect /\ AirType' /\ AirEffect
    BY TablesStay, AirStays DEF Lose
  <1>3. DataType' /\ DataEffect
    BY DEF Lose, TypeInv, DataType, DataEffect
  <1> QED BY <1>1, <1>2, <1>3 DEF TypeInv, Effects

(* The event loop takes a message from its queue.                           *)
LEMMA MsgReceiveStep ==
    ASSUME TypeInv, NEW n \in Routers, MsgReceive(n)
    PROVE  TypeInv' /\ Effects
  <1>1. /\ queue[n] # <<>> /\ queue[n] \in Seq(Items)
        /\ cur' = [cur EXCEPT ![n] = Head(queue[n])] /\ queue' = [queue EXCEPT ![n] = Tail(queue[n])]
    BY DEF MsgReceive, TypeInv, QueueType
  <1>2. /\ Tail(queue[n]) \in Seq(Items) /\ Len(Tail(queue[n])) = Len(queue[n]) - 1
        /\ Head(queue[n]) \in Elements(queue[n]) /\ Elements(Tail(queue[n])) \subseteq Elements(queue[n])
    BY <1>1, TailElements DEF Elements
  <1>3. Head(queue[n]) \in Items /\ Len(queue[n]) \in Nat
    BY <1>1
  <1>4. \A k \in Routers : /\ queue'[k] = IF k = n THEN Tail(queue[n]) ELSE queue[k]
                           /\ cur'[k] = IF k = n THEN Head(queue[n]) ELSE cur[k]
    BY <1>1 DEF TypeInv, QueueType
  <1>5. QueueType'
    <2>1. queue' \in [Routers -> Seq(Items)] /\ cur' \in [Routers -> Items \union {Idle}]
      BY <1>1, <1>2, <1>3 DEF TypeInv, QueueType
    <2>2. Len(queue[n]) - 1 <= QueueSize
      BY <1>3, Constants DEF TypeInv, QueueType
    <2>3. \A k \in Routers : Len(queue'[k]) <= QueueSize
      BY <1>2, <1>4, <2>2 DEF TypeInv, QueueType
    <2> QED BY <2>1, <2>3 DEF QueueType
  <1>6. ItemEffect
    <2> SUFFICES ASSUME NEW k \in Routers, NEW x \in Elements(queue'[k]) \union {cur'[k]}
                 PROVE  x \in Elements(queue[k]) \union {cur[k]}
      BY DEF ItemEffect, Pending, Elements
    <2> QED BY <1>2, <1>4
  <1>7. TableType' /\ TableEffect /\ AirType' /\ AirEffect
    BY TablesStay, AirStays DEF MsgReceive
  <1>8. DataType' /\ DataEffect
    BY DEF MsgReceive, TypeInv, DataType, DataEffect
  <1> QED BY <1>5, <1>6, <1>7, <1>8 DEF TypeInv, Effects

(* A RREQ goes out to all neighbours.                                       *)
LEMMA SendRreqStep ==
    ASSUME TypeInv, NEW n \in Routers, SendRreq(n)
    PROVE  TypeInv' /\ Effects
  <1>1. cur[n].pkt \in MsgData
    <2>1. cur[n] \in Items \union {Idle} /\ cur[n].t = "rreq"
      BY DEF TypeInv, QueueType, SendRreq
    <2> QED BY <2>1 DEF Items, RreqItem, RrepItem, RcvItem, Idle
  <1>2. \A f \in air' : f \in air \/ \E m \in Routers :
           <<n, m>> \in Link /\ f = [from |-> n, to |-> m, msg |-> EncodeRreq(cur[n].pkt)]
    BY DEF SendRreq
  <1>3. EncodeRreq(cur[n].pkt) \in Messages
    BY <1>1 DEF Messages
  <1>4. AirType'
    <2> SUFFICES ASSUME NEW f \in air', f \notin air
                 PROVE  f \in [from : Routers, to : Routers, msg : Messages] /\ <<f.from, f.to>> \in Link
      BY DEF TypeInv, AirType
    <2>1. PICK m \in Routers : <<n, m>> \in Link /\ f = [from |-> n, to |-> m, msg |-> EncodeRreq(cur[n].pkt)]
      BY <1>2
    <2> QED BY <1>3, <2>1
  <1>5. AirEffect
    <2> SUFFICES ASSUME NEW f \in air', f \notin air
                 PROVE  Sent(f)
      BY DEF AirEffect
    <2>1. PICK m \in Routers : f = [from |-> n, to |-> m, msg |-> EncodeRreq(cur[n].pkt)]
      BY <1>2
    <2> QED BY <2>1 DEF Sent, SendRreq
  <1>6. QueueType' /\ ItemEffect
    BY ItemsStay DEF SendRreq
  <1>7. TableType' /\ TableEffect
    BY TablesStay DEF SendRreq
  <1>8. DataType' /\ DataEffect
    BY DEF SendRreq, TypeInv, DataType, DataEffect
  <1> QED BY <1>4, <1>5, <1>6, <1>7, <1>8 DEF TypeInv, Effects

(* A RREP goes out to its next hop.                                         *)
LEMMA SendRrepStep ==
    ASSUME TypeInv, NEW n \in Routers, SendRrep(n)
    PROVE  TypeInv' /\ Effects
  <1>1. cur[n].pkt \in MsgData
    <2>1. cur[n] \in Items \union {Idle} /\ cur[n].t = "rrep"
      BY DEF TypeInv, QueueType, SendRrep
    <2> QED BY <2>1 DEF Items, RreqItem, RrepItem, RcvItem, Idle
  <1>2. seqnum[n] \in SeqNum \ {0}
    BY DEF TypeInv, DataType
  <1> DEFINE s == ToSeqNum(seqnum[n])
  <1>3. s \in SeqNum
    BY <1>2, NumbersUp
  <1>4. \A f \in air' : f \in air \/ \E m \in Routers :
           /\ <<n, m>> \in Link /\ LinkLocal[m] = cur[n].nextHop
           /\ f = [from |-> n, to |-> m, msg |-> EncodeRrep(cur[n].pkt, s)]
    BY DEF SendRrep
  <1> HIDE DEF s
  <1>5. EncodeRrep(cur[n].pkt, s) \in Messages
    BY <1>1, <1>3 DEF Messages
  <1>6. AirType'
    <2> SUFFICES ASSUME NEW f \in air', f \notin air
                 PROVE  f \in [from : Routers, to : Routers, msg : Messages] /\ <<f.from, f.to>> \in Link
      BY DEF TypeInv, AirType
    <2>1. PICK m \in Routers : /\ <<n, m>> \in Link
                               /\ f = [from |-> n, to |-> m, msg |-> EncodeRrep(cur[n].pkt, s)]
      BY <1>4
    <2> QED BY <1>5, <2>1
  <1>7. AirEffect
    <2> SUFFICES ASSUME NEW f \in air', f \notin air
                 PROVE  Sent(f)
      BY DEF AirEffect
    <2>1. PICK m \in Routers : /\ LinkLocal[m] = cur[n].nextHop
                               /\ f = [from |-> n, to |-> m, msg |-> EncodeRrep(cur[n].pkt, s)]
      BY <1>4
    <2> QED BY <1>3, <2>1 DEF Sent, SendRrep
  <1>8. QueueType' /\ ItemEffect
    BY ItemsStay DEF SendRrep
  <1>9. TableType' /\ TableEffect
    BY TablesStay DEF SendRrep
  <1>10. DataType' /\ DataEffect
    <2>1. seqnum' = [seqnum EXCEPT ![n] = SeqnumInc(seqnum[n])] /\ UNCHANGED <<mcmsg, msgData, waiting>>
      BY DEF SendRrep
    <2>2. seqnum' \in [Routers -> SeqNum \ {0}]
      BY <1>2, <2>1, NumbersUp DEF TypeInv, DataType
    <2> QED BY <2>1, <2>2 DEF TypeInv, DataType, DataEffect
  <1> QED BY <1>6, <1>7, <1>8, <1>9, <1>10 DEF TypeInv, Effects
-----------------------------------------------------------------------------
(* The steps that end a received message.                                   *)
LEMMA VerdictType ==
    ASSUME TypeInv, NEW n \in Routers, AcceptedRreq(n)
    PROVE  RreqVerdict(n).table \in Mc!Table
  <1>1. PICK p \in MsgData : Read(n).data = RreqRead(msgData[n], cur[n].from, p)
    BY RreqAccepted
  <1>2. Read(n).data \in MsgData
    BY ReadData DEF AcceptedRreq, Receiving
  <1>3. Read(n).data.type = METRIC_HOP_COUNT
    BY <1>1 DEF RreqRead
  <1>4. mcmsg[n] \in Mc!Table
    BY DEF TypeInv, DataType
  <1> QED BY <1>2, <1>3, <1>4, RreqType, McmsgType, Constants DEF RreqVerdict

(* The RREP that answers a RREQ.                                            *)
LEMMA AnswerType ==
    ASSUME TypeInv, NEW n \in Routers, AcceptedRreq(n)
    PROVE  /\ Answer(n) \in MsgData /\ Answer(n).orig = UpdatedRreq(n).orig
           /\ Answer(n).targ.addr = UpdatedRreq(n).targ.addr
           /\ Answer(n).targ.pfx = UpdatedRreq(n).targ.pfx
  <1> DEFINE d == UpdatedRreq(n)
  <1>1. d \in MsgData
    BY RreqAccepted
  <1>2. Answer(n) = WithNodes(d, d.type, d.orig, WithMetric(d.targ, 0))
    BY DEF Answer
  <1> HIDE DEF d
  <1>3. WithMetric(d.targ, 0) \in Node
    BY <1>1 DEF WithMetric, MsgData, Node, MetricValue
  <1>4. Answer(n) \in MsgData
    BY <1>1, <1>2, <1>3 DEF WithNodes, MsgData
  <1>5. Answer(n).orig = d.orig /\ Answer(n).targ.addr = d.targ.addr /\ Answer(n).targ.pfx = d.targ.pfx
    BY <1>2 DEF WithNodes, WithMetric
  <1> QED BY <1>4, <1>5 DEF d

(* What ends in _msg_data.                                                  *)
EndsWith(n, x) ==
    \/ cur[n].t = "rcv" /\ x = Read(n).data
    \/ AcceptedRreq(n) /\ x \in {UpdatedRreq(n), Answer(n)}
    \/ AcceptedRrep(n) /\ x = UpdatedRrep(n)

(* The rest of the state of a router that ends a message.                   *)
LEMMA DataStep ==
    ASSUME TypeInv, NEW n \in Routers, NEW x, EndsWith(n, x),
           msgData' = [msgData EXCEPT ![n] = x], UNCHANGED seqnum,
           \/ UNCHANGED mcmsg
           \/ AcceptedRreq(n) /\ mcmsg' = [mcmsg EXCEPT ![n] = RreqVerdict(n).table],
           \/ UNCHANGED waiting
           \/ \E dst : waiting' = [waiting EXCEPT ![n] = Dispatch(@, dst)]
    PROVE  DataType' /\ DataEffect
  <1>1. x \in MsgData
    BY ReadData, RreqAccepted, RrepAccepted, AnswerType DEF EndsWith
  <1>2. /\ msgData' \in [Routers -> MsgData] /\ msgData'[n] = x
        /\ \A k \in Routers \ {n} : msgData'[k] = msgData[k]
    BY <1>1 DEF TypeInv, DataType
  <1>3. mcmsg' \in [Routers -> Mc!Table]
    BY VerdictType DEF TypeInv, DataType
  <1>4. waiting' \in [Routers -> [PacketSlots -> Addr \union {NoPacket}]]
    <2>1. CASE UNCHANGED waiting
      BY <2>1 DEF TypeInv, DataType
    <2>2. CASE ~UNCHANGED waiting
      <3>1. PICK dst : waiting' = [waiting EXCEPT ![n] = Dispatch(waiting[n], dst)]
        BY <2>2
      <3>2. waiting[n] \in [PacketSlots -> Addr \union {NoPacket}]
        BY DEF TypeInv, DataType
      <3>3. Dispatch(waiting[n], dst) \in [PacketSlots -> Addr \union {NoPacket}]
        BY <3>2 DEF Dispatch
      <3> QED BY <3>1, <3>3 DEF TypeInv, DataType
    <2> QED BY <2>1, <2>2
  <1>5. DataType'
    BY <1>2, <1>3, <1>4 DEF TypeInv, DataType
  <1>6. DataEffect
    <2> SUFFICES ASSUME NEW k \in Routers, msgData'[k] # msgData[k]
                 PROVE  EndsWith(k, msgData'[k])
      BY DEF DataEffect, EndsWith
    <2>1. k = n
      BY <1>2
    <2> QED BY <1>2, <2>1
  <1> QED BY <1>5, <1>6

(* A message that changes no table ends.                                    *)
LEMMA RefuseStep ==
    ASSUME TypeInv, NEW n \in Routers,
           RefuseRreq(n) \/ RedundantRreq(n) \/ UselessRreq(n) \/ RefuseRrep(n) \/ UselessRrep(n)
    PROVE  TypeInv' /\ Effects
  <1>1. UNCHANGED <<seqnum, lrs, waiting, queue, nib, air>> /\ Done(n)
    BY DEF RefuseRreq, RedundantRreq, UselessRreq, RefuseRrep, UselessRrep
  <1>2. QueueType' /\ ItemEffect
    BY <1>1, ItemsStay
  <1>3. TableType' /\ TableEffect /\ AirType' /\ AirEffect
    BY <1>1, TablesStay, AirStays
  <1>4. \E x : EndsWith(n, x) /\ msgData' = [msgData EXCEPT ![n] = x]
    <2>1. CASE RefuseRreq(n) \/ RedundantRreq(n) \/ RefuseRrep(n)
      BY <2>1 DEF RefuseRreq, RedundantRreq, RefuseRrep, EndsWith, Receiving
    <2>2. CASE UselessRreq(n)
      BY <2>2 DEF UselessRreq, EndsWith, AcceptedRreq
    <2>3. CASE UselessRrep(n)
      BY <2>3 DEF UselessRrep, EndsWith, AcceptedRrep
    <2> QED BY <2>1, <2>2, <2>3
  <1>5. \/ UNCHANGED mcmsg
        \/ AcceptedRreq(n) /\ mcmsg' = [mcmsg EXCEPT ![n] = RreqVerdict(n).table]
    BY DEF RefuseRreq, RedundantRreq, UselessRreq, RefuseRrep, UselessRrep, AcceptedRreq
  <1>6. DataType' /\ DataEffect
    BY <1>1, <1>4, <1>5, DataStep
  <1> QED BY <1>2, <1>3, <1>6 DEF TypeInv, Effects

(* A RREQ is answered or forwarded.                                         *)
LEMMA AcceptRreqStep ==
    ASSUME TypeInv, NEW n \in Routers, AcceptRreq(n)
    PROVE  TypeInv' /\ Effects
  <1> DEFINE d == UpdatedRreq(n)
             rrep == [t |-> "rrep", pkt |-> Answer(n), nextHop |-> d.sender]
             rreq == [t |-> "rreq", pkt |-> d]
  <1>1. /\ AcceptedRreq(n) /\ Done(n) /\ UNCHANGED <<seqnum, waiting, air>>
        /\ mcmsg' = [mcmsg EXCEPT ![n] = RreqVerdict(n).table]
    BY DEF AcceptRreq, AcceptedRreq
  <1>2. PICK u \in RouteUpdates(n, d, d.orig) : Store(n, u)
    BY DEF AcceptRreq
  <1>3. \/ /\ IsClient(n, d.targ.addr)
           /\ msgData' = [msgData EXCEPT ![n] = Answer(n)] /\ SendToSelf(n, rrep)
        \/ msgData' = [msgData EXCEPT ![n] = d] /\ SendToSelf(n, rreq)
    BY DEF AcceptRreq, Answer
  <1>4. d \in MsgData /\ d.type = METRIC_HOP_COUNT
    BY <1>1, RreqAccepted
  <1>5. d.orig \in Node /\ d.sender \in Addr
    BY <1>4 DEF MsgData
  <1>6. TableType' /\ StoredRreq(n) /\ \A k \in Routers \ {n} : lrs'[k] = lrs[k] /\ nib'[k] = nib[k]
    BY <1>1, <1>2, <1>4, <1>5, TablesStored DEF StoredRreq
  <1>7. TableEffect
    BY <1>6 DEF TableEffect
  <1>8. AirType' /\ AirEffect
    BY <1>1, AirStays
  <1>9. DataType' /\ DataEffect
    <2>1. \E x : EndsWith(n, x) /\ msgData' = [msgData EXCEPT ![n] = x]
      BY <1>1, <1>3 DEF EndsWith
    <2> QED BY <1>1, <2>1, DataStep
  <1>10. QueueType' /\ ItemEffect
    <2>1. rrep \in Items /\ rreq \in Items
      BY <1>1, <1>4, <1>5, AnswerType DEF Items, RrepItem, RreqItem
    <2>2. \E it \in Items : SendToSelf(n, it) /\ Appeared(n, it)
      <3>1. CASE IsClient(n, d.targ.addr) /\ SendToSelf(n, rrep)
        BY <1>6, <2>1, <3>1 DEF Appeared, Answered
      <3>2. CASE SendToSelf(n, rreq)
        BY <1>6, <2>1, <3>2 DEF Appeared, Relayed
      <3> QED BY <1>3, <3>1, <3>2
    <2> QED BY <1>1, <2>2, ItemsGrow
  <1> QED BY <1>6, <1>7, <1>8, <1>9, <1>10 DEF TypeInv, Effects

(* The next hop of a lookup.                                                *)
LEMMA NextHopCases ==
    ASSUME NEW t \in Lrs!Table, NEW addr
    PROVE  LET hop == NextHop(t, addr, METRIC_HOP_COUNT)
           IN  \/ hop = NoHop /\ \A i \in Lrs!Slots : ~Leads(t, i, addr)
               \/ \E i \in Lrs!Slots : Leads(t, i, addr) /\ hop = t[i].route.nextHop /\ hop \in Addr
  <1> DEFINE hit == Lrs!Find(t, addr, METRIC_HOP_COUNT, Now)
  <1>1. NextHop(t, addr, METRIC_HOP_COUNT) = IF hit = 0 THEN NoHop ELSE t[hit].route.nextHop
    BY DEF NextHop
  <1>2. \/ hit = 0 /\ \A i \in Lrs!Slots : ~Leads(t, i, addr)
        \/ hit # 0 /\ hit \in Lrs!Slots /\ Leads(t, hit, addr)
    BY FindCases
  <1>3. \A i \in Lrs!Slots : t[i].route.nextHop \in Addr
    BY DEF Lrs!Table, Lrs!Route
  <1> HIDE DEF hit
  <1> QED BY <1>1, <1>2, <1>3

(* A RREP is passed on.                                                     *)
LEMMA ForwardRrepStep ==
    ASSUME TypeInv, NEW n \in Routers, ForwardRrep(n)
    PROVE  TypeInv' /\ Effects
  <1> DEFINE d == UpdatedRrep(n)
             it == [t |-> "rrep", pkt |-> d, nextHop |-> NextHop(lrs'[n], d.orig.addr, d.type)]
  <1>1. /\ AcceptedRrep(n) /\ ~IsClient(n, d.orig.addr) /\ Done(n)
        /\ UNCHANGED <<seqnum, mcmsg, waiting, air>> /\ msgData' = [msgData EXCEPT ![n] = d]
    BY DEF ForwardRrep, AcceptedRrep
  <1>2. PICK u \in RouteUpdates(n, d, d.targ) :
          /\ Store(n, u)
          /\ SendToSelf(n, [t |-> "rrep", pkt |-> d, nextHop |-> NextHop(u.lrs, d.orig.addr, d.type)])
    BY DEF ForwardRrep
  <1>3. d \in MsgData /\ d.type = METRIC_HOP_COUNT
    BY <1>1, RrepAccepted
  <1>4. d.targ \in Node
    BY <1>3 DEF MsgData
  <1>5. /\ TableType' /\ Stored(n, d, d.targ) /\ lrs'[n] = u.lrs
        /\ \A k \in Routers \ {n} : lrs'[k] = lrs[k] /\ nib'[k] = nib[k]
    BY <1>2, <1>3, <1>4, TablesStored
  <1>6. StoredRrep(n)
    BY <1>1, <1>5 DEF StoredRrep
  <1>7. TableEffect
    BY <1>5, <1>6 DEF TableEffect
  <1>8. AirType' /\ AirEffect
    BY <1>1, AirStays
  <1>9. DataType' /\ DataEffect
    BY <1>1, DataStep DEF EndsWith
  <1>10. QueueType' /\ ItemEffect
    <2>1. SendToSelf(n, it) /\ PassedOn(n, it)
      BY <1>1, <1>2, <1>5, <1>6 DEF PassedOn
    <2>2. lrs'[n] \in Lrs!Table
      BY <1>5 DEF TableType
    <2>3. NextHop(lrs'[n], d.orig.addr, d.type) \in Addr \union {NoHop}
      BY <1>3, <2>2, NextHopCases
    <2>4. it \in Items
      BY <1>3, <2>3 DEF Items, RrepItem
    <2> HIDE DEF it
    <2> QED BY <1>1, <2>1, <2>4, ItemsGrow DEF Appeared
  <1> QED BY <1>5, <1>7, <1>8, <1>9, <1>10 DEF TypeInv, Effects

(* A RREP reaches the router that asked.                                    *)
LEMMA ConsumeRrepStep ==
    ASSUME TypeInv, NEW n \in Routers, ConsumeRrep(n)
    PROVE  TypeInv' /\ Effects
  <1> DEFINE d == UpdatedRrep(n)
  <1>1. /\ AcceptedRrep(n) /\ Done(n)
        /\ UNCHANGED <<seqnum, mcmsg, queue, air>> /\ msgData' = [msgData EXCEPT ![n] = d]
        /\ waiting' = [waiting EXCEPT ![n] = Dispatch(@, d.targ.addr)]
    BY DEF ConsumeRrep, AcceptedRrep
  <1>2. PICK u \in RouteUpdates(n, d, d.targ) : Store(n, u)
    BY DEF ConsumeRrep
  <1>3. d \in MsgData /\ d.type = METRIC_HOP_COUNT
    BY <1>1, RrepAccepted
  <1>4. d.targ \in Node
    BY <1>3 DEF MsgData
  <1>5. TableType' /\ StoredRrep(n) /\ \A k \in Routers \ {n} : lrs'[k] = lrs[k] /\ nib'[k] = nib[k]
    BY <1>1, <1>2, <1>3, <1>4, TablesStored DEF StoredRrep
  <1>6. TableEffect
    BY <1>5 DEF TableEffect
  <1>7. AirType' /\ AirEffect
    BY <1>1, AirStays
  <1>8. DataType' /\ DataEffect
    <2>1. \E dst : waiting' = [waiting EXCEPT ![n] = Dispatch(@, dst)]
      BY <1>1, Zenon
    <2>2. EndsWith(n, d)
      BY <1>1 DEF EndsWith
    <2> HIDE DEF d
    <2> QED BY <1>1, <2>1, <2>2, DataStep
  <1>9. QueueType' /\ ItemEffect
    BY <1>1, ItemsStay
  <1> QED BY <1>5, <1>6, <1>7, <1>8, <1>9 DEF TypeInv, Effects
-----------------------------------------------------------------------------
(* Every step keeps the types and has one of the effects.                   *)
LEMMA NextStep ==
    ASSUME TypeInv, [Next]_vars
    PROVE  TypeInv' /\ Effects
  <1>1. CASE UNCHANGED vars
    BY <1>1 DEF vars, TypeInv, QueueType, TableType, DataType, AirType,
                Effects, ItemEffect, AirEffect, TableEffect, DataEffect, Pending, Elements
  <1>2. CASE \E w \in Wanted : RouteInfo(w)
    BY <1>2, RouteInfoStep
  <1>3. CASE \E f \in air : Lose(f) \/ Deliver(f)
    BY <1>3, LoseStep, DeliverStep
  <1>4. CASE \E n \in Routers : MsgReceive(n) \/ Handle(n)
    <2>1. PICK n \in Routers : MsgReceive(n) \/ Handle(n)
      BY <1>4
    <2> QED BY <2>1, MsgReceiveStep, SendRreqStep, SendRrepStep, RefuseStep,
               AcceptRreqStep, ConsumeRrepStep, ForwardRrepStep DEF Handle
  <1> QED BY <1>1, <1>2, <1>3, <1>4 DEF Next, Work

(* The initial states are well formed.                                      *)
LEMMA InitTypeInv == Init => TypeInv
  <1> SUFFICES ASSUME Init PROVE TypeInv
    OBVIOUS
  <1>1. QueueType
    <2>1. <<>> \in Seq(Items) /\ Len(<<>>) = 0
      OBVIOUS
    <2> QED BY <2>1, Constants DEF Init, QueueType
  <1>2. TableType
    <2>1. Lrs!EmptyTable \in Lrs!Table
      BY Constants DEF Lrs!EmptyTable, Lrs!Table, Lrs!NoRoute, Lrs!Route, Lrs!SeqNum,
                       Lrs!MetricValue, Lrs!RouteState
    <2>2. IsFiniteSet({}) /\ Cardinality({}) = 0
      BY FS_EmptySet
    <2> QED BY <2>1, <2>2, Constants DEF Init, TableType
  <1>3. DataType
    <2>1. NoMsgData \in MsgData
      BY Constants DEF NoMsgData, NoNode, MsgData, Node, PfxLen, MetricValue, SeqNum
    <2>2. Mc!EmptyTable \in Mc!Table
      BY Constants DEF Mc!EmptyTable, Mc!Table, Mc!NoEntry, Mc!Entry, Mc!MetricValue, Mc!SeqNum, NoKey
    <2>3. EmptyBuffer \in [PacketSlots -> Addr \union {NoPacket}]
      BY DEF EmptyBuffer
    <2> QED BY <2>1, <2>2, <2>3, Constants DEF Init, DataType, SeqNum
  <1>4. AirType
    BY DEF Init, AirType
  <1> QED BY <1>1, <1>2, <1>3, <1>4 DEF TypeInv

(* What routers write has the type of a message,                            *)
LEMMA MessageTypes ==
    ASSUME NEW m \in Messages
    PROVE  IsMessage(m)
  <1> DEFINE Address == [addr : Addr, pfx : PfxLen \ {0}, tlv : TlvValue]
  <1>1. ASSUME NEW p \in MsgData
        PROVE  /\ p.hopLimit \in 0..255 /\ p.orig.addr \in Addr /\ p.targ.addr \in Addr
               /\ SentPfx(p.orig.pfx) \in PfxLen \ {0} /\ SentPfx(p.targ.pfx) \in PfxLen \ {0}
               /\ p.orig.seqnum \in SeqNum /\ p.orig.metric \in MetricValue
               /\ p.targ.metric \in MetricValue
    BY DEF MsgData, Node, SentPfx, PfxLen
  <1>2. ASSUME NEW p \in MsgData, m = EncodeRreq(p)
        PROVE  IsMessage(m)
    <2> DEFINE a == [addr |-> p.orig.addr, pfx |-> SentPfx(p.orig.pfx),
                     tlv |-> [ORIGSEQNUM |-> p.orig.seqnum, METRIC |-> p.orig.metric]]
               b == [addr |-> p.targ.addr, pfx |-> SentPfx(p.targ.pfx), tlv |-> <<>>]
    <2>1. a \in Address /\ b \in Address
      BY <1>1 DEF TlvValue
    <2>2. m.kind = "RREQ" /\ m.hopLimit = p.hopLimit /\ m.addrs = <<a, b>>
      BY <1>2 DEF EncodeRreq
    <2> HIDE DEF a, b
    <2> QED BY <1>1, <2>1, <2>2 DEF IsMessage
  <1>3. ASSUME NEW p \in MsgData, NEW s \in SeqNum, m = EncodeRrep(p, s)
        PROVE  IsMessage(m)
    <2> DEFINE a == [addr |-> p.orig.addr, pfx |-> SentPfx(p.orig.pfx),
                     tlv |-> [ORIGSEQNUM |-> p.orig.seqnum]]
               b == [addr |-> p.targ.addr, pfx |-> SentPfx(p.targ.pfx),
                     tlv |-> [TARGSEQNUM |-> s, METRIC |-> p.targ.metric]]
    <2>1. a \in Address /\ b \in Address
      BY <1>1, <1>3 DEF TlvValue
    <2>2. m.kind = "RREP" /\ m.hopLimit = p.hopLimit /\ m.addrs = <<a, b>>
      BY <1>3 DEF EncodeRrep
    <2> HIDE DEF a, b
    <2> QED BY <1>1, <2>1, <2>2 DEF IsMessage
  <1> QED BY <1>2, <1>3 DEF Messages

(* and what is queued the type of an item.                                  *)
LEMMA ItemTypes ==
    ASSUME NEW i \in Items \union {Idle}
    PROVE  IsItem(i)
  <1>1. CASE i \in RcvItem
    BY <1>1, MessageTypes DEF RcvItem, IsItem
  <1>2. CASE i \in RreqItem \union RrepItem \union {Idle}
    <2>1. i.t # "rcv"
      BY <1>2 DEF RreqItem, RrepItem, Idle
    <2> QED BY <1>2, <2>1 DEF RreqItem, RrepItem, Item, IsItem
  <1> QED BY <1>1, <1>2 DEF Items

(* Every variable keeps its type: what is in the queues, on the air and in  *)
(* the tables is always well formed, and queue and forwarding table stay    *)
(* within their sizes.                                                      *)
THEOREM TypeCorrect == Spec => []TypeOK
  <1>1. TypeInv /\ [Next]_vars => TypeInv'
    BY NextStep
  <1>2. TypeInv => TypeOK
    <2> SUFFICES ASSUME TypeInv PROVE TypeOK
      OBVIOUS
    <2>1. ASSUME NEW n \in Routers
          PROVE  /\ IsItem(cur[n]) /\ Len(queue[n]) <= QueueSize
                 /\ \A i \in 1..Len(queue[n]) : IsItem(queue[n][i])
                 /\ nib[n] \subseteq [dst : Addr, pfx : PfxLen, hop : Addr]
                 /\ Cardinality(nib[n]) <= NibSize
      <3>1. cur[n] \in Items \union {Idle} /\ queue[n] \in Seq(Items) /\ Len(queue[n]) <= QueueSize
        BY DEF TypeInv, QueueType
      <3>2. \A i \in 1..Len(queue[n]) : queue[n][i] \in Items
        BY <3>1
      <3> QED BY <3>1, <3>2, ItemTypes DEF TypeInv, TableType, NibEntry
    <2>2. \A f \in air : <<f.from, f.to>> \in Link /\ IsMessage(f.msg)
      BY MessageTypes DEF TypeInv, AirType
    <2> QED BY <2>1, <2>2 DEF TypeInv, TypeOK, TableType, DataType
  <1> QED BY <1>1, <1>2, InitTypeInv, PTL DEF Spec
-----------------------------------------------------------------------------
(* A RREQ, wherever it is, has a hop limit and a hop count that add up.     *)
(* Those in _msg_data need not: it is the message on the air, not what the  *)
(* last one left behind, that decides what is forwarded.                    *)
Balanced(p) == p.hopLimit + p.orig.metric = MaxHopCount
BalancedMessage(m) ==
    m.kind = "RREQ" => m.hopLimit + m.addrs[1].tlv["METRIC"] = MaxHopCount

HopsInv ==
    /\ \A n \in Routers : \A it \in Pending(n) :
         /\ it.t = "rreq" => Balanced(it.pkt)
         /\ it.t = "rcv" => BalancedMessage(it.msg)
    /\ \A f \in air : BalancedMessage(f.msg)

(* The writer puts hop limit and hop count on the air as they are.          *)
LEMMA EncodedBalance ==
    ASSUME NEW p, NEW s
    PROVE  /\ BalancedMessage(EncodeRreq(p)) <=> Balanced(p)
           /\ BalancedMessage(EncodeRrep(p, s))
  <1>1. EncodeRrep(p, s).kind = "RREP"
    BY DEF EncodeRrep
  <1>2. /\ EncodeRreq(p).kind = "RREQ" /\ EncodeRreq(p).hopLimit = p.hopLimit
        /\ EncodeRreq(p).addrs[1].tlv["METRIC"] = p.orig.metric
    BY DEF EncodeRreq
  <1> QED BY <1>1, <1>2 DEF BalancedMessage, Balanced

(* What aodvv2_find_route asks with.                                        *)
LEMMA NewRreqFields ==
    ASSUME NEW n, NEW client, NEW dst
    PROVE  LET d == NewRreq(n, client, dst)
           IN  /\ d.hopLimit = MaxHopCount /\ d.orig.metric = 0
               /\ d.orig.addr = client.addr /\ d.orig.pfx = client.pfx
               /\ d.targ.addr = dst /\ d.targ.pfx = 128
  BY DEF NewRreq, MetricMax

(* Every step keeps hop limits and hop counts in balance.                   *)
LEMMA HopsStep ==
    ASSUME TypeInv, HopsInv, Effects
    PROVE  HopsInv'
  <1>1. ASSUME NEW n \in Routers, NEW it, Appeared(n, it)
        PROVE  /\ it.t = "rreq" => Balanced(it.pkt)
               /\ it.t = "rcv" => BalancedMessage(it.msg)
    <2>1. CASE Asked(n, it)
      <3>1. PICK client, dst : it = [t |-> "rreq", pkt |-> NewRreq(n, client, dst)]
        BY <2>1 DEF Asked
      <3>2. Balanced(NewRreq(n, client, dst))
        BY NewRreqFields, Constants DEF Balanced
      <3> QED BY <3>1, <3>2
    <2>2. CASE Heard(n, it)
      BY <2>2 DEF Heard, HopsInv
    <2>3. CASE Answered(n, it) \/ PassedOn(n, it)
      BY <2>3 DEF Answered, PassedOn
    <2>4. CASE Relayed(n, it)
      <3>1. AcceptedRreq(n) /\ it = [t |-> "rreq", pkt |-> UpdatedRreq(n)]
        BY <2>4 DEF Relayed, StoredRreq
      <3>2. PICK p \in MsgData :
              /\ cur[n].msg = EncodeRreq(p)
              /\ UpdatedRreq(n).hopLimit = p.hopLimit - 1
              /\ UpdatedRreq(n).orig.metric = p.orig.metric + 1
        BY <3>1, RreqAccepted
      <3>3. Balanced(p)
        <4>1. cur[n] \in Pending(n) /\ cur[n].t = "rcv"
          BY <3>1 DEF Pending, AcceptedRreq, Receiving
        <4> QED BY <3>2, <4>1, EncodedBalance DEF HopsInv
      <3>4. p.hopLimit \in Int /\ p.orig.metric \in Int
        BY DEF MsgData, Node, MetricValue
      <3>5. Balanced(UpdatedRreq(n))
        BY <3>2, <3>3, <3>4, Constants DEF Balanced
      <3> QED BY <3>1, <3>5
    <2> QED BY <1>1, <2>1, <2>2, <2>3, <2>4 DEF Appeared
  <1>2. ASSUME NEW f, Sent(f)
        PROVE  BalancedMessage(f.msg)
    <2>1. cur[f.from] \in Pending(f.from) /\ f.from \in Routers
      BY <1>2 DEF Pending, Sent
    <2> QED BY <1>2, <2>1, EncodedBalance DEF Sent, HopsInv
  <1>3. ASSUME NEW n \in Routers, NEW it \in Pending(n)'
        PROVE  /\ it.t = "rreq" => Balanced(it.pkt)
               /\ it.t = "rcv" => BalancedMessage(it.msg)
    <2>1. it \in Pending(n) \union {Idle} \/ Appeared(n, it)
      BY DEF Effects, ItemEffect
    <2>2. Idle.t # "rreq" /\ Idle.t # "rcv"
      BY DEF Idle
    <2> QED BY <1>1, <2>1, <2>2 DEF HopsInv
  <1>4. \A f \in air' : BalancedMessage(f.msg)
    BY <1>2 DEF Effects, AirEffect, HopsInv
  <1> QED BY <1>3, <1>4 DEF HopsInv

(* A RREQ cannot travel forever: in a mesh of any size, through any number  *)
(* of routers and whatever their _msg_data held, the hop limit and the hop  *)
(* count of a RREQ on the air add up to the limit it started with.          *)
THEOREM RreqHopsAreAccounted == Spec => []RreqHopsAccounted
  <1>1. Init => HopsInv
    <2> SUFFICES ASSUME Init PROVE HopsInv
      OBVIOUS
    <2>1. \A n \in Routers : Pending(n) = {Idle}
      <3> SUFFICES ASSUME NEW n \in Routers PROVE Pending(n) = {Idle}
        OBVIOUS
      <3>1. queue[n] = <<>> /\ cur[n] = Idle /\ 1..Len(<<>>) = {}
        BY DEF Init
      <3> QED BY <3>1 DEF Pending, Elements
    <2> QED BY <2>1 DEF Init, HopsInv, Idle
  <1>2. TypeInv /\ HopsInv /\ [Next]_vars => TypeInv' /\ HopsInv'
    BY NextStep, HopsStep
  <1>3. HopsInv => RreqHopsAccounted
    BY DEF HopsInv, RreqHopsAccounted, BalancedMessage, MetricMax
  <1> QED BY <1>1, <1>2, <1>3, InitTypeInv, PTL DEF Spec
-----------------------------------------------------------------------------
(* A route set and the forwarding table beside it.  A route to :: is none   *)
(* (Routes); the others sit in used slots, one per destination.  While the  *)
(* set has room every NIB entry stems from a route it stores, and the NIB   *)
(* has at most one entry per route and prefix length, so that a replaced    *)
(* route takes exactly its own entry out.                                   *)
Live(t, i) == t[i].route.addr # Unspecified

OneSlotPerRoute(t) ==
    /\ \A i \in Lrs!Slots : Live(t, i) => t[i].used /\ t[i].route.type = METRIC_HOP_COUNT
    /\ \A i, j \in Lrs!Slots : Live(t, i) /\ t[i].route.addr = t[j].route.addr => i = j

EntriesHaveRoutes(t, table) ==
    Lrs!Free(t) # {} => \A e \in table : \E i \in Lrs!Slots : Live(t, i) /\ t[i].route.addr = e.dst

OneEntryPerRoute(t, table) ==
    \A i \in Lrs!Slots : Live(t, i) =>
        \A e, f \in table : e.dst = t[i].route.addr /\ f.dst = e.dst /\ f.pfx = e.pfx => e = f

RoutesHaveEntries(t, table) ==
    Cardinality(table) < NibSize =>
        \A i \in Lrs!Slots : Live(t, i) =>
            \E e \in table : e.dst = t[i].route.addr /\ e.hop = t[i].route.nextHop

TablesAgree(t, table) ==
    /\ OneSlotPerRoute(t) /\ EntriesHaveRoutes(t, table)
    /\ OneEntryPerRoute(t, table) /\ RoutesHaveEntries(t, table)

TablesInv == \A n \in Routers : TablesAgree(lrs[n], nib[n])

(* What adding an entry leaves behind: the entry is missing only from a     *)
(* full table.                                                              *)
LEMMA AddedEntry ==
    ASSUME NEW table, IsFiniteSet(table), NEW e
    PROVE  /\ \A f \in NibAdd(table, e) : f = e \/ f \in table
           /\ Cardinality(NibAdd(table, e)) < NibSize =>
                NibAdd(table, e) = table \union {e} /\ Cardinality(table) < NibSize
  <1>1. /\ IsFiniteSet(table \union {e}) /\ Cardinality(table) \in Nat
        /\ Cardinality(table \union {e}) = Cardinality(table)
             \/ Cardinality(table \union {e}) = Cardinality(table) + 1
    BY FS_AddElement, FS_CardinalityType
  <1> QED BY <1>1, Constants DEF NibAdd

(* What replacing an entry leaves behind, when there was at most one.       *)
LEMMA ReplacedEntry ==
    ASSUME NEW table, IsFiniteSet(table), Cardinality(table) <= NibSize, NEW e,
           \A f, g \in table : f.dst = e.dst /\ f.pfx = e.pfx /\ g.dst = f.dst /\ g.pfx = f.pfx => f = g,
           NEW rest \in NibDel(table, e.dst, e.pfx)
    PROVE  LET x == NibAdd(rest, e)
           IN  /\ \A f \in x : f = e \/ (f \in table /\ ~(f.dst = e.dst /\ f.pfx = e.pfx))
               /\ Cardinality(x) < NibSize =>
                    /\ Cardinality(table) < NibSize /\ e \in x
                    /\ \A f \in table : f.dst # e.dst => f \in x
  <1> DEFINE hits == {f \in table : f.dst = e.dst /\ f.pfx = e.pfx}
  <1>1. rest \in IF hits = {} THEN {table} ELSE {table \ {f} : f \in hits}
    BY DEF NibDel
  <1>2. CASE hits = {}
    <2>1. rest = table
      BY <1>1, <1>2
    <2> QED BY <1>2, <2>1, AddedEntry
  <1>3. CASE hits # {}
    <2>1. PICK h \in hits : rest = table \ {h}
      BY <1>1, <1>3
    <2>2. \A f \in rest : ~(f.dst = e.dst /\ f.pfx = e.pfx)
      BY <2>1
    <2>3. IsFiniteSet(rest) /\ Cardinality(rest) = Cardinality(table) - 1
      BY <2>1, FS_RemoveElement
    <2>4. e \notin rest
      BY <2>2
    <2>5. Cardinality(rest \union {e}) = Cardinality(rest) + 1
      BY <2>3, <2>4, FS_AddElement
    <2>6. Cardinality(table) \in Nat
      BY FS_CardinalityType
    <2>7. NibAdd(rest, e) = rest \union {e} /\ Cardinality(rest \union {e}) = Cardinality(table)
      BY <2>3, <2>5, <2>6, Constants DEF NibAdd
    <2> QED BY <2>1, <2>2, <2>7
  <1> QED BY <1>2, <1>3

(* Storing a route keeps the two tables in agreement.                       *)
LEMMA TablesKept ==
    ASSUME TypeInv, NEW n \in Routers, NEW d, NEW node, node.addr # Unspecified,
           TablesAgree(lrs[n], nib[n]), NEW u, Updated(n, d, node, u)
    PROVE  TablesAgree(u.lrs, u.nib)
  <1> DEFINE t == lrs[n]
             table == nib[n]
             addr == node.addr
             e == [dst |-> addr, pfx |-> node.pfx, hop |-> d.sender]
  <1>1. t \in Lrs!Table /\ IsFiniteSet(table) /\ Cardinality(table) <= NibSize
    BY DEF TypeInv, TableType
  <1>2. TablesAgree(t, table) /\ addr # Unspecified
    OBVIOUS
  <1>3. PICK r \in Lrs!Route :
          /\ r.addr = addr /\ r.type = METRIC_HOP_COUNT /\ r.nextHop = d.sender
          /\ \/ /\ \A i \in Lrs!Slots : ~Leads(t, i, addr)
                /\ u.nib = NibAdd(table, e)
                /\ \/ Lrs!Free(t) = {} /\ u.lrs = t
                   \/ \E i \in Lrs!Free(t) : u.lrs = [t EXCEPT ![i] = [route |-> r, used |-> TRUE]]
             \/ \E i \in Lrs!Slots :
                  /\ Leads(t, i, addr)
                  /\ u.lrs = [t EXCEPT ![i] = [route |-> r, used |-> t[i].used]]
                  /\ \E rest \in NibDel(table, addr, node.pfx) : u.nib = NibAdd(rest, e)
    BY DEF Updated, Put
  <1>4. e.dst = addr /\ e.pfx = node.pfx /\ e.hop = r.nextHop
    BY <1>3
  <1> HIDE DEF t, table, addr, e
  <1>5. ASSUME \A i \in Lrs!Slots : ~Leads(t, i, addr), u.nib = NibAdd(table, e)
        PROVE  /\ \A i \in Lrs!Slots : t[i].route.addr # addr
               /\ \A f \in u.nib : f = e \/ f \in table
               /\ Cardinality(u.nib) < NibSize => u.nib = table \union {e} /\ Cardinality(table) < NibSize
    <2>1. \A i \in Lrs!Slots : t[i].route.addr # addr
      BY <1>2, <1>5 DEF Leads, TablesAgree, OneSlotPerRoute, Live
    <2> QED BY <1>1, <1>5, <2>1, AddedEntry
  <1>6. CASE /\ \A i \in Lrs!Slots : ~Leads(t, i, addr) /\ u.nib = NibAdd(table, e)
             /\ Lrs!Free(t) = {} /\ u.lrs = t
    <2>1. OneSlotPerRoute(t) /\ EntriesHaveRoutes(t, u.nib)
      BY <1>2, <1>6 DEF TablesAgree, EntriesHaveRoutes
    <2>2. OneEntryPerRoute(t, u.nib)
      BY <1>2, <1>4, <1>5, <1>6 DEF TablesAgree, OneEntryPerRoute
    <2>3. RoutesHaveEntries(t, u.nib)
      BY <1>2, <1>5, <1>6 DEF TablesAgree, RoutesHaveEntries
    <2> QED BY <1>6, <2>1, <2>2, <2>3 DEF TablesAgree
  <1>7. CASE /\ \A i \in Lrs!Slots : ~Leads(t, i, addr) /\ u.nib = NibAdd(table, e)
             /\ \E i \in Lrs!Free(t) : u.lrs = [t EXCEPT ![i] = [route |-> r, used |-> TRUE]]
    <2>1. PICK i \in Lrs!Free(t) : u.lrs = [t EXCEPT ![i] = [route |-> r, used |-> TRUE]]
      BY <1>7
    <2>2. i \in Lrs!Slots /\ ~t[i].used /\ ~Live(t, i)
      BY <1>2, <2>1 DEF Lrs!Free, TablesAgree, OneSlotPerRoute
    <2>3. /\ \A j \in Lrs!Slots \ {i} : u.lrs[j] = t[j]
          /\ u.lrs[i].route = r /\ u.lrs[i].used
      BY <1>1, <2>1, <2>2 DEF Lrs!Table
    <2>4. OneSlotPerRoute(u.lrs)
      BY <1>2, <1>3, <1>5, <1>7, <2>2, <2>3 DEF TablesAgree, OneSlotPerRoute, Live
    <2>5. \A f \in table : \E j \in Lrs!Slots : Live(t, j) /\ t[j].route.addr = f.dst
      BY <1>2, <2>1 DEF TablesAgree, EntriesHaveRoutes
    <2>6. \A f \in table : \E j \in Lrs!Slots \ {i} : Live(u.lrs, j) /\ u.lrs[j].route.addr = f.dst
      BY <2>2, <2>3, <2>5 DEF Live
    <2>7. Live(u.lrs, i) /\ u.lrs[i].route.addr = addr
      BY <1>2, <1>3, <2>3 DEF Live
    <2>8. EntriesHaveRoutes(u.lrs, u.nib)
      BY <1>4, <1>5, <1>7, <2>2, <2>6, <2>7 DEF EntriesHaveRoutes
    <2>9. \A f \in table : f.dst # addr
      BY <1>5, <1>7, <2>5
    <2>10. OneEntryPerRoute(u.lrs, u.nib)
      <3> SUFFICES ASSUME NEW j \in Lrs!Slots, Live(u.lrs, j), NEW f \in u.nib, NEW g \in u.nib,
                          f.dst = u.lrs[j].route.addr, g.dst = f.dst, g.pfx = f.pfx
                   PROVE  f = g
        BY DEF OneEntryPerRoute
      <3>1. CASE j = i
        BY <1>5, <1>7, <2>7, <2>9, <3>1
      <3>2. CASE j # i
        <4>1. Live(t, j) /\ f.dst = t[j].route.addr /\ f.dst # addr
          BY <1>5, <1>7, <2>3, <3>2 DEF Live
        <4>2. f \in table /\ g \in table
          BY <1>4, <1>5, <1>7, <4>1
        <4> QED BY <1>2, <4>1, <4>2 DEF TablesAgree, OneEntryPerRoute
      <3> QED BY <3>1, <3>2
    <2>11. RoutesHaveEntries(u.lrs, u.nib)
      <3> SUFFICES ASSUME Cardinality(u.nib) < NibSize, NEW j \in Lrs!Slots, Live(u.lrs, j)
                   PROVE  \E f \in u.nib : f.dst = u.lrs[j].route.addr /\ f.hop = u.lrs[j].route.nextHop
        BY DEF RoutesHaveEntries
      <3>1. u.nib = table \union {e} /\ Cardinality(table) < NibSize
        BY <1>5, <1>7
      <3>2. CASE j = i
        BY <1>3, <1>4, <2>3, <3>1, <3>2
      <3>3. CASE j # i
        BY <1>2, <2>3, <3>1, <3>3 DEF TablesAgree, RoutesHaveEntries, Live
      <3> QED BY <3>2, <3>3
    <2> QED BY <2>4, <2>8, <2>10, <2>11 DEF TablesAgree
  <1>8. CASE \E i \in Lrs!Slots :
                  /\ Leads(t, i, addr)
                  /\ u.lrs = [t EXCEPT ![i] = [route |-> r, used |-> t[i].used]]
                  /\ \E rest \in NibDel(table, addr, node.pfx) : u.nib = NibAdd(rest, e)
    <2>1. PICK i \in Lrs!Slots :
                  /\ Leads(t, i, addr)
                  /\ u.lrs = [t EXCEPT ![i] = [route |-> r, used |-> t[i].used]]
                  /\ \E rest \in NibDel(table, addr, node.pfx) : u.nib = NibAdd(rest, e)
      BY <1>8
    <2>2. t[i].route.addr = addr /\ Live(t, i)
      BY <1>2, <2>1 DEF Leads, Live
    <2>3. /\ \A j \in Lrs!Slots \ {i} : u.lrs[j] = t[j]
          /\ u.lrs[i].route = r /\ u.lrs[i].used = t[i].used
          /\ \A j \in Lrs!Slots : u.lrs[j].route.addr = t[j].route.addr /\ u.lrs[j].used = t[j].used
      BY <1>1, <1>3, <2>1, <2>2 DEF Lrs!Table
    <2>4. \A f, g \in table : f.dst = e.dst /\ f.pfx = e.pfx /\ g.dst = f.dst /\ g.pfx = f.pfx => f = g
      BY <1>2, <1>4, <2>2 DEF TablesAgree, OneEntryPerRoute
    <2>5. PICK rest \in NibDel(table, e.dst, e.pfx) : u.nib = NibAdd(rest, e)
      BY <1>4, <2>1
    <2>6. /\ \A f \in u.nib : f = e \/ (f \in table /\ ~(f.dst = e.dst /\ f.pfx = e.pfx))
          /\ Cardinality(u.nib) < NibSize =>
                    /\ Cardinality(table) < NibSize /\ e \in u.nib
                    /\ \A f \in table : f.dst # e.dst => f \in u.nib
      BY <1>1, <2>4, <2>5, ReplacedEntry
    <2>7. OneSlotPerRoute(u.lrs)
      BY <1>2, <1>3, <2>2, <2>3 DEF TablesAgree, OneSlotPerRoute, Live
    <2>8. EntriesHaveRoutes(u.lrs, u.nib)
      <3>1. Lrs!Free(u.lrs) = Lrs!Free(t)
        BY <2>3 DEF Lrs!Free
      <3> QED BY <1>2, <1>4, <2>2, <2>3, <2>6, <3>1 DEF TablesAgree, EntriesHaveRoutes, Live
    <2>9. OneEntryPerRoute(u.lrs, u.nib)
      BY <1>2, <1>4, <2>3, <2>6 DEF TablesAgree, OneEntryPerRoute, Live
    <2>10. RoutesHaveEntries(u.lrs, u.nib)
      <3> SUFFICES ASSUME Cardinality(u.nib) < NibSize, NEW j \in Lrs!Slots, Live(u.lrs, j)
                   PROVE  \E f \in u.nib : f.dst = u.lrs[j].route.addr /\ f.hop = u.lrs[j].route.nextHop
        BY DEF RoutesHaveEntries
      <3>1. CASE j = i
        BY <1>3, <1>4, <2>3, <2>6, <3>1
      <3>2. CASE j # i
        <4>1. Live(t, j) /\ t[j].route.addr # addr
          BY <1>2, <2>2, <2>3, <3>2 DEF Live, TablesAgree, OneSlotPerRoute
        <4>2. PICK f \in table : f.dst = t[j].route.addr /\ f.hop = t[j].route.nextHop
          BY <1>2, <2>6, <4>1 DEF TablesAgree, RoutesHaveEntries
        <4> QED BY <1>4, <2>3, <2>6, <3>2, <4>1, <4>2
      <3> QED BY <3>1, <3>2
    <2> QED BY <2>7, <2>8, <2>9, <2>10 DEF TablesAgree
  <1> QED BY <1>3, <1>6, <1>7, <1>8

(* So does every step.                                                      *)
LEMMA TablesStep ==
    ASSUME TypeInv, TablesInv, Effects
    PROVE  TablesInv'
  <1> SUFFICES ASSUME NEW n \in Routers PROVE TablesAgree(lrs'[n], nib'[n])
    BY DEF TablesInv, TablesAgree, OneSlotPerRoute, EntriesHaveRoutes, OneEntryPerRoute,
           RoutesHaveEntries, Live
  <1> DEFINE u == [lrs |-> lrs'[n], nib |-> nib'[n]]
  <1>1. TablesAgree(lrs[n], nib[n]) /\ u.lrs = lrs'[n] /\ u.nib = nib'[n]
    BY DEF TablesInv
  <1>2. CASE lrs'[n] = lrs[n] /\ nib'[n] = nib[n]
    BY <1>1, <1>2
  <1>3. CASE StoredRreq(n)
    <2>1. UpdatedRreq(n).orig.addr # Unspecified
      BY <1>3, RreqAccepted DEF StoredRreq
    <2>2. Updated(n, UpdatedRreq(n), UpdatedRreq(n).orig, u)
      BY <1>3 DEF StoredRreq, Stored
    <2> HIDE DEF u
    <2> QED BY <1>1, <2>1, <2>2, TablesKept
  <1>4. CASE StoredRrep(n)
    <2>1. UpdatedRrep(n).targ.addr # Unspecified
      BY <1>4, RrepAccepted DEF StoredRrep
    <2>2. Updated(n, UpdatedRrep(n), UpdatedRrep(n).targ, u)
      BY <1>4 DEF StoredRrep, Stored
    <2> HIDE DEF u
    <2> QED BY <1>1, <2>1, <2>2, TablesKept
  <1> QED BY <1>2, <1>3, <1>4 DEF Effects, TableEffect

(* Empty tables agree.                                                      *)
LEMMA InitTables == Init => TablesInv
  <1> SUFFICES ASSUME Init, NEW n \in Routers PROVE TablesAgree(lrs[n], nib[n])
    BY DEF TablesInv
  <1>1. nib[n] = {} /\ \A i \in Lrs!Slots : ~Live(lrs[n], i)
    BY DEF Init, Lrs!EmptyTable, Lrs!NoRoute, Live
  <1> QED BY <1>1 DEF TablesAgree, OneSlotPerRoute, EntriesHaveRoutes, OneEntryPerRoute, RoutesHaveEntries

(* The forwarding table serves the route set: however routes were added and *)
(* replaced, and with any prefix lengths, while the NIB has room every      *)
(* Local Route has a NIB entry with the same next hop.                      *)
THEOREM NibServes == Spec => []NibServesLrs
  <1>1. TypeInv /\ TablesInv /\ [Next]_vars => TypeInv' /\ TablesInv'
    BY NextStep, TablesStep
  <1>2. TablesInv => NibServesLrs
    BY DEF TablesInv, TablesAgree, RoutesHaveEntries, Live, NibServesLrs, Routes
  <1> QED BY <1>1, <1>2, InitTypeInv, InitTables, PTL DEF Spec
-----------------------------------------------------------------------------
(* The clients that ask all have full addresses, or all have prefixes.      *)
AllLong == \A c \in Askers : c.pfx = 128
AllShort == \A c \in Askers : c.pfx = 64

(* Two addresses that routers cannot tell apart for certain.                *)
Near(a, b) == InPrefix(a, b, Agreed(128))

(* The address all routers take OrigNode to have, when lengths are alike.   *)
Told(node) == IF AllShort /\ node.pfx = 64 THEN <<node.addr[1], ZeroHost>> ELSE node.addr

(* Router m can carry packets to a on: what Carries says stays true, for    *)
(* routes are replaced and never lost, and a full set stays full.           *)
RouteTo(t, a) == \E i \in Lrs!Slots : Live(t, i) /\ t[i].route.addr = a
Carries(m, a) == HasRoom(m) => Knows(m, a)

(* What the lengths of the clients leave possible in the data of a message, *)
(* in a packet to send, and on the air.  TargNode's address is always full. *)
GoodData(d) ==
    /\ d.targ.pfx # 64
    /\ AllLong => d.orig.pfx # 64
    /\ AllShort => d.orig.addr[2] = ZeroHost
GoodPkt(d) ==
    /\ d.targ.pfx # 64
    /\ AllLong => d.orig.pfx # 64
    /\ AllShort => d.orig.pfx = 64 \/ d.orig.addr[2] = ZeroHost
GoodMessage(msg) ==
    /\ msg.addrs[2].pfx # 64
    /\ AllLong => msg.addrs[1].pfx # 64
    /\ AllShort => msg.addrs[1].pfx = 64 \/ msg.addrs[1].addr[2] = ZeroHost

(* The sender m of a message has a way to the node it tells about, and the  *)
(* receiver n of a RREP a way back to OrigNode.                             *)
Carried(m, n, msg) ==
    /\ GoodMessage(msg)
    /\ msg.kind = "RREQ" => Carries(m, Told(msg.addrs[1]))
    /\ msg.kind = "RREP" => Carries(m, msg.addrs[2].addr) /\ Carries(n, Told(msg.addrs[1]))

RreqCarried(n, it) == GoodPkt(it.pkt) /\ Carries(n, Told(it.pkt.orig))
RrepCarried(n, it) ==
    /\ GoodPkt(it.pkt) /\ Carries(n, it.pkt.targ.addr)
    /\ \A m \in Routers : it.nextHop = LinkLocal[m] => Carries(m, Told(it.pkt.orig))
    /\ HasRoom(n) => it.nextHop # NoHop \/ (~OneLength /\ Knows(n, it.pkt.orig.addr))
RcvCarried(n, it) == \E m \in Routers : it.from = LinkLocal[m] /\ Carried(m, n, it.msg)

ItemCarried(n, it) ==
    /\ it.t = "rreq" => RreqCarried(n, it)
    /\ it.t = "rrep" => RrepCarried(n, it)
    /\ it.t = "rcv" => RcvCarried(n, it)

RoutesCarried ==
    \A n, m \in Routers : \A i \in Lrs!Slots :
        Live(lrs[n], i) /\ lrs[n][i].route.nextHop = LinkLocal[m] => Carries(m, lrs[n][i].route.addr)

CarryInv ==
    /\ RoutesCarried
    /\ \A n \in Routers : GoodData(msgData[n])
    /\ \A n \in Routers : \A it \in Pending(n) : ItemCarried(n, it)
    /\ \A f \in air : Carried(f.from, f.to, f.msg)

(* The length of a client that asks.                                        *)
LEMMA AskerLength ==
    ASSUME NEW n \in Routers, NEW w \in Wanted, w.router = n, NEW c \in ClientsOf(n, w.src)
    PROVE  c \in Askers /\ c \in Clients[n] /\ c.pfx \in {64, 128}
  <1>1. c \in Clients[n] /\ Clients[n] \subseteq [addr : Addr, pfx : PfxLen \ {0}]
    BY NetworkAssumption DEF ClientsOf
  <1>2. c \in Askers
    BY DEF Askers
  <1> QED BY <1>1, <1>2 DEF PfxLen

(* Lengths are alike when all are long or all are short.                    *)
LEMMA Lengths == OneLength <=> AllLong \/ AllShort
  <1>1. \A c \in Askers : c.pfx \in {64, 128}
    BY AskerLength, NetworkAssumption DEF Askers
  <1> QED BY <1>1 DEF OneLength, AllLong, AllShort

(* What is known of an address is known of those near to it.                *)
LEMMA NearMoves ==
    ASSUME NEW m, NEW a, NEW b, Near(a, b)
    PROVE  /\ Knows(m, a) => Knows(m, b)
           /\ Carries(m, a) => Carries(m, b)
           /\ Carries(m, a)' => Carries(m, b)'
  <1>1. ASSUME NEW x, NEW len, InPrefix(a, x, Agreed(len))
        PROVE  InPrefix(b, x, Agreed(len))
    <2>1. CASE OneLength
      BY <1>1, <2>1 DEF Near, InPrefix, Agreed
    <2>2. CASE ~OneLength
      BY <1>1, <2>2 DEF Near, InPrefix, Agreed
    <2> QED BY <2>1, <2>2
  <1>2. Knows(m, a) => Knows(m, b)
    BY <1>1 DEF Knows
  <1>3. Knows(m, a)' => Knows(m, b)'
    BY <1>1 DEF Knows
  <1> QED BY <1>2, <1>3 DEF Carries, HasRoom

(* What a receiver reads is near to what all were told.                     *)
LEMMA ReadAsTold ==
    ASSUME NEW p \in MsgData, NEW old, GoodData(old), GoodPkt(p)
    PROVE  /\ Near(Told(p.orig), Received(old.orig.addr, p.orig))
           /\ AllShort => Received(old.orig.addr, p.orig)[2] = ZeroHost
           /\ Received(old.targ.addr, p.targ) = p.targ.addr
  <1>1. p.orig.pfx \in PfxLen /\ p.targ.pfx \in PfxLen
    BY DEF MsgData, Node
  <1>2. SentPfx(p.orig.pfx) = 128 <=> p.orig.pfx # 64
    BY <1>1 DEF SentPfx, PfxLen
  <1>3. SentPfx(p.targ.pfx) = 128
    BY <1>1 DEF SentPfx, PfxLen, GoodPkt
  <1>4. AllShort => Received(old.orig.addr, p.orig)[2] = ZeroHost
    BY <1>2 DEF Received, GoodPkt, GoodData
  <1>5. Near(Told(p.orig), Received(old.orig.addr, p.orig))
    <2>1. CASE p.orig.pfx # 64
      BY <1>2, <2>1 DEF Near, InPrefix, Told, Received
    <2>2. CASE p.orig.pfx = 64 /\ AllShort
      BY <1>2, <2>2 DEF Near, InPrefix, Told, Received, GoodData
    <2>3. CASE p.orig.pfx = 64 /\ ~AllShort
      <3>1. Agreed(128) = 64
        BY <2>3, Lengths DEF GoodPkt, Agreed
      <3> QED BY <1>2, <2>3, <3>1 DEF Near, InPrefix, Told, Received
    <2> QED BY <2>1, <2>2, <2>3
  <1> QED BY <1>3, <1>4, <1>5 DEF Received

(* The data of a message is what is told of it.                             *)
LEMMA DataAsTold ==
    ASSUME NEW d, GoodData(d)
    PROVE  GoodPkt(d) /\ Near(d.orig.addr, Told(d.orig))
  BY DEF GoodData, GoodPkt, Near, InPrefix, Told

(* What storing the route to a node, told of by d, does to the routes of a  *)
(* route set t.                                                             *)
Grown(t, new, d, node) ==
    /\ Lrs!Free(new) # {} => Lrs!Free(t) # {} /\ RouteTo(new, node.addr)
    /\ \A a : RouteTo(t, a) => RouteTo(new, a)
    /\ \A i \in Lrs!Slots :
         \/ new[i].route = t[i].route
         \/ new[i].route.addr = node.addr /\ new[i].route.nextHop = d.sender

(* Storing a route loses none.                                              *)
LEMMA RoutesStay ==
    ASSUME TypeInv, NEW n \in Routers, NEW d, NEW node, node.addr # Unspecified,
           TablesAgree(lrs[n], nib[n]), NEW u, Updated(n, d, node, u)
    PROVE  Grown(lrs[n], u.lrs, d, node)
  <1> DEFINE t == lrs[n]
             addr == node.addr
  <1>1. t \in Lrs!Table
    BY DEF TypeInv, TableType
  <1>2. OneSlotPerRoute(t) /\ addr # Unspecified
    BY DEF TablesAgree
  <1>3. PICK r \in Lrs!Route :
          /\ r.addr = addr /\ r.nextHop = d.sender
          /\ \/ Lrs!Free(t) = {} /\ u.lrs = t
             \/ \E i \in Lrs!Free(t) : u.lrs = [t EXCEPT ![i] = [route |-> r, used |-> TRUE]]
             \/ \E i \in Lrs!Slots :
                  /\ Leads(t, i, addr)
                  /\ u.lrs = [t EXCEPT ![i] = [route |-> r, used |-> t[i].used]]
    BY DEF Updated, Put
  <1> HIDE DEF t, addr
  <1>5. ASSUME \E i \in Lrs!Slots : \E used \in BOOLEAN :
                  /\ ~Live(t, i) \/ t[i].route.addr = addr
                  /\ ~t[i].used \/ (used <=> t[i].used)
                  /\ u.lrs = [t EXCEPT ![i] = [route |-> r, used |-> used]]
        PROVE  Grown(t, u.lrs, d, node)
    <2>1. PICK i \in Lrs!Slots, used \in BOOLEAN :
               /\ ~Live(t, i) \/ t[i].route.addr = addr
               /\ ~t[i].used \/ (used <=> t[i].used)
               /\ u.lrs = [t EXCEPT ![i] = [route |-> r, used |-> used]]
      BY <1>5
    <2>2. /\ u.lrs[i].route = r /\ (u.lrs[i].used <=> used)
          /\ \A j \in Lrs!Slots \ {i} : u.lrs[j] = t[j]
      BY <1>1, <2>1 DEF Lrs!Table
    <2>3. Live(u.lrs, i) /\ u.lrs[i].route.addr = addr
      BY <1>2, <1>3, <2>2 DEF Live
    <2>4. Lrs!Free(u.lrs) \subseteq Lrs!Free(t)
      BY <2>1, <2>2 DEF Lrs!Free
    <2>5. \A a : RouteTo(t, a) => RouteTo(u.lrs, a)
      <3> SUFFICES ASSUME NEW a, NEW j \in Lrs!Slots, Live(t, j), t[j].route.addr = a
                   PROVE  RouteTo(u.lrs, a)
        BY DEF RouteTo
      <3>1. CASE j = i
        BY <2>1, <2>3, <3>1 DEF RouteTo
      <3>2. CASE j # i
        BY <2>2, <3>2 DEF RouteTo, Live
      <3> QED BY <3>1, <3>2
    <2>6. RouteTo(u.lrs, addr)
      BY <2>3 DEF RouteTo
    <2> QED BY <1>3, <2>2, <2>4, <2>5, <2>6 DEF Grown, addr
  <1>6. \/ Lrs!Free(t) = {} /\ u.lrs = t
        \/ \E i \in Lrs!Slots : \E used \in BOOLEAN :
               /\ ~Live(t, i) \/ t[i].route.addr = addr
               /\ ~t[i].used \/ (used <=> t[i].used)
               /\ u.lrs = [t EXCEPT ![i] = [route |-> r, used |-> used]]
    <2>1. \A i \in Lrs!Free(t) : i \in Lrs!Slots /\ ~t[i].used /\ ~Live(t, i)
      BY <1>2 DEF Lrs!Free, OneSlotPerRoute
    <2>2. \A i \in Lrs!Slots : t[i].used \in BOOLEAN /\ (Leads(t, i, addr) => t[i].route.addr = addr)
      BY <1>1 DEF Lrs!Table, Leads
    <2> QED BY <1>3, <2>1, <2>2
  <1>7. Grown(t, t, d, node) \/ Lrs!Free(t) # {}
    BY DEF Grown
  <1> QED BY <1>5, <1>6, <1>7 DEF t

(* The same for the steps that store the route to the node of a message.    *)
LEMMA StoredRoutes ==
    ASSUME TypeInv, TablesInv, NEW n \in Routers
    PROVE  /\ StoredRreq(n) => Grown(lrs[n], lrs'[n], UpdatedRreq(n), UpdatedRreq(n).orig)
           /\ StoredRrep(n) => Grown(lrs[n], lrs'[n], UpdatedRrep(n), UpdatedRrep(n).targ)
  <1> DEFINE u == [lrs |-> lrs'[n], nib |-> nib'[n]]
  <1>1. TablesAgree(lrs[n], nib[n]) /\ u.lrs = lrs'[n]
    BY DEF TablesInv
  <1>2. ASSUME StoredRreq(n)
        PROVE  Grown(lrs[n], u.lrs, UpdatedRreq(n), UpdatedRreq(n).orig)
    <2>1. /\ UpdatedRreq(n).orig.addr # Unspecified
          /\ Updated(n, UpdatedRreq(n), UpdatedRreq(n).orig, u)
      BY <1>2, RreqAccepted DEF StoredRreq, Stored
    <2> HIDE DEF u
    <2> QED BY <1>1, <2>1, RoutesStay
  <1>3. ASSUME StoredRrep(n)
        PROVE  Grown(lrs[n], u.lrs, UpdatedRrep(n), UpdatedRrep(n).targ)
    <2>1. /\ UpdatedRrep(n).targ.addr # Unspecified
          /\ Updated(n, UpdatedRrep(n), UpdatedRrep(n).targ, u)
      BY <1>3, RrepAccepted DEF StoredRrep, Stored
    <2> HIDE DEF u
    <2> QED BY <1>1, <2>1, RoutesStay
  <1> HIDE DEF u
  <1> QED BY <1>1, <1>2, <1>3

(* What a router knows it still knows after a step, and a full set stays    *)
(* full: a router that can carry on still can.                              *)
LEMMA CarriesOn ==
    ASSUME TypeInv, TablesInv, Effects, NEW m \in Routers
    PROVE  /\ HasRoom(m)' => HasRoom(m)
           /\ \A a : Knows(m, a) => Knows(m, a)'
           /\ \A a : Carries(m, a) => Carries(m, a)'
  <1>1. ASSUME lrs'[m] = lrs[m]
        PROVE  /\ HasRoom(m)' => HasRoom(m)
               /\ \A a : RouteTo(lrs[m], a) => RouteTo(lrs'[m], a)
    BY <1>1 DEF HasRoom, RouteTo, Live
  <1>2. ASSUME StoredRreq(m) \/ StoredRrep(m)
        PROVE  /\ HasRoom(m)' => HasRoom(m)
               /\ \A a : RouteTo(lrs[m], a) => RouteTo(lrs'[m], a)
    BY <1>2, StoredRoutes DEF Grown, HasRoom
  <1>3. /\ HasRoom(m)' => HasRoom(m)
        /\ \A a : RouteTo(lrs[m], a) => RouteTo(lrs'[m], a)
    BY <1>1, <1>2 DEF Effects, TableEffect
  <1>4. ASSUME NEW a, Knows(m, a)
        PROVE  Knows(m, a)'
    <2>1. CASE \E c \in Clients[m] : InPrefix(a, c.addr, Agreed(c.pfx))
      BY <2>1 DEF Knows
    <2>2. CASE \E r \in Routes(m) : InPrefix(a, r.addr, Agreed(128))
      <3>1. PICK r \in Routes(m) : InPrefix(a, r.addr, Agreed(128))
        BY <2>2
      <3>2. RouteTo(lrs[m], r.addr) /\ r.addr # Unspecified
        BY DEF Routes, RouteTo, Live
      <3>3. PICK i \in Lrs!Slots : lrs'[m][i].route.addr = r.addr
        BY <1>3, <3>2 DEF RouteTo
      <3>4. lrs'[m][i].route \in Routes(m)'
        BY <3>2, <3>3 DEF Routes
      <3> QED BY <3>1, <3>3, <3>4 DEF Knows
    <2> QED BY <1>4, <2>1, <2>2 DEF Knows
  <1> QED BY <1>3, <1>4 DEF Carries

(* A router that has stored the route a message told of carries on.         *)
LEMMA StoredCarries ==
    ASSUME TypeInv, TablesInv, NEW n \in Routers
    PROVE  /\ \A a : StoredRreq(n) /\ a = UpdatedRreq(n).orig.addr => Carries(n, a)'
           /\ \A a : StoredRrep(n) /\ a = UpdatedRrep(n).targ.addr => Carries(n, a)'
  <1>1. ASSUME NEW a, RouteTo(lrs'[n], a)
        PROVE  Carries(n, a)'
    <2>1. PICK i \in Lrs!Slots : lrs'[n][i].route.addr = a /\ a # Unspecified
      BY <1>1 DEF RouteTo, Live
    <2>2. lrs'[n][i].route \in Routes(n)'
      BY <2>1 DEF Routes
    <2>3. InPrefix(a, lrs'[n][i].route.addr, Agreed(128))
      BY <2>1 DEF InPrefix
    <2> QED BY <2>2, <2>3 DEF Carries, Knows
  <1>2. \A a : Lrs!Free(lrs'[n]) = {} => Carries(n, a)'
    BY DEF Carries, HasRoom
  <1> QED BY <1>1, <1>2, StoredRoutes DEF Grown

(* The fields of what is written.                                           *)
LEMMA Written ==
    ASSUME NEW p \in MsgData, NEW s
    PROVE  /\ GoodMessage(EncodeRreq(p)) <=> GoodPkt(p)
           /\ EncodeRreq(p).kind = "RREQ" /\ Told(EncodeRreq(p).addrs[1]) = Told(p.orig)
           /\ GoodMessage(EncodeRrep(p, s)) <=> GoodPkt(p)
           /\ EncodeRrep(p, s).kind = "RREP" /\ Told(EncodeRrep(p, s).addrs[1]) = Told(p.orig)
           /\ EncodeRrep(p, s).addrs[2].addr = p.targ.addr
  <1>1. p.orig.pfx \in PfxLen /\ p.targ.pfx \in PfxLen
    BY DEF MsgData, Node
  <1>2. SentPfx(p.orig.pfx) = 64 <=> p.orig.pfx = 64
    BY <1>1 DEF SentPfx, PfxLen
  <1>3. SentPfx(p.targ.pfx) = 64 <=> p.targ.pfx = 64
    BY <1>1 DEF SentPfx, PfxLen
  <1>4. /\ EncodeRreq(p).addrs[1].pfx = SentPfx(p.orig.pfx) /\ EncodeRreq(p).addrs[2].pfx = SentPfx(p.targ.pfx)
        /\ EncodeRreq(p).kind = "RREQ" /\ EncodeRreq(p).addrs[1].addr = p.orig.addr
    BY DEF EncodeRreq
  <1>5. /\ EncodeRrep(p, s).addrs[1].pfx = SentPfx(p.orig.pfx)
        /\ EncodeRrep(p, s).addrs[2].pfx = SentPfx(p.targ.pfx)
        /\ EncodeRrep(p, s).kind = "RREP" /\ EncodeRrep(p, s).addrs[1].addr = p.orig.addr
        /\ EncodeRrep(p, s).addrs[2].addr = p.targ.addr
    BY DEF EncodeRrep
  <1> QED BY <1>2, <1>3, <1>4, <1>5 DEF GoodMessage, GoodPkt, Told

(* What a router that accepts a message knows.                              *)
LEMMA RreqArrived ==
    ASSUME TypeInv, CarryInv, NEW n \in Routers, AcceptedRreq(n)
    PROVE  LET d == UpdatedRreq(n)
           IN  GoodData(d) /\ \E m \in Routers : d.sender = LinkLocal[m] /\ Carries(m, d.orig.addr)
  <1> DEFINE d == UpdatedRreq(n)
  <1>1. PICK p \in MsgData :
          /\ cur[n].msg = EncodeRreq(p) /\ d.sender = cur[n].from
          /\ d.orig.addr = Received(msgData[n].orig.addr, p.orig)
          /\ d.orig.pfx = SentPfx(p.orig.pfx) /\ d.targ.pfx = SentPfx(p.targ.pfx)
    BY RreqAccepted
  <1> HIDE DEF d
  <1>2. cur[n] \in Pending(n) /\ cur[n].t = "rcv"
    BY DEF Pending, AcceptedRreq, Receiving
  <1>3. PICK m \in Routers : cur[n].from = LinkLocal[m] /\ Carried(m, n, cur[n].msg)
    BY <1>2 DEF CarryInv, ItemCarried, RcvCarried
  <1>4. GoodPkt(p) /\ Carries(m, Told(p.orig)) /\ GoodData(msgData[n])
    BY <1>1, <1>3, Written DEF Carried, CarryInv
  <1>5. Carries(m, d.orig.addr)
    BY <1>1, <1>4, ReadAsTold, NearMoves
  <1>6. (d.orig.pfx = 64 <=> p.orig.pfx = 64) /\ d.targ.pfx # 64
    BY <1>1, <1>4 DEF SentPfx, GoodPkt
  <1>7. GoodData(d)
    <2>1. AllShort => d.orig.addr[2] = ZeroHost
      BY <1>1, <1>4, ReadAsTold
    <2> QED BY <1>4, <1>6, <2>1 DEF GoodPkt, GoodData
  <1> QED BY <1>1, <1>3, <1>5, <1>7 DEF d

(* The same for a RREP; the way back to OrigNode is there too.              *)
LEMMA RrepArrived ==
    ASSUME TypeInv, CarryInv, NEW n \in Routers, AcceptedRrep(n)
    PROVE  LET d == UpdatedRrep(n)
           IN  /\ GoodData(d) /\ Carries(n, d.orig.addr)
               /\ \E m \in Routers : d.sender = LinkLocal[m] /\ Carries(m, d.targ.addr)
  <1> DEFINE d == UpdatedRrep(n)
  <1>1. PICK p \in MsgData, own \in SeqNum :
          /\ cur[n].msg = EncodeRrep(p, own) /\ d.sender = cur[n].from
          /\ d.orig.addr = Received(msgData[n].orig.addr, p.orig)
          /\ d.targ.addr = Received(msgData[n].targ.addr, p.targ)
          /\ d.orig.pfx = msgData[n].orig.pfx /\ d.targ.pfx = SentPfx(p.targ.pfx)
    BY RrepAccepted
  <1> HIDE DEF d
  <1>2. cur[n] \in Pending(n) /\ cur[n].t = "rcv"
    BY DEF Pending, AcceptedRrep, Receiving
  <1>3. PICK m \in Routers : cur[n].from = LinkLocal[m] /\ Carried(m, n, cur[n].msg)
    BY <1>2 DEF CarryInv, ItemCarried, RcvCarried
  <1>4. /\ GoodPkt(p) /\ GoodData(msgData[n])
        /\ Carries(m, p.targ.addr) /\ Carries(n, Told(p.orig))
    BY <1>1, <1>3, Written DEF Carried, CarryInv
  <1>5. Carries(n, d.orig.addr) /\ d.targ.addr = p.targ.addr
    <2>1. Near(Told(p.orig), d.orig.addr) /\ d.targ.addr = p.targ.addr
      BY <1>1, <1>4, ReadAsTold
    <2> QED BY <1>4, <2>1, NearMoves
  <1>6. d.targ.pfx # 64
    BY <1>1, <1>4 DEF SentPfx, GoodPkt
  <1>7. GoodData(d)
    <2>1. AllShort => d.orig.addr[2] = ZeroHost
      BY <1>1, <1>4, ReadAsTold
    <2> QED BY <1>1, <1>4, <1>6, <2>1 DEF GoodData
  <1> QED BY <1>1, <1>3, <1>4, <1>5, <1>7 DEF d

(* The parts of CarryInv, each after a step.                                *)
LEMMA DataCarriedStep ==
    ASSUME TypeInv, CarryInv, Effects, NEW n \in Routers
    PROVE  GoodData(msgData'[n])
  <1>1. GoodData(msgData[n])
    BY DEF CarryInv
  <1>2. CASE msgData'[n] = msgData[n]
    BY <1>1, <1>2
  <1>3. CASE AcceptedRreq(n) /\ msgData'[n] \in {UpdatedRreq(n), Answer(n)}
    <2>1. GoodData(UpdatedRreq(n))
      BY <1>3, RreqArrived
    <2>2. Answer(n).orig = UpdatedRreq(n).orig /\ Answer(n).targ.pfx = UpdatedRreq(n).targ.pfx
      BY <1>3, AnswerType
    <2> QED BY <1>3, <2>1, <2>2 DEF GoodData
  <1>4. CASE AcceptedRrep(n) /\ msgData'[n] = UpdatedRrep(n)
    BY <1>4, RrepArrived
  <1>5. CASE cur[n].t = "rcv" /\ msgData'[n] = Read(n).data
    <2>1. cur[n] \in Pending(n) /\ cur[n].msg \in Messages
      BY <1>5, Handled DEF Pending
    <2>2. GoodMessage(cur[n].msg)
      BY <1>5, <2>1 DEF CarryInv, ItemCarried, RcvCarried, Carried
    <2>3. CASE Read(n).dropped
      <3>1. msgData'[n] = Begun(msgData[n], cur[n].from, 0)
        BY <1>5, <2>3, ReadData
      <3> QED BY <1>1, <3>1 DEF Begun, GoodData
    <2>4. CASE ~Read(n).dropped /\ cur[n].msg.kind = "RREQ"
      <3>1. PICK p \in MsgData :
              cur[n].msg = EncodeRreq(p) /\ Read(n).data = RreqRead(msgData[n], cur[n].from, p)
        BY <1>5, <2>4, ReadData
      <3>2. GoodPkt(p)
        BY <2>2, <3>1, Written
      <3>3. AllShort => Received(msgData[n].orig.addr, p.orig)[2] = ZeroHost
        BY <1>1, <3>2, ReadAsTold
      <3> QED BY <1>5, <3>1, <3>2, <3>3 DEF RreqRead, GoodData, GoodPkt, SentPfx
    <2>5. CASE ~Read(n).dropped /\ cur[n].msg.kind = "RREP"
      <3>1. PICK p \in MsgData, own \in SeqNum :
              cur[n].msg = EncodeRrep(p, own) /\ Read(n).data = RrepRead(msgData[n], cur[n].from, p, own)
        BY <1>5, <2>5, ReadData
      <3>2. GoodPkt(p)
        BY <2>2, <3>1, Written
      <3>3. AllShort => Received(msgData[n].orig.addr, p.orig)[2] = ZeroHost
        BY <1>1, <3>2, ReadAsTold
      <3> QED BY <1>1, <1>5, <3>1, <3>2, <3>3 DEF RrepRead, GoodData, GoodPkt, SentPfx
    <2> QED BY <2>1, <2>3, <2>4, <2>5, Encodings
  <1> QED BY <1>2, <1>3, <1>4, <1>5 DEF Effects, DataEffect

(* A new route comes from a neighbour that carries on.                      *)
LEMMA RoutesCarriedStep ==
    ASSUME TypeInv, TablesInv, CarryInv, Effects
    PROVE  RoutesCarried'
  <1> SUFFICES ASSUME NEW n \in Routers, NEW m \in Routers, NEW i \in Lrs!Slots, NEW r,
                      r = lrs'[n][i].route, r.addr # Unspecified, r.nextHop = LinkLocal[m]
               PROVE  Carries(m, r.addr)'
    BY DEF RoutesCarried, Live
  <1>1. CASE lrs[n][i].route = r
    <2>1. Carries(m, r.addr)
      BY <1>1 DEF CarryInv, RoutesCarried, Live
    <2> QED BY <2>1, CarriesOn
  <1>2. CASE lrs[n][i].route # r /\ StoredRreq(n)
    <2>1. r.addr = UpdatedRreq(n).orig.addr /\ r.nextHop = UpdatedRreq(n).sender
      BY <1>2, StoredRoutes DEF Grown
    <2>2. PICK k \in Routers : UpdatedRreq(n).sender = LinkLocal[k] /\ Carries(k, UpdatedRreq(n).orig.addr)
      BY <1>2, RreqArrived DEF StoredRreq
    <2>3. k = m /\ Carries(m, r.addr)
      BY <2>1, <2>2, NetworkAssumption
    <2> QED BY <2>3, CarriesOn
  <1>3. CASE lrs[n][i].route # r /\ StoredRrep(n)
    <2>1. r.addr = UpdatedRrep(n).targ.addr /\ r.nextHop = UpdatedRrep(n).sender
      BY <1>3, StoredRoutes DEF Grown
    <2>2. PICK k \in Routers : UpdatedRrep(n).sender = LinkLocal[k] /\ Carries(k, UpdatedRrep(n).targ.addr)
      BY <1>3, RrepArrived DEF StoredRrep
    <2>3. k = m /\ Carries(m, r.addr)
      BY <2>1, <2>2, NetworkAssumption
    <2> QED BY <2>3, CarriesOn
  <1> QED BY <1>1, <1>2, <1>3 DEF Effects, TableEffect

(* What is sent is true of its sender and of its receiver.                  *)
LEMMA AirCarriedStep ==
    ASSUME TypeInv, TablesInv, CarryInv, Effects, NEW f \in air'
    PROVE  Carried(f.from, f.to, f.msg)'
  <1>1. Carried(f.from, f.to, f.msg) /\ f.from \in Routers /\ f.to \in Routers
    <2>1. CASE f \in air
      BY <2>1 DEF CarryInv, TypeInv, AirType
    <2>2. CASE Sent(f)
      <3> DEFINE n == f.from
                 it == cur[n]
      <3>1. n \in Routers /\ f.to \in Routers /\ it \in Pending(n) /\ it \in Items \union {Idle}
        BY <2>2 DEF Sent, Pending, TypeInv, QueueType
      <3>2. ItemCarried(n, it)
        BY <3>1 DEF CarryInv
      <3>3. CASE it.t = "rreq" /\ f.msg = EncodeRreq(it.pkt)
        <4>1. it.pkt \in MsgData
          BY <3>1, <3>3 DEF Items, RreqItem, RrepItem, RcvItem, Idle
        <4>2. GoodPkt(it.pkt) /\ Carries(n, Told(it.pkt.orig))
          BY <3>2, <3>3 DEF ItemCarried, RreqCarried
        <4> QED BY <3>1, <3>3, <4>1, <4>2, Written DEF Carried
      <3>4. CASE /\ it.t = "rrep" /\ LinkLocal[f.to] = it.nextHop
                 /\ \E s \in SeqNum : f.msg = EncodeRrep(it.pkt, s)
        <4>1. it.pkt \in MsgData
          BY <3>1, <3>4 DEF Items, RreqItem, RrepItem, RcvItem, Idle
        <4>2. GoodPkt(it.pkt) /\ Carries(n, it.pkt.targ.addr) /\ Carries(f.to, Told(it.pkt.orig))
          BY <3>1, <3>2, <3>4 DEF ItemCarried, RrepCarried
        <4> QED BY <3>1, <3>4, <4>1, <4>2, Written DEF Carried
      <3> QED BY <2>2, <3>3, <3>4 DEF Sent
    <2> QED BY <2>1, <2>2 DEF Effects, AirEffect
  <1> QED BY <1>1, CarriesOn DEF Carried

(* What was true of a queued item stays true.                               *)
LEMMA OldItemCarried ==
    ASSUME TypeInv, TablesInv, CarryInv, Effects, NEW n \in Routers, NEW it, ItemCarried(n, it)
    PROVE  ItemCarried(n, it)'
  <1>1. it.t = "rreq" => RreqCarried(n, it)'
    BY CarriesOn DEF ItemCarried, RreqCarried
  <1>3. it.t = "rrep" => RrepCarried(n, it)'
    BY CarriesOn DEF ItemCarried, RrepCarried
  <1>4. it.t = "rcv" => RcvCarried(n, it)'
    <2> SUFFICES ASSUME NEW m \in Routers, it.from = LinkLocal[m], Carried(m, n, it.msg)
                 PROVE  Carried(m, n, it.msg)'
      BY DEF ItemCarried, RcvCarried
    <2> QED BY CarriesOn DEF Carried
  <1> QED BY <1>1, <1>3, <1>4 DEF ItemCarried

(* What is queued anew is true: above all, a RREP that is passed on follows *)
(* a route that its RREQ left.                                              *)
LEMMA NewItemCarried ==
    ASSUME TypeInv, TablesInv, CarryInv, Effects,
           TypeInv', TablesInv', RoutesCarried', NEW n \in Routers, NEW it, Appeared(n, it)
    PROVE  ItemCarried(n, it)'
  <1>1. CASE Asked(n, it)
    <2>1. PICK w \in Wanted : /\ w.router = n
                               /\ \E client \in ClientsOf(n, w.src) :
                                    it = [t |-> "rreq", pkt |-> NewRreq(n, client, w.dst)]
      BY <1>1 DEF Asked
    <2>2. PICK client \in ClientsOf(n, w.src) : it = [t |-> "rreq", pkt |-> NewRreq(n, client, w.dst)]
      BY <2>1
    <2>3. client \in Askers /\ client \in Clients[n] /\ client.pfx \in {64, 128}
      BY <2>1, <2>2, AskerLength
    <2>4. /\ it.t = "rreq" /\ it.pkt.targ.pfx = 128
          /\ it.pkt.orig.addr = client.addr /\ it.pkt.orig.pfx = client.pfx
      BY <2>2, NewRreqFields
    <2>5. GoodPkt(it.pkt)
      BY <2>3, <2>4 DEF GoodPkt, AllLong, AllShort
    <2>6. InPrefix(Told(it.pkt.orig), client.addr, Agreed(client.pfx))
      BY <2>3, <2>4, Lengths DEF InPrefix, Told, Agreed, AllLong, AllShort
    <2>7. Carries(n, Told(it.pkt.orig))
      BY <2>3, <2>6 DEF Carries, Knows
    <2>8. Carries(n, Told(it.pkt.orig))'
      BY <2>7, CarriesOn
    <2> QED BY <2>4, <2>5, <2>8 DEF ItemCarried, RreqCarried
  <1>2. CASE Heard(n, it)
    <2>1. PICK f \in air : f.to = n /\ it = [t |-> "rcv", from |-> LinkLocal[f.from], msg |-> f.msg]
      BY <1>2 DEF Heard
    <2>2. f.from \in Routers /\ Carried(f.from, n, it.msg) /\ it.t = "rcv" /\ it.from = LinkLocal[f.from]
      BY <2>1 DEF CarryInv, TypeInv, AirType
    <2>3. ItemCarried(n, it)
      BY <2>2 DEF ItemCarried, RcvCarried
    <2> QED BY <2>3, OldItemCarried
  <1>3. CASE Relayed(n, it)
    <2>1. StoredRreq(n) /\ AcceptedRreq(n) /\ it.t = "rreq" /\ it.pkt = UpdatedRreq(n)
      BY <1>3 DEF Relayed, StoredRreq
    <2>2. GoodPkt(it.pkt) /\ Near(it.pkt.orig.addr, Told(it.pkt.orig))
      BY <2>1, RreqArrived, DataAsTold
    <2>3. Carries(n, it.pkt.orig.addr)'
      BY <2>1, StoredCarries
    <2>4. Carries(n, Told(it.pkt.orig))'
      BY <2>2, <2>3, NearMoves
    <2> QED BY <2>1, <2>2, <2>4 DEF ItemCarried, RreqCarried
  <1>4. CASE Answered(n, it)
    <2> DEFINE d == UpdatedRreq(n)
    <2>1. /\ StoredRreq(n) /\ AcceptedRreq(n) /\ IsClient(n, d.targ.addr)
          /\ it.t = "rrep" /\ it.pkt = Answer(n) /\ it.nextHop = d.sender
      BY <1>4 DEF Answered, StoredRreq
    <2>2. it.pkt.orig = d.orig /\ it.pkt.targ.addr = d.targ.addr /\ it.pkt.targ.pfx = d.targ.pfx
      BY <2>1, AnswerType
    <2>3. PICK m \in Routers : d.sender = LinkLocal[m] /\ Carries(m, d.orig.addr)
      BY <2>1, RreqArrived
    <2>4. GoodData(d)
      BY <2>1, RreqArrived
    <2> HIDE DEF d
    <2>5. GoodData(it.pkt) /\ GoodPkt(it.pkt) /\ Near(it.pkt.orig.addr, Told(it.pkt.orig))
      BY <2>2, <2>4, DataAsTold DEF GoodData
    <2>6. Carries(n, it.pkt.targ.addr)
      <3>1. PICK c \in Clients[n] : InPrefix(d.targ.addr, c.addr, c.pfx)
        BY <2>1 DEF IsClient, ClientsOf
      <3>2. InPrefix(d.targ.addr, c.addr, Agreed(c.pfx))
        BY <3>1 DEF InPrefix, Agreed
      <3> QED BY <2>2, <3>2 DEF Carries, Knows
    <2>7. \A k \in Routers : it.nextHop = LinkLocal[k] => Carries(k, Told(it.pkt.orig))
      <3>1. Carries(m, Told(it.pkt.orig))
        BY <2>2, <2>3, <2>5, NearMoves
      <3> QED BY <2>1, <2>3, <3>1, NetworkAssumption
    <2>8. it.nextHop # NoHop
      BY <2>1, <2>3, NetworkAssumption
    <2>9. ItemCarried(n, it)
      BY <2>1, <2>5, <2>6, <2>7, <2>8 DEF ItemCarried, RrepCarried
    <2> QED BY <2>9, OldItemCarried
  <1>5. CASE PassedOn(n, it)
    <2> DEFINE d == UpdatedRrep(n)
    <2>1. /\ StoredRrep(n) /\ AcceptedRrep(n) /\ ~IsClient(n, d.orig.addr)
          /\ it.t = "rrep" /\ it.pkt = d /\ it.nextHop = NextHop(lrs'[n], d.orig.addr, d.type)
      BY <1>5 DEF PassedOn, StoredRrep
    <2>2. d.type = METRIC_HOP_COUNT /\ d.orig.addr # Unspecified
      BY <2>1, RrepAccepted
    <2>3. /\ GoodPkt(it.pkt) /\ Carries(n, it.pkt.orig.addr)
          /\ Near(it.pkt.orig.addr, Told(it.pkt.orig))
      BY <2>1, RrepArrived, DataAsTold
    <2>4. Carries(n, it.pkt.targ.addr)'
      BY <2>1, StoredCarries
    <2> HIDE DEF d
    <2>5. lrs'[n] \in Lrs!Table /\ OneSlotPerRoute(lrs'[n])
      BY DEF TypeInv, TableType, TablesInv, TablesAgree, OneSlotPerRoute, Live
    <2>6. \/ it.nextHop = NoHop /\ \A i \in Lrs!Slots : ~Leads(lrs'[n], i, it.pkt.orig.addr)
          \/ \E i \in Lrs!Slots : /\ Leads(lrs'[n], i, it.pkt.orig.addr)
                                  /\ it.nextHop = lrs'[n][i].route.nextHop /\ it.nextHop \in Addr
      BY <2>1, <2>2, <2>5, NextHopCases
    <2>7. ASSUME NEW m \in Routers, it.nextHop = LinkLocal[m]
          PROVE  Carries(m, Told(it.pkt.orig))'
      <3>1. it.nextHop # NoHop
        BY <2>7, NetworkAssumption
      <3>2. PICK i \in Lrs!Slots : /\ Leads(lrs'[n], i, it.pkt.orig.addr)
                                   /\ it.nextHop = lrs'[n][i].route.nextHop
        BY <2>6, <3>1
      <3>3. lrs'[n][i].route.addr = it.pkt.orig.addr /\ it.pkt.orig.addr # Unspecified
        BY <2>1, <2>2, <3>2 DEF Leads
      <3>4. Carries(m, it.pkt.orig.addr)'
        BY <2>7, <3>2, <3>3 DEF RoutesCarried, Live
      <3> QED BY <2>3, <3>4, NearMoves
    <2>8. ASSUME HasRoom(n)'
          PROVE  it.nextHop # NoHop \/ (~OneLength /\ Knows(n, it.pkt.orig.addr)')
      <3> DEFINE a == it.pkt.orig.addr
      <3>1. Knows(n, a)'
        BY <2>3, <2>8, CarriesOn DEF Carries
      <3>2. CASE ~OneLength
        BY <3>1, <3>2
      <3>3. CASE OneLength
        <4>1. a \in Addr
          BY <2>1, RrepAccepted DEF MsgData, Node, d
        <4>2. ~\E c \in Clients[n] : InPrefix(a, c.addr, Agreed(c.pfx))
          BY <2>1, <3>3 DEF IsClient, ClientsOf, Agreed
        <4>3. PICK r \in Routes(n)' : InPrefix(a, r.addr, 128)
          BY <3>1, <3>3, <4>2 DEF Knows, Agreed
        <4>4. PICK i \in Lrs!Slots : lrs'[n][i].route = r /\ r.addr # Unspecified
          BY <4>3 DEF Routes
        <4>5. r.addr \in Addr
          BY <2>5, <4>4 DEF Lrs!Table, Lrs!Route
        <4>6. r.addr = a
          BY <4>1, <4>3, <4>5 DEF InPrefix, Addr
        <4>7. Live(lrs'[n], i) /\ lrs'[n][i].route.addr = a
          BY <4>4, <4>6 DEF Live
        <4>8. Leads(lrs'[n], i, a)
          BY <2>5, <4>7 DEF OneSlotPerRoute, Leads
        <4> QED BY <2>6, <4>8, NetworkAssumption
      <3> QED BY <3>2, <3>3
    <2> QED BY <2>1, <2>3, <2>4, <2>7, <2>8 DEF ItemCarried, RrepCarried
  <1> QED BY <1>1, <1>2, <1>3, <1>4, <1>5 DEF Appeared

(* The invariant is inductive.                                              *)
LEMMA CarryStep ==
    ASSUME TypeInv, TablesInv, CarryInv, Effects, TypeInv', TablesInv'
    PROVE  CarryInv'
  <1>1. RoutesCarried'
    BY RoutesCarriedStep
  <1>2. \A n \in Routers : GoodData(msgData'[n])
    BY DataCarriedStep
  <1>3. ASSUME NEW n \in Routers, NEW it \in Pending(n)'
        PROVE  ItemCarried(n, it)'
    <2>1. CASE it \in Pending(n)
      BY <2>1, OldItemCarried DEF CarryInv
    <2>2. CASE it = Idle
      BY <2>2 DEF ItemCarried, Idle
    <2>3. CASE Appeared(n, it)
      BY <1>1, <2>3, NewItemCarried
    <2> QED BY <2>1, <2>2, <2>3 DEF Effects, ItemEffect
  <1>4. ASSUME NEW f \in air'
        PROVE  Carried(f.from, f.to, f.msg)'
    BY AirCarriedStep
  <1> QED BY <1>1, <1>2, <1>3, <1>4 DEF CarryInv

(* The initial states satisfy it.                                           *)
LEMMA InitCarry == Init => CarryInv
  <1> SUFFICES ASSUME Init PROVE CarryInv
    OBVIOUS
  <1>1. RoutesCarried
    BY DEF Init, RoutesCarried, Live, Lrs!EmptyTable, Lrs!NoRoute
  <1>2. \A n \in Routers : GoodData(msgData[n])
    BY DEF Init, NoMsgData, NoNode, Unspecified, GoodData
  <1>3. ASSUME NEW n \in Routers, NEW it \in Pending(n)
        PROVE  ItemCarried(n, it)
    <2>1. queue[n] = <<>> /\ cur[n] = Idle /\ 1..Len(<<>>) = {}
      BY DEF Init
    <2>2. it = Idle
      BY <2>1 DEF Pending, Elements
    <2> QED BY <2>2 DEF Idle, ItemCarried
  <1> QED BY <1>1, <1>2, <1>3 DEF CarryInv, Init

(* A neighbour that serves as a next hop can carry packets on: in a mesh of *)
(* any size, whatever the prefix lengths of its clients and however RREQs   *)
(* and RREPs are lost and overtaken, the next hop of a route has the        *)
(* destination as its client or has a route of its own, unless its route    *)
(* set is full; of the destination's prefix, where the clients that ask     *)
(* have different lengths.                                                  *)
THEOREM NextHopsCarryOn == Spec => []NextHopCarriesOn
  <1>1. TypeInv /\ TablesInv /\ CarryInv /\ [Next]_vars => TypeInv' /\ TablesInv' /\ CarryInv'
    BY NextStep, TablesStep, CarryStep
  <1>2. CarryInv => NextHopCarriesOn
    BY DEF CarryInv, RoutesCarried, Carries, Live, NextHopCarriesOn, Routes
  <1> QED BY <1>1, <1>2, InitTypeInv, InitTables, InitCarry, PTL DEF Spec

(* "assert(next_hop != NULL)" (aodvv2.c:146): a router that passes a RREP   *)
(* on still has the route back to OrigNode that its RREQ left there, unless *)
(* its route set is full, and the assertion holds; where the clients that   *)
(* ask have different lengths it holds unless the route that is left leads  *)
(* to another address of the prefix.                                        *)
THEOREM RrepsHaveNextHop == Spec => []RrepHasNextHop
  <1>1. TypeInv /\ TablesInv /\ CarryInv /\ [Next]_vars => TypeInv' /\ TablesInv' /\ CarryInv'
    BY NextStep, TablesStep, CarryStep
  <1>2. CarryInv => RrepHasNextHop
    BY DEF CarryInv, ItemCarried, RrepCarried, Pending, Elements, RrepHasNextHop
  <1> QED BY <1>1, <1>2, InitTypeInv, InitTables, InitCarry, PTL DEF Spec
=============================================================================
