---------------------------- MODULE Aodvv2Network ----------------------------
(***************************************************************************)
(* Routers running AODVv2 over a radio that loses and reorders messages:   *)
(* route discovery from the packet that has no route (aodvv2.c) through    *)
(* the IPC queue and event loop of the AODVv2 thread, the callbacks that   *)
(* end a RREQ or RREP (aodvv2_reader.c), the route and message sets and    *)
(* the forwarding table (NIB), to the dispatch of the buffered packets.    *)
(*                                                                         *)
(* A function indexed by routers stands for each static variable.  The     *)
(* modules of the single sets treat their concurrency and ageing; here a   *)
(* handler of the event loop is one step, taken after the step that        *)
(* removes its message from the queue so that other threads may fill the   *)
(* queue in between, and the whole run is shorter than the active          *)
(* interval, so that no entry ages.  Clients are configured beforehand.    *)
(***************************************************************************)
EXTENDS Aodvv2MessageOps, FiniteSets

CONSTANTS Routers,
          Link,           \* pairs of routers in radio range
          LinkLocal,      \* LinkLocal[n]: the address neighbours know n by
          Clients,        \* Clients[n]: the router client set, [addr, pfx]
          Wanted,         \* [router, src, dst]: packets applications send
          StackRtr,       \* what the SeqNoRtr field may hold on the stack
          NoHop,          \* what the writer sends to when a next hop is NULL
          NSlots, NEntries, QueueSize, BufferSize, NibSize,
          MaxDiscoveries  \* bound on the number of discoveries

ASSUME NetworkAssumption ==
    /\ Link \subseteq Routers \X Routers
    /\ LinkLocal \in [Routers -> Addr]
    /\ \A n, m \in Routers : LinkLocal[n] = LinkLocal[m] => n = m
    /\ Clients \in [Routers -> SUBSET [addr : Addr, pfx : PfxLen \ {0}]]
    /\ Wanted \subseteq [router : Routers, src : Addr, dst : Addr]
    /\ StackRtr \subseteq Addr
    /\ NoHop \notin Addr
    /\ {NSlots, NEntries, QueueSize, BufferSize, NibSize, MaxDiscoveries} \subseteq Nat

\* Nothing ages: the clock stays at 0, before the end of the first interval.
Now == 0

Lrs == INSTANCE Aodvv2LrsOps
         WITH ActiveInterval <- 5, MaxIdleTime <- 200, MaxSeqnumLifetime <- 300

NoKey == [orig |-> Unspecified, pfx |-> 0, targ |-> Unspecified, type |-> 0]
Key == [orig : Addr, pfx : PfxLen, targ : Addr, type : Nat] \ {NoKey}
Mc == INSTANCE Aodvv2McmsgOps WITH Rtr <- Addr, MaxSeqnumLifetime <- 300

VARIABLES seqnum, lrs, mcmsg, msgData, waiting, queue,
          cur,            \* cur[n]: the message the event loop is handling
          nib,            \* nib[n]: the routes of the forwarding table
          air,            \* messages on their way
          discoveries     \* number of discoveries so far

vars == <<seqnum, lrs, mcmsg, msgData, waiting, queue, cur, nib, air, discoveries>>

Idle == [t |-> "idle"]

\* The packet buffer: a destination per slot in use.
PacketSlots == 1..BufferSize
NoPacket == <<>>
EmptyBuffer == [i \in PacketSlots |-> NoPacket]

\* aodvv2_init, and a radio with nothing on it
Init ==
    /\ seqnum = [n \in Routers |-> 1]
    /\ lrs = [n \in Routers |-> Lrs!EmptyTable]
    /\ mcmsg = [n \in Routers |-> Mc!EmptyTable]
    /\ msgData = [n \in Routers |-> NoMsgData]
    /\ waiting = [n \in Routers |-> EmptyBuffer]
    /\ queue = [n \in Routers |-> <<>>]
    /\ cur = [n \in Routers |-> Idle]
    /\ nib = [n \in Routers |-> {}]
    /\ air = {}
    /\ discoveries = 0

\* aodvv2_seqnum_inc, without an interruption
SeqnumInc(s) == IF s >= SeqMax THEN 1 ELSE s + 1

\* aodvv2_rcs_is_client
ClientsOf(n, addr) == {c \in Clients[n] : InPrefix(addr, c.addr, c.pfx)}
IsClient(n, addr) == ClientsOf(n, addr) # {}

\* The set's view of a RREQ.
Rreq(d, rtr) ==
    [key |-> [orig |-> d.orig.addr, pfx |-> d.orig.pfx, targ |-> d.targ.addr, type |-> d.type],
     rtr |-> rtr, seqnum |-> d.orig.seqnum, metric |-> d.orig.metric]
-----------------------------------------------------------------------------
\* The forwarding table knows a way to addr.
Routed(table, addr) == \E e \in table : InPrefix(addr, e.dst, e.pfx)

\* gnrc_ipv6_nib_ft_add: a full table keeps what it has.
NibAdd(table, e) ==
    IF Cardinality(table \union {e}) <= NibSize THEN table \union {e} ELSE table

\* gnrc_ipv6_nib_ft_del removes one route to the prefix: the possible results.
NibDel(table, dst, pfx) ==
    LET hits == {e \in table : e.dst = dst /\ e.pfx = pfx}
    IN  IF hits = {} THEN {table} ELSE {table \ {e} : e \in hits}

\* aodvv2_buffer_pkt_add takes the first unused slot,
PktAdd(buffer, dst) ==
    LET unused == {i \in PacketSlots : buffer[i] = NoPacket}
    IN  [buffer EXCEPT ![Min(unused)] = dst]

\* and aodvv2_buffer_dispatch empties every slot with the destination.
Dispatch(buffer, dst) ==
    [i \in PacketSlots |-> IF buffer[i] = dst THEN NoPacket ELSE buffer[i]]

\* msg_send to the own, possibly full queue: the message is lost then.
SendToSelf(n, item) ==
    queue' = IF Len(queue[n]) < QueueSize
             THEN [queue EXCEPT ![n] = Append(@, item)] ELSE queue
-----------------------------------------------------------------------------
\* The RREQ this router asks for dst with.
NewRreq(n, client, dst) ==
    [hopLimit |-> MetricMax(METRIC_HOP_COUNT), sender |-> Unspecified,
     type |-> METRIC_HOP_COUNT,
     orig |-> [addr |-> client.addr, pfx |-> client.pfx,
               metric |-> 0, seqnum |-> ToSeqNum(seqnum[n])],
     targ |-> [addr |-> dst, pfx |-> 128, metric |-> 0, seqnum |-> 0]]

\* aodvv2_find_route, called by a thread that waits for room in the queue.
FindRoute(n, client, dst) ==
    LET d == NewRreq(n, client, dst)
    IN  /\ Len(queue[n]) < QueueSize
        /\ seqnum' = [seqnum EXCEPT ![n] = SeqnumInc(@)]
        /\ \E rtr \in StackRtr :
              mcmsg' = [mcmsg EXCEPT ![n] = Mc!Process(@, Rreq(d, rtr), Now).table]
        /\ queue' = [queue EXCEPT ![n] = Append(@, [t |-> "rreq", pkt |-> d])]

\* _route_info: a packet of a client, for which the NIB has no route, is
\* buffered and a route is looked for.  A packet that finds the buffer full
\* is not.
RouteInfo(w) ==
    LET n == w.router
    IN  /\ discoveries < MaxDiscoveries
        /\ ~Routed(nib[n], w.dst)
        /\ \E i \in PacketSlots : waiting[n][i] = NoPacket
        /\ waiting' = [waiting EXCEPT ![n] = PktAdd(@, w.dst)]
        /\ \E client \in ClientsOf(n, w.src) : FindRoute(n, client, w.dst)
        /\ discoveries' = discoveries + 1
        /\ UNCHANGED <<lrs, msgData, cur, nib, air>>

\* The radio delivers a message into the queue of its receiver, if it has room.
Deliver(f) ==
    /\ f \in air
    /\ air' = air \ {f}
    /\ SendToSelf(f.to, [t |-> "rcv", from |-> LinkLocal[f.from], msg |-> f.msg])
    /\ UNCHANGED <<seqnum, lrs, mcmsg, msgData, waiting, cur, nib, discoveries>>

\* The radio loses a message.
Lose(f) ==
    /\ f \in air
    /\ air' = air \ {f}
    /\ UNCHANGED <<seqnum, lrs, mcmsg, msgData, waiting, queue, cur, nib, discoveries>>

\* _event_loop: msg_receive
MsgReceive(n) ==
    /\ cur[n] = Idle
    /\ queue[n] # <<>>
    /\ cur' = [cur EXCEPT ![n] = Head(queue[n])]
    /\ queue' = [queue EXCEPT ![n] = Tail(@)]
    /\ UNCHANGED <<seqnum, lrs, mcmsg, msgData, waiting, nib, air, discoveries>>

\* The handler returns to msg_receive.
Done(n) == cur' = [cur EXCEPT ![n] = Idle]

\* _send_rreq: multicast to all routers in range
SendRreq(n) ==
    /\ cur[n].t = "rreq"
    /\ air' = air \union {[from |-> n, to |-> m, msg |-> EncodeRreq(cur[n].pkt)] :
                             m \in {m \in Routers : <<n, m>> \in Link}}
    /\ Done(n)
    /\ UNCHANGED <<seqnum, lrs, mcmsg, msgData, waiting, queue, nib, discoveries>>

\* _send_rrep: to the next hop, with a sequence number of this router
SendRrep(n) ==
    /\ cur[n].t = "rrep"
    /\ air' = air \union {[from |-> n, to |-> m,
                           msg |-> EncodeRrep(cur[n].pkt, ToSeqNum(seqnum[n]))] :
                             m \in {m \in Routers : /\ <<n, m>> \in Link
                                                    /\ LinkLocal[m] = cur[n].nextHop}}
    /\ seqnum' = [seqnum EXCEPT ![n] = SeqnumInc(@)]
    /\ Done(n)
    /\ UNCHANGED <<lrs, mcmsg, msgData, waiting, queue, nib, discoveries>>
-----------------------------------------------------------------------------
Receiving(n, kind) == cur[n].t = "rcv" /\ cur[n].msg.kind = kind

\* What the callbacks have read when the message ends.
Read(n) == ReadMessage(msgData[n], cur[n].from, cur[n].msg)

NodeData(d, node) ==
    [addr |-> node.addr, type |-> d.type, seqnum |-> node.seqnum,
     metric |-> node.metric, sender |-> d.sender]

\* Variant: a replaced route is taken out of the NIB and not put back.
RouteUpdatesNoAdd(n, d, node) ==
    LET data  == NodeData(d, node)
        route == Lrs!FillRoutingEntry(data, LinkCost(d.type), Now)
        hit   == Lrs!Find(lrs[n], node.addr, d.type, Now)
        entry == [dst |-> node.addr, pfx |-> node.pfx, hop |-> d.sender]
    IN  IF hit = 0
        THEN {[lrs |-> Lrs!AddEntry(lrs[n], route, Now), nib |-> NibAdd(nib[n], entry)]}
        ELSE IF Lrs!OffersImprovement(lrs[n][hit].route, data)
        THEN {[lrs |-> [lrs[n] EXCEPT ![hit].route = route], nib |-> rest] :
                 rest \in NibDel(nib[n], node.addr, node.pfx)}
        ELSE {}

(* The middle part of both end callbacks: the Local Route to the node and   *)
(* the NIB route that goes with it.  The possible results; none when the    *)
(* message offers no improvement.                                           *)
RouteUpdates(n, d, node) ==
    LET data  == NodeData(d, node)
        route == Lrs!FillRoutingEntry(data, LinkCost(d.type), Now)
        hit   == Lrs!Find(lrs[n], node.addr, d.type, Now)
        entry == [dst |-> node.addr, pfx |-> node.pfx, hop |-> d.sender]
    IN  IF hit = 0
        THEN {[lrs |-> Lrs!AddEntry(lrs[n], route, Now), nib |-> NibAdd(nib[n], entry)]}
        ELSE IF Lrs!OffersImprovement(lrs[n][hit].route, data)
        THEN {[lrs |-> [lrs[n] EXCEPT ![hit].route = route], nib |-> NibAdd(rest, entry)] :
                 rest \in NibDel(nib[n], node.addr, node.pfx)}
        ELSE {}

Store(n, update) ==
    /\ lrs' = [lrs EXCEPT ![n] = update.lrs]
    /\ nib' = [nib EXCEPT ![n] = update.nib]

\* A RREQ that lacks something, or whose hop or metric limit is reached.
RefuseRreq(n) ==
    /\ Receiving(n, "RREQ")
    /\ RreqRefused(Read(n))
    /\ msgData' = [msgData EXCEPT ![n] = Read(n).data]
    /\ Done(n)
    /\ UNCHANGED <<seqnum, lrs, mcmsg, waiting, queue, nib, air, discoveries>>

RreqVerdict(n) == Mc!Process(mcmsg[n], Rreq(Read(n).data, Unspecified), Now)

\* Variant: a RREQ is forwarded with the metric it came with.
UpdatedRreqNoMetric(n) == Read(n).data

\* The RREQ's data with the metric of one hop more.
UpdatedRreq(n) ==
    LET d == Read(n).data
    IN  WithNodes(d, d.type, WithMetric(d.orig, MetricUpdate(d.type, d.orig.metric)), d.targ)

\* A RREQ the McMsg set calls redundant.
RedundantRreq(n) ==
    /\ Receiving(n, "RREQ")
    /\ ~RreqRefused(Read(n))
    /\ RreqVerdict(n).verdict = "REDUNDANT"
    /\ mcmsg' = [mcmsg EXCEPT ![n] = RreqVerdict(n).table]
    /\ msgData' = [msgData EXCEPT ![n] = Read(n).data]
    /\ Done(n)
    /\ UNCHANGED <<seqnum, lrs, waiting, queue, nib, air, discoveries>>

\* A RREQ that offers no improvement over the route to OrigNode.
UselessRreq(n) ==
    LET d == UpdatedRreq(n)
    IN  /\ Receiving(n, "RREQ")
        /\ ~RreqRefused(Read(n))
        /\ RreqVerdict(n).verdict = "OK"
        /\ RouteUpdates(n, d, d.orig) = {}
        /\ mcmsg' = [mcmsg EXCEPT ![n] = RreqVerdict(n).table]
        /\ msgData' = [msgData EXCEPT ![n] = d]
        /\ Done(n)
        /\ UNCHANGED <<seqnum, lrs, waiting, queue, nib, air, discoveries>>

\* A RREQ that is answered, when TargNode is a client, or forwarded.
AcceptRreq(n) ==
    LET d      == UpdatedRreq(n)
        answer == WithNodes(d, d.type, d.orig, WithMetric(d.targ, 0))
    IN  /\ Receiving(n, "RREQ")
        /\ ~RreqRefused(Read(n))
        /\ RreqVerdict(n).verdict = "OK"
        /\ \E update \in RouteUpdates(n, d, d.orig) : Store(n, update)
        /\ mcmsg' = [mcmsg EXCEPT ![n] = RreqVerdict(n).table]
        /\ IF IsClient(n, d.targ.addr)
           THEN /\ msgData' = [msgData EXCEPT ![n] = answer]
                /\ SendToSelf(n, [t |-> "rrep", pkt |-> answer, nextHop |-> d.sender])
           ELSE /\ msgData' = [msgData EXCEPT ![n] = d]
                /\ SendToSelf(n, [t |-> "rreq", pkt |-> d])
        /\ Done(n)
        /\ UNCHANGED <<seqnum, waiting, air, discoveries>>

\* A RREP that lacks something or whose metric limit is reached.
RefuseRrep(n) ==
    /\ Receiving(n, "RREP")
    /\ RrepRefused(Read(n))
    /\ msgData' = [msgData EXCEPT ![n] = Read(n).data]
    /\ Done(n)
    /\ UNCHANGED <<seqnum, lrs, mcmsg, waiting, queue, nib, air, discoveries>>

\* The RREP's data; it is TargNode's metric that grows by a hop.
UpdatedRrep(n) ==
    LET d == Read(n).data
    IN  WithNodes(d, d.type, d.orig, WithMetric(d.targ, MetricUpdate(d.type, d.targ.metric)))

\* A RREP that offers no improvement over the route to TargNode.
UselessRrep(n) ==
    LET d == UpdatedRrep(n)
    IN  /\ Receiving(n, "RREP")
        /\ ~RrepRefused(Read(n))
        /\ RouteUpdates(n, d, d.targ) = {}
        /\ msgData' = [msgData EXCEPT ![n] = d]
        /\ Done(n)
        /\ UNCHANGED <<seqnum, lrs, mcmsg, waiting, queue, nib, air, discoveries>>

\* aodvv2_lrs_get_next_hop
NextHop(table, addr, type) ==
    LET hit == Lrs!Find(table, addr, type, Now)
    IN  IF hit = 0 THEN NoHop ELSE table[hit].route.nextHop

\* A RREP for one of our clients: the buffered packets are dispatched.
ConsumeRrep(n) ==
    LET d == UpdatedRrep(n)
    IN  /\ Receiving(n, "RREP")
        /\ ~RrepRefused(Read(n))
        /\ IsClient(n, d.orig.addr)
        /\ \E update \in RouteUpdates(n, d, d.targ) : Store(n, update)
        /\ msgData' = [msgData EXCEPT ![n] = d]
        /\ waiting' = [waiting EXCEPT ![n] = Dispatch(@, d.targ.addr)]
        /\ Done(n)
        /\ UNCHANGED <<seqnum, mcmsg, queue, air, discoveries>>

\* A RREP for someone else goes on towards OrigNode.
ForwardRrep(n) ==
    LET d == UpdatedRrep(n)
    IN  /\ Receiving(n, "RREP")
        /\ ~RrepRefused(Read(n))
        /\ ~IsClient(n, d.orig.addr)
        /\ \E update \in RouteUpdates(n, d, d.targ) :
              /\ Store(n, update)
              /\ SendToSelf(n, [t |-> "rrep", pkt |-> d,
                                nextHop |-> NextHop(update.lrs, d.orig.addr, d.type)])
        /\ msgData' = [msgData EXCEPT ![n] = d]
        /\ Done(n)
        /\ UNCHANGED <<seqnum, mcmsg, waiting, air, discoveries>>
-----------------------------------------------------------------------------
\* The step of the event loop that is due.
Handle(n) ==
    \/ SendRreq(n) \/ SendRrep(n)
    \/ RefuseRreq(n) \/ RedundantRreq(n) \/ UselessRreq(n) \/ AcceptRreq(n)
    \/ RefuseRrep(n) \/ UselessRrep(n) \/ ConsumeRrep(n) \/ ForwardRrep(n)

Work ==
    \/ \E f \in air : Deliver(f)
    \/ \E n \in Routers : MsgReceive(n) \/ Handle(n)

Next ==
    \/ \E w \in Wanted : RouteInfo(w)
    \/ \E f \in air : Lose(f)
    \/ Work

Spec == Init /\ [][Next]_vars
-----------------------------------------------------------------------------
Item == {Idle} \union [t : {"rreq"}, pkt : MsgData]
               \union [t : {"rrep"}, pkt : MsgData, nextHop : Addr \union {NoHop}]

TlvValue == {<<>>} \union [ORIGSEQNUM : SeqNum]
            \union [ORIGSEQNUM : SeqNum, METRIC : MetricValue]
            \union [TARGSEQNUM : SeqNum, METRIC : MetricValue]

\* What travels: the addresses are those of a RREQ or of a RREP.
IsMessage(m) ==
    /\ m.kind \in {"RREQ", "RREP"}
    /\ m.hopLimit \in 0..255
    /\ m.addrs \in Seq([addr : Addr, pfx : PfxLen \ {0}, tlv : TlvValue])

IsItem(i) ==
    IF i.t = "rcv" THEN i.from \in Addr /\ IsMessage(i.msg) ELSE i \in Item

TypeOK ==
    /\ seqnum \in [Routers -> SeqNum \ {0}]
    /\ lrs \in [Routers -> Lrs!Table]
    /\ mcmsg \in [Routers -> Mc!Table]
    /\ msgData \in [Routers -> MsgData]
    /\ waiting \in [Routers -> [PacketSlots -> Addr \union {NoPacket}]]
    /\ \A n \in Routers :
         /\ IsItem(cur[n])
         /\ Len(queue[n]) <= QueueSize
         /\ \A i \in 1..Len(queue[n]) : IsItem(queue[n][i])
         /\ nib[n] \subseteq [dst : Addr, pfx : PfxLen, hop : Addr]
         /\ Cardinality(nib[n]) <= NibSize
    /\ \A f \in air : <<f.from, f.to>> \in Link /\ IsMessage(f.msg)

\* The Local Routes of a router.
Routes(n) == {r \in {lrs[n][i].route : i \in Lrs!Slots} : r.addr # Unspecified}

(* A RREQ cannot travel forever: through all forwarding, whatever routers   *)
(* do to it and whatever older messages their _msg_data held, its hop limit *)
(* and the hop count of its metric add up to the limit it started with.     *)
RreqHopsAccounted ==
    \A f \in air : f.msg.kind = "RREQ" =>
        f.msg.hopLimit + f.msg.addrs[1].tlv["METRIC"] = MetricMax(METRIC_HOP_COUNT)

(* The forwarding table serves the route set: while the NIB has room, every *)
(* Local Route has its NIB route, with the same next hop, through all       *)
(* additions and replacements.                                              *)
NibServesLrs ==
    \A n \in Routers : Cardinality(nib[n]) < NibSize =>
        \A r \in Routes(n) :
            \E e \in nib[n] : e.dst = r.addr /\ e.hop = r.nextHop

\* The route set of n has never been full: no slot is ever released.
HasRoom(n) == Lrs!Free(lrs[n]) # {}

(* The clients that ask for routes.  When they all have full addresses, or  *)
(* all of them prefixes, a message tells every router the same address.     *)
(* When lengths differ, the reader fills the rest of a prefix with what it  *)
(* holds of another message, and routers agree on the prefix only.          *)
Askers == UNION {ClientsOf(w.router, w.src) : w \in Wanted}
OneLength == \A c, e \in Askers : c.pfx = e.pfx
Agreed(len) == IF OneLength THEN len ELSE 64

\* n has a client or a route for addr, as far as routers agree on it.
Knows(n, addr) ==
    \/ \E c \in Clients[n] : InPrefix(addr, c.addr, Agreed(c.pfx))
    \/ \E r \in Routes(n) : InPrefix(addr, r.addr, Agreed(128))

(* A router that is the next hop of a neighbour's route can carry packets   *)
(* on: it has the destination among its clients or, unless its route set    *)
(* is full, a route of its own, for what it passes on it has stored.        *)
NextHopCarriesOn ==
    \A n, m \in Routers : \A r \in Routes(n) :
        (r.nextHop = LinkLocal[m] /\ HasRoom(m)) => Knows(m, r.addr)

(* "assert(next_hop != NULL)" (aodvv2.c:146): unless the route set is full, *)
(* a RREP to send has a next hop, through all the routes that were replaced *)
(* since its RREQ passed by.  Where lengths differ the route may be one to  *)
(* another address of the prefix, which the lookup does not find: then the  *)
(* assertion fails.                                                         *)
RrepHasNextHop ==
    \A n \in Routers : HasRoom(n) =>
        \A i \in 1..Len(queue[n]) : \A it \in {queue[n][i]} : it.t = "rrep" =>
            it.nextHop # NoHop \/ (~OneLength /\ Knows(n, it.pkt.orig.addr))

\* n's route to addr leads to m.
Hop(addr, n, m) ==
    /\ ~IsClient(n, addr)
    /\ \E r \in Routes(n) : r.addr = addr /\ r.nextHop = LinkLocal[m]

(* "Analyzes if a route is loop free" (metric.h:64): two routers never are  *)
(* each other's next hop to the same destination.                           *)
LoopFree ==
    \A n, m \in Routers : \A r \in Routes(n) :
        ~(Hop(r.addr, n, m) /\ Hop(r.addr, m, n))
=============================================================================
