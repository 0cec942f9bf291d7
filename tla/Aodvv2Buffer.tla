---------------------------- MODULE Aodvv2Buffer ----------------------------
(***************************************************************************)
(* The packets that wait for a route (aodvv2_buffer.c).  The IPv6 thread   *)
(* adds a packet when the NIB has no route for it (the route-info callback *)
(* _route_info); the AODVv2 thread dispatches the packets of a destination *)
(* when a RREP for it arrives.  The array has no lock, and the IPv6 thread *)
(* preempts the AODVv2 thread anywhere: its call of aodvv2_buffer_pkt_add  *)
(* is one step, aodvv2_buffer_dispatch is not.                             *)
(*                                                                         *)
(* The three assignments of _pkt_del race with the add, so they happen in  *)
(* any order the compiler may have chosen.                                 *)
(***************************************************************************)
EXTENDS Integers, FiniteSetsExt

CONSTANTS Pkts,          \* packets
          Dsts,          \* destination addresses
          DstOf,         \* DstOf[p]: where packet p goes
          Null,          \* the null pointer
          Unspecified,   \* the address ::
          NSlots         \* CONFIG_AODVV2_MAX_BUFFERED_PACKETS

ASSUME BufferAssumption ==
    /\ DstOf \in [Pkts -> Dsts]
    /\ Null \notin Pkts
    /\ Unspecified \notin Dsts
    /\ NSlots \in Nat

Slots == 1..NSlots

Slot == [used : BOOLEAN, pkt : Pkts \union {Null}, dst : Dsts \union {Unspecified}]
NoSlot == [used |-> FALSE, pkt |-> Null, dst |-> Unspecified]

Fields == {"used", "pkt", "dst"}

VARIABLES slots,      \* the array _buffered_pkts
          where,      \* where[p]: who owns the reference to packet p
          disp        \* the AODVv2 thread's call of aodvv2_buffer_dispatch

vars == <<slots, where, disp>>

Idle == [targ |-> Unspecified, i |-> 0, todo |-> {}]
Dispatching == disp # Idle

Init ==
    /\ slots = [i \in Slots |-> NoSlot]
    /\ where = [p \in Pkts |-> "app"]
    /\ disp = Idle

Free == {i \in Slots : ~slots[i].used}
-----------------------------------------------------------------------------
(* _route_info and aodvv2_buffer_pkt_add, for a packet from an application  *)
(* or one that was dispatched and still has no route.  The buffer takes a   *)
(* reference; when it is full the packet is dropped.                        *)
RouteInfo(p) ==
    /\ where[p] \in {"app", "ipv6"}
    /\ IF Free = {}
       THEN /\ where' = [where EXCEPT ![p] = "gone"]
            /\ UNCHANGED slots
       ELSE /\ slots' = [slots EXCEPT ![Min(Free)] =
                           [used |-> TRUE, pkt |-> p, dst |-> DstOf[p]]]
            /\ where' = [where EXCEPT ![p] = "buffer"]
    /\ UNCHANGED disp

\* The IPv6 thread finds a route for a dispatched packet and sends it.
Transmit(p) ==
    /\ where[p] = "ipv6"
    /\ where' = [where EXCEPT ![p] = "gone"]
    /\ UNCHANGED <<slots, disp>>

\* aodvv2_buffer_dispatch is called for a destination.
Dispatch(d) ==
    /\ ~Dispatching
    /\ disp' = [targ |-> d, i |-> 1, todo |-> {}]
    /\ UNCHANGED <<slots, where>>

Visiting == Dispatching /\ disp.todo = {} /\ disp.i \in Slots

\* The loop passes a slot with another destination.
SkipSlot ==
    /\ Visiting
    /\ slots[disp.i].dst # disp.targ
    /\ disp' = [disp EXCEPT !.i = @ + 1]
    /\ UNCHANGED <<slots, where>>

\* Variant: the loop starts over after a packet was sent.
SendSlotRestarts ==
    LET s == slots[disp.i]
    IN  /\ Visiting
        /\ s.dst = disp.targ
        /\ where' = IF s.pkt = Null THEN where ELSE [where EXCEPT ![s.pkt] = "ipv6"]
        /\ slots' = [slots EXCEPT ![disp.i] = NoSlot]
        /\ disp' = [disp EXCEPT !.i = 1]

\* The loop hands a packet to the IPv6 thread, and calls _pkt_del.
SendSlot ==
    LET s == slots[disp.i]
    IN  /\ Visiting
        /\ s.dst = disp.targ
        /\ where' = IF s.pkt = Null THEN where ELSE [where EXCEPT ![s.pkt] = "ipv6"]
        /\ disp' = IF s.used THEN [disp EXCEPT !.todo = Fields]
                   ELSE [disp EXCEPT !.i = @ + 1]
        /\ UNCHANGED slots

\* Variant: the slot keeps its packet and destination.
ClearFieldUsedOnly(f) ==
    /\ f \in disp.todo
    /\ slots' = [slots EXCEPT ![disp.i].used = FALSE]
    /\ disp' = [disp EXCEPT !.todo = {}, !.i = @ + 1]
    /\ UNCHANGED where

\* One assignment of _pkt_del.
ClearField(f) ==
    LET rest == disp.todo \ {f}
    IN  /\ f \in disp.todo
        /\ slots' = [slots EXCEPT ![disp.i] =
                       [used |-> IF f = "used" THEN FALSE ELSE @.used,
                        pkt  |-> IF f = "pkt" THEN Null ELSE @.pkt,
                        dst  |-> IF f = "dst" THEN Unspecified ELSE @.dst]]
        /\ disp' = [disp EXCEPT !.todo = rest, !.i = IF rest = {} THEN @ + 1 ELSE @]
        /\ UNCHANGED where

\* The loop is done.
DispatchEnd ==
    /\ Dispatching
    /\ disp.i > NSlots
    /\ disp' = Idle
    /\ UNCHANGED <<slots, where>>

DispatchStep == SkipSlot \/ SendSlot \/ (\E f \in Fields : ClearField(f)) \/ DispatchEnd

Next ==
    \/ \E p \in Pkts : RouteInfo(p) \/ Transmit(p)
    \/ \E d \in Dsts : Dispatch(d)
    \/ DispatchStep

(* The AODVv2 thread finishes a loop it has begun, and the IPv6 thread does *)
(* something with every packet it is given.  No RREP has to arrive.         *)
Fairness ==
    /\ WF_vars(DispatchStep)
    /\ \A p \in Pkts : WF_vars(Transmit(p))

Spec == Init /\ [][Next]_vars /\ Fairness

-----------------------------------------------------------------------------
TypeOK ==
    /\ slots \in [Slots -> Slot]
    /\ where \in [Pkts -> {"app", "buffer", "ipv6", "gone"}]
    /\ disp \in [targ : Dsts \union {Unspecified}, i : 0..(NSlots + 1), todo : SUBSET Fields]

(* Whatever the IPv6 thread adds in the middle of it, the dispatch loop     *)
(* hands over only references the buffer owns: a packet is never given      *)
(* away twice, which would free it twice.                                   *)
HandsOverOwnedOnly ==
    Visiting /\ slots[disp.i].dst = disp.targ /\ slots[disp.i].pkt # Null =>
        where[slots[disp.i].pkt] = "buffer"

(* The dispatch loop ends, although the packets it sends may come straight  *)
(* back into slots it has not reached yet.                                  *)
DispatchTerminates == Dispatching ~> ~Dispatching
=============================================================================
