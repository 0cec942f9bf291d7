------------------------- MODULE Aodvv2BufferProofs -------------------------
(***************************************************************************)
(* Proofs about the packet buffer, for every number of slots, packets and  *)
(* destinations.                                                           *)
(***************************************************************************)
EXTENDS Aodvv2Buffer, WellFoundedInduction, TLAPS

(* What Min returns: the first slot of a loop.                              *)
LEMMA MinInSet ==
    ASSUME NEW S, S \subseteq Nat, S # {}
    PROVE  Min(S) \in S /\ \A y \in S : Min(S) <= y
  <1> DEFINE Less == {p \in Nat \X Nat : p[1] < p[2]}
  <1>1. IsWellFoundedOn(Less, Nat)
    <2>1. Less = OpToRel(<, Nat)
      BY Zenon DEF OpToRel
    <2> QED BY <2>1, NatLessThanWellFounded, Zenon
  <1>2. \A x, y \in Nat : <<y, x>> \in Less <=> y < x
    OBVIOUS
  <1> HIDE DEF Less
  <1>3. \E x \in S : \A y \in S : ~(<<y, x>> \in Less)
    BY <1>1, WFMin, Zenon
  <1>4. PICK x \in S : \A y \in S : ~(y < x)
    BY <1>2, <1>3, Zenon
  <1>5. \A y \in S : x <= y
    BY <1>4
  <1> QED BY <1>5 DEF Min

(* The packet pointer of slot j is one the dispatch loop may still follow:  *)
(* _pkt_del is not about to clear it.                                       *)
Held(j) == slots[j].pkt # Null /\ ~(j = disp.i /\ "pkt" \in disp.todo)

(* A slot whose pointer may be followed is in use, and the buffer owns the  *)
(* reference in it.                                                         *)
Owned == \A j \in Slots : Held(j) => slots[j].used /\ where[slots[j].pkt] = "buffer"

(* No two such slots hold the same packet.                                  *)
Unshared == \A j, k \in Slots :
    Held(j) /\ Held(k) /\ slots[j].pkt = slots[k].pkt => j = k

(* Where _pkt_del is: in a slot, which nobody takes over before the         *)
(* assignment to used; a pointer that was cleared before that stays clear.  *)
Clearing ==
    /\ disp.todo # {} => disp.i \in Slots
    /\ "used" \in disp.todo =>
         slots[disp.i].used /\ ("pkt" \in disp.todo \/ slots[disp.i].pkt = Null)

IInv == TypeOK /\ Owned /\ Unshared /\ Clearing
(* The initial states satisfy the invariant.                                *)
LEMMA InitIInv == Init => IInv
  BY BufferAssumption
  DEF Init, IInv, TypeOK, Owned, Unshared, Clearing, Held, Slot, NoSlot, Idle, Slots, Fields

(* The slot aodvv2_buffer_pkt_add writes to.                                *)
LEMMA FreeSlot ==
    ASSUME TypeOK, Free # {}
    PROVE  Min(Free) \in Slots /\ ~slots[Min(Free)].used
  <1>1. Free \subseteq Nat
    BY BufferAssumption DEF Free, Slots
  <1>2. Min(Free) \in Free
    BY <1>1, MinInSet
  <1> QED BY <1>2 DEF Free

(* Adding a packet: the slot it goes to holds nothing that may be followed, *)
(* and no other slot holds the packet.                                      *)
LEMMA RouteInfoStep ==
    ASSUME IInv, NEW p \in Pkts, RouteInfo(p)
    PROVE  IInv'
  <1> USE DEF IInv
  <1>1. CASE Free = {}
    <2>1. /\ where' = [where EXCEPT ![p] = "gone"]
          /\ UNCHANGED <<slots, disp>>
          /\ where[p] \in {"app", "ipv6"}
      BY <1>1 DEF RouteInfo
    <2>2. TypeOK'
      BY <2>1 DEF TypeOK
    <2>3. \A j \in Slots : Held(j)' <=> Held(j)
      BY <2>1 DEF Held
    <2>4. Owned'
      BY <2>1, <2>3 DEF Owned, TypeOK, Slot, Held
    <2>5. Unshared' /\ Clearing'
      BY <2>1, <2>3 DEF Unshared, Clearing
    <2> QED BY <2>2, <2>4, <2>5
  <1>2. CASE Free # {}
    <2> DEFINE k == Min(Free)
    <2>1. k \in Slots /\ ~slots[k].used
      BY <1>2, FreeSlot
    <2>2. /\ slots' = [slots EXCEPT ![k] = [used |-> TRUE, pkt |-> p, dst |-> DstOf[p]]]
          /\ where' = [where EXCEPT ![p] = "buffer"]
          /\ disp' = disp
          /\ where[p] \in {"app", "ipv6"}
      BY <1>2 DEF RouteInfo
    <2> HIDE DEF k
    <2>3. TypeOK'
      BY <2>1, <2>2, BufferAssumption DEF TypeOK, Slot
    <2>4. /\ slots'[k].used /\ slots'[k].pkt = p
          /\ \A j \in Slots : j # k => slots'[j] = slots[j]
          /\ \A q \in Pkts : q # p => where'[q] = where[q]
          /\ where'[p] = "buffer"
      BY <2>1, <2>2 DEF TypeOK
    <2>5. \A j \in Slots : slots[j].pkt \in Pkts \union {Null}
      BY DEF TypeOK, Slot
    <2>6. \A j \in Slots : j # k => (Held(j)' <=> Held(j))
      BY <2>2, <2>4 DEF Held
    <2>7. \A j \in Slots : Held(j) => slots[j].pkt # p
      BY <2>2 DEF Owned
    <2>8. Owned'
      BY <2>4, <2>5, <2>6, <2>7 DEF Owned, Held
    <2>9. Unshared'
      BY <2>4, <2>6, <2>7 DEF Unshared
    <2>10. Clearing'
      BY <2>1, <2>2, <2>4 DEF Clearing
    <2> QED BY <2>3, <2>8, <2>9, <2>10
  <1> QED BY <1>1, <1>2

(* Handing a packet over takes its reference out of the buffer; the pointer *)
(* that is left is not followed again.                                      *)
LEMMA SendSlotStep ==
    ASSUME IInv, SendSlot
    PROVE  IInv'
  <1> USE DEF IInv
  <1> DEFINE i == disp.i
             s == slots[i]
  <1>1. /\ i \in Slots /\ disp.todo = {}
        /\ where' = IF s.pkt = Null THEN where ELSE [where EXCEPT ![s.pkt] = "ipv6"]
        /\ disp' = IF s.used THEN [disp EXCEPT !.todo = Fields] ELSE [disp EXCEPT !.i = @ + 1]
        /\ slots' = slots
    BY DEF SendSlot, Visiting
  <1>2. s.pkt # Null => Held(i) /\ s.used
    BY <1>1 DEF Held, Owned
  <1>3. \A j \in Slots : Held(j)' => Held(j)
    BY <1>1 DEF Held, TypeOK
  <1>4. \A j \in Slots : Held(j)' /\ s.pkt # Null => slots[j].pkt # s.pkt
    <2> SUFFICES ASSUME NEW j \in Slots, Held(j)', s.pkt # Null, slots[j].pkt = s.pkt
                 PROVE FALSE
      OBVIOUS
    <2>1. j = i
      BY <1>1, <1>2, <1>3 DEF Unshared
    <2>2. disp'.i = i /\ "pkt" \in disp'.todo
      BY <1>1, <1>2 DEF TypeOK, Fields
    <2> QED BY <2>1, <2>2 DEF Held
  <1>5. TypeOK'
    BY <1>1, BufferAssumption DEF TypeOK, Slot, Slots, Fields
  <1>6. Owned'
    BY <1>1, <1>3, <1>4 DEF Owned, TypeOK, Slot, Held
  <1>7. Unshared'
    BY <1>1, <1>3 DEF Unshared
  <1>8. Clearing'
    BY <1>1, <1>2 DEF Clearing, TypeOK, Fields
  <1> QED BY <1>5, <1>6, <1>7, <1>8

(* One assignment of _pkt_del.                                              *)
LEMMA ClearFieldStep ==
    ASSUME IInv, NEW f \in Fields, ClearField(f)
    PROVE  IInv'
  <1> USE DEF IInv
  <1> DEFINE i == disp.i
             s == slots[i]
  <1>1. i \in Slots /\ f \in disp.todo
    BY DEF ClearField, Clearing
  <1>2. /\ where' = where
        /\ \A j \in Slots : j # i => slots'[j] = slots[j]
        /\ slots'[i].used = IF f = "used" THEN FALSE ELSE s.used
        /\ slots'[i].pkt = IF f = "pkt" THEN Null ELSE s.pkt
        /\ slots' \in [Slots -> Slot]
    BY <1>1 DEF ClearField, TypeOK, Slot
  <1>3. /\ disp'.todo = disp.todo \ {f}
        /\ disp'.todo # {} => disp'.i = i
        /\ TypeOK'
    <2> DEFINE rest == disp.todo \ {f}
    <2>1. CASE rest = {}
      <3>1. disp' = [[disp EXCEPT !.todo = rest] EXCEPT !.i = i + 1]
        BY <2>1 DEF ClearField
      <3>2. disp' = [targ |-> disp.targ, i |-> i + 1, todo |-> rest]
        BY <3>1 DEF TypeOK
      <3> QED BY <1>1, <1>2, <2>1, <3>2, BufferAssumption DEF TypeOK, Slots
    <2>2. CASE rest # {}
      <3>1. disp' = [[disp EXCEPT !.todo = rest] EXCEPT !.i = i]
        BY <2>2 DEF ClearField
      <3>2. disp' = [targ |-> disp.targ, i |-> i, todo |-> rest]
        BY <3>1 DEF TypeOK
      <3> QED BY <1>1, <1>2, <2>2, <3>2, BufferAssumption DEF TypeOK, Slots
    <2> QED BY <2>1, <2>2
  <1>4. "pkt" \in disp'.todo <=> "pkt" \in disp.todo /\ f # "pkt"
    BY <1>3
  <1>5. \A j \in Slots : Held(j)' => Held(j) /\ slots'[j].pkt = slots[j].pkt
    BY <1>1, <1>2, <1>3, <1>4 DEF Held
  <1>6. \A j \in Slots : Held(j)' => slots'[j].used
    <2>1. ASSUME NEW j \in Slots, Held(j)', j # i PROVE slots'[j].used
      BY <1>2, <1>5, <2>1 DEF Owned
    <2>2. ASSUME NEW j \in Slots, Held(j)', j = i PROVE slots'[j].used
      <3>1. Held(i) /\ s.used /\ s.pkt # Null
        BY <1>1, <1>5, <2>2 DEF Owned, Held
      <3>2. "pkt" \notin disp.todo
        BY <3>1 DEF Held
      <3>3. f # "used"
        BY <1>1, <3>1, <3>2 DEF Clearing
      <3> QED BY <1>2, <2>2, <3>1, <3>3
    <2> QED BY <2>1, <2>2
  <1>7. Owned'
    BY <1>2, <1>5, <1>6 DEF Owned
  <1>8. Unshared'
    BY <1>5 DEF Unshared
  <1>9. Clearing'
    <2>1. disp'.todo # {} => disp'.i \in Slots
      BY <1>1, <1>3
    <2>2. ASSUME "used" \in disp'.todo
          PROVE  slots'[disp'.i].used /\ ("pkt" \in disp'.todo \/ slots'[disp'.i].pkt = Null)
      <3>1. disp'.i = i /\ f # "used" /\ "used" \in disp.todo
        BY <1>3, <2>2
      <3>2. s.used /\ ("pkt" \in disp.todo \/ s.pkt = Null)
        BY <3>1 DEF Clearing
      <3> QED BY <1>2, <1>4, <3>1, <3>2
    <2> QED BY <2>1, <2>2 DEF Clearing
  <1> QED BY <1>3, <1>7, <1>8, <1>9

(* The steps that change neither slots nor owners: the loop starts, moves   *)
(* on or ends with nothing being cleared.                                   *)
LEMMA LoopStep ==
    ASSUME IInv, UNCHANGED <<slots, where>>, TypeOK', disp.todo = {}, disp'.todo = {}
    PROVE  IInv'
  <1>1. \A j \in Slots : Held(j)' <=> Held(j)
    BY DEF Held
  <1> QED BY <1>1 DEF IInv, Owned, Unshared, Clearing

(* The invariant is inductive.                                              *)
LEMMA NextIInv == IInv /\ [Next]_vars => IInv'
  <1> SUFFICES ASSUME IInv, [Next]_vars PROVE IInv'
    OBVIOUS
  <1>0. TypeOK
    BY DEF IInv
  <1>1. ASSUME NEW p \in Pkts, RouteInfo(p) PROVE IInv'
    BY <1>1, RouteInfoStep
  <1>2. ASSUME NEW p \in Pkts, Transmit(p) PROVE IInv'
    <2>1. /\ where[p] = "ipv6" /\ where' = [where EXCEPT ![p] = "gone"]
          /\ UNCHANGED <<slots, disp>>
      BY <1>2 DEF Transmit
    <2>2. \A j \in Slots : Held(j)' <=> Held(j)
      BY <2>1 DEF Held
    <2>3. TypeOK' /\ Unshared' /\ Clearing'
      BY <2>1, <2>2 DEF IInv, TypeOK, Unshared, Clearing
    <2>4. Owned'
      BY <2>1, <2>2 DEF IInv, Owned, TypeOK, Slot, Held
    <2> QED BY <2>3, <2>4 DEF IInv
  <1>3. ASSUME NEW d \in Dsts, Dispatch(d) PROVE IInv'
    <2>1. UNCHANGED <<slots, where>> /\ disp.todo = {} /\ disp'.todo = {}
      BY <1>3 DEF Dispatch, Dispatching, Idle
    <2>2. TypeOK'
      BY <1>0, <1>3, BufferAssumption DEF Dispatch, TypeOK
    <2> QED BY <2>1, <2>2, LoopStep
  <1>4. CASE SkipSlot
    <2>1. UNCHANGED <<slots, where>> /\ disp.todo = {} /\ disp'.todo = {} /\ TypeOK'
      BY <1>0, <1>4, BufferAssumption DEF SkipSlot, Visiting, Slots, TypeOK
    <2> QED BY <2>1, LoopStep
  <1>5. CASE SendSlot
    BY <1>5, SendSlotStep
  <1>6. ASSUME NEW f \in Fields, ClearField(f) PROVE IInv'
    BY <1>6, ClearFieldStep
  <1>7. CASE DispatchEnd
    <2>1. disp.todo = {}
      BY <1>0, <1>7, BufferAssumption DEF DispatchEnd, IInv, Clearing, Slots, TypeOK
    <2>2. UNCHANGED <<slots, where>> /\ disp'.todo = {} /\ TypeOK'
      BY <1>0, <1>7, BufferAssumption DEF DispatchEnd, Idle, TypeOK
    <2> QED BY <2>1, <2>2, LoopStep
  <1>8. CASE UNCHANGED vars
    BY <1>8 DEF vars, IInv, TypeOK, Owned, Unshared, Clearing, Held
  <1> QED BY <1>1, <1>2, <1>3, <1>4, <1>5, <1>6, <1>7, <1>8 DEF Next, DispatchStep

(* The types of slots, owners and the loop's position, at all times.        *)
THEOREM TypeCorrect == Spec => []TypeOK
  <1>1. IInv => TypeOK
    BY DEF IInv
  <1> QED BY <1>1, InitIInv, NextIInv, PTL DEF Spec

(* Whatever the IPv6 thread adds between the assignments of _pkt_del, in    *)
(* whatever order the compiler made them, aodvv2_buffer_dispatch hands over *)
(* only references the buffer owns.                                         *)
THEOREM DispatchHandsOverOwned == Spec => []HandsOverOwnedOnly
  <1>1. IInv => HandsOverOwnedOnly
    BY DEF IInv, HandsOverOwnedOnly, Visiting, Owned, Held
  <1> QED BY <1>1, InitIInv, NextIInv, PTL DEF Spec
=============================================================================
