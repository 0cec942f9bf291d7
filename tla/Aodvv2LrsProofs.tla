--------------------------- MODULE Aodvv2LrsProofs ---------------------------
(***************************************************************************)
(* Proofs about the Local Route Set, for every size of the table, every    *)
(* choice of the intervals and every set of messages.                      *)
(***************************************************************************)
EXTENDS Aodvv2Lrs, FiniteSetTheorems, WellFoundedInduction, TLAPS

(* What Min returns: the first slot of a loop.                              *)
LEMMA MinInSet ==
    ASSUME NEW S, S \subseteq Nat, S # {}
    PROVE  Min(S) \in S /\ \A y \in S : Min(S) <= y
  <1> DEFINE Less == {p \in Nat \X Nat : p[1] < p[2]}
  <1>1. IsWellFoundedOn(Less, Nat)
    <2>1. Less = OpToRel(<, Nat)
      BY Zenon DEF OpToRel
    <2> QED BY <2>1, NatLessThanWellFounded, Zenon
  <1>2. \A x, y \in Nat : <<y, x>> \in Less <=> y < x
    OBVIOUS
  <1> HIDE DEF Less
  <1>3. \E x \in S : \A y \in S : ~(<<y, x>> \in Less)
    BY <1>1, WFMin, Zenon
  <1>4. PICK x \in S : \A y \in S : ~(y < x)
    BY <1>2, <1>3, Zenon
  <1>5. \A y \in S : x <= y
    BY <1>4
  <1> QED BY <1>5 DEF Min

(* What _reset_entry_if_stale does to a route: it leaves it, marks it Idle  *)
(* or Expired with the current time, or clears it.  The conditions of each  *)
(* are what the invariants of the table need.                               *)
LEMMA ResetCases ==
    ASSUME NEW r \in Route, NEW n \in Nat
    PROVE  \/ Reset(r, n) = r
           \/ /\ Reset(r, n) = NoRoute
              /\ n >= r.expiration
              /\ n - r.lastUsed >= MaxSeqnumLifetime
           \/ /\ Reset(r, n) = Marked(r, "IDLE", n)
              /\ r.state = "ACTIVE"
              /\ n > r.lastUsed + ActiveInterval
           \/ /\ Reset(r, n) = Marked(r, "EXPIRED", n)
              /\ n >= r.expiration
  <1> USE LrsAssumption DEF Route
  <1>1. CASE r.expiration = 0 \/ n < ActiveInterval
    BY <1>1 DEF Reset
  <1>2. CASE ~(r.expiration = 0 \/ n < ActiveInterval)
    BY <1>2 DEF Reset, Idled
  <1> QED BY <1>1, <1>2

(* The contents of a cleared slot are well typed and lead nowhere.          *)
LEMMA NoRouteType == NoRoute \in Route /\ ~Live(NoRoute)
  BY LrsAssumption, SeqMaxAssumption
  DEF NoRoute, Route, Live, SeqNum, MetricValue, RouteState

(* A route that _reset_entry_if_stale marks stays a well-typed route.       *)
LEMMA MarkedType ==
    ASSUME NEW r \in Route, NEW s \in RouteState, NEW n \in Nat
    PROVE  /\ Marked(r, s, n) \in Route
           /\ Marked(r, s, n).addr = r.addr
           /\ Marked(r, s, n).type = r.type
           /\ Marked(r, s, n).expiration = r.expiration
           /\ Marked(r, s, n).lastUsed = n
           /\ Marked(r, s, n).state = s
  <1>1. /\ [r EXCEPT !.state = s] \in Route
        /\ [r EXCEPT !.state = s].addr = r.addr
        /\ [r EXCEPT !.state = s].type = r.type
        /\ [r EXCEPT !.state = s].expiration = r.expiration
        /\ [r EXCEPT !.state = s].state = s
    BY DEF Route
  <1> DEFINE q == [r EXCEPT !.state = s]
  <1>2. Marked(r, s, n) = [q EXCEPT !.lastUsed = n]
    BY Zenon DEF Marked
  <1> HIDE DEF q
  <1>3. ASSUME NEW p \in Route
        PROVE  /\ [p EXCEPT !.lastUsed = n] \in Route
               /\ [p EXCEPT !.lastUsed = n].addr = p.addr
               /\ [p EXCEPT !.lastUsed = n].type = p.type
               /\ [p EXCEPT !.lastUsed = n].expiration = p.expiration
               /\ [p EXCEPT !.lastUsed = n].lastUsed = n
               /\ [p EXCEPT !.lastUsed = n].state = p.state
    BY DEF Route
  <1> QED BY <1>1, <1>2, <1>3, Zenon DEF q

(* A refreshed route is a route, and it is cleared or leads where it led.   *)
LEMMA ResetKeepsKey ==
    ASSUME NEW r \in Route, NEW n \in Nat
    PROVE  /\ Reset(r, n) \in Route
           /\ \/ Reset(r, n) = NoRoute
              \/ Reset(r, n).addr = r.addr /\ Reset(r, n).type = r.type
  <1>1. "IDLE" \in RouteState /\ "EXPIRED" \in RouteState
    BY DEF RouteState
  <1>2. /\ Marked(r, "IDLE", n) \in Route
        /\ Marked(r, "IDLE", n).addr = r.addr
        /\ Marked(r, "IDLE", n).type = r.type
    BY <1>1, MarkedType
  <1>3. /\ Marked(r, "EXPIRED", n) \in Route
        /\ Marked(r, "EXPIRED", n).addr = r.addr
        /\ Marked(r, "EXPIRED", n).type = r.type
    BY <1>1, MarkedType
  <1> QED BY <1>2, <1>3, ResetCases, NoRouteType, Zenon

(* Refreshing a route whose times agree with its state leaves one whose     *)
(* times agree, or none.                                                    *)
LEMMA ResetTimers ==
    ASSUME NEW r \in Route, NEW n \in Nat, TimersAgree(r, n), Live(Reset(r, n))
    PROVE  TimersAgree(Reset(r, n), n)
  <1> USE LrsAssumption DEF Validity
  <1>1. CASE Reset(r, n) = r
    BY <1>1
  <1>2. CASE Reset(r, n) = NoRoute
    BY <1>2, NoRouteType
  <1>3. CASE /\ Reset(r, n) = Marked(r, "IDLE", n)
             /\ r.state = "ACTIVE"
             /\ n > r.lastUsed + ActiveInterval
    <2> DEFINE q == Marked(r, "IDLE", n)
    <2>1. "IDLE" \in RouteState
      BY DEF RouteState
    <2>2. q.expiration = r.expiration /\ q.lastUsed = n /\ q.state = "IDLE"
      BY <2>1, MarkedType
    <2> HIDE DEF q
    <2>3. TimersAgree(q, n)
      BY <1>3, <2>2 DEF TimersAgree, Route
    <2> QED BY <1>3, <2>3 DEF q
  <1>4. CASE /\ Reset(r, n) = Marked(r, "EXPIRED", n)
             /\ n >= r.expiration
    <2> DEFINE q == Marked(r, "EXPIRED", n)
    <2>1. "EXPIRED" \in RouteState
      BY DEF RouteState
    <2>2. q.expiration = r.expiration /\ q.lastUsed = n /\ q.state = "EXPIRED"
      BY <2>1, MarkedType
    <2> HIDE DEF q
    <2>3. TimersAgree(q, n)
      BY <1>4, <2>2 DEF TimersAgree, Route
    <2> QED BY <1>4, <2>3 DEF q
  <1> QED BY <1>1, <1>2, <1>3, <1>4, ResetCases, Zenon
-----------------------------------------------------------------------------
(* The invariant of the table, for a table t at time n: it is well typed,   *)
(* live routes sit in used slots, destinations are unique and the times of  *)
(* every route agree with its state.                                        *)
Good(t, n) ==
    /\ t \in Table
    /\ \A i \in Slots : Live(t[i].route) => t[i].used
    /\ \A i, j \in Slots :
          ( /\ Live(t[i].route)
            /\ t[i].route.addr = t[j].route.addr
            /\ t[i].route.type = t[j].route.type ) => i = j
    /\ \A i \in Slots : Live(t[i].route) => TimersAgree(t[i].route, n)

(* Any mixture of refreshed and untouched slots keeps the invariant: this   *)
(* is what a loop that stops early leaves behind.                           *)
LEMMA PartialRefreshGood ==
    ASSUME NEW t, NEW n \in Nat, Good(t, n), NEW u,
           u = [i \in Slots |-> u[i]],
           \A i \in Slots : u[i] = t[i] \/ u[i] = Refreshed(t, n)[i]
    PROVE  Good(u, n)
  <1>1. ASSUME NEW i \in Slots
        PROVE  /\ t[i] \in [route : Route, used : BOOLEAN]
               /\ t[i].route \in Route
               /\ t[i].used \in BOOLEAN
    BY DEF Good, Table
  <1>2. ASSUME NEW i \in Slots
        PROVE  /\ Refreshed(t, n)[i] \in [route : Route, used : BOOLEAN]
               /\ Refreshed(t, n)[i].route = Reset(t[i].route, n)
               /\ Refreshed(t, n)[i].used = t[i].used
    BY <1>1, ResetKeepsKey DEF Refreshed
  <1>3. ASSUME NEW i \in Slots, Live(u[i].route)
        PROVE  /\ Live(t[i].route)
               /\ u[i].route.addr = t[i].route.addr
               /\ u[i].route.type = t[i].route.type
               /\ u[i].used = t[i].used
               /\ TimersAgree(u[i].route, n)
    <2>1. CASE u[i] = t[i]
      BY <1>3, <2>1 DEF Good
    <2>2. CASE u[i] = Refreshed(t, n)[i]
      <3>1. u[i].route = Reset(t[i].route, n) /\ u[i].used = t[i].used
        BY <1>2, <2>2
      <3>2. u[i].route.addr = t[i].route.addr /\ u[i].route.type = t[i].route.type
        BY <1>1, <1>3, <3>1, ResetKeepsKey, NoRouteType
      <3>3. Live(t[i].route)
        BY <1>3, <3>2 DEF Live
      <3>4. TimersAgree(u[i].route, n)
        BY <1>1, <1>3, <3>1, <3>3, ResetTimers DEF Good
      <3> QED BY <3>1, <3>2, <3>3, <3>4
    <2> QED BY <2>1, <2>2
  <1>4. u \in Table
    BY <1>1, <1>2 DEF Table
  <1>5. \A i \in Slots : Live(u[i].route) => u[i].used
    BY <1>3 DEF Good
  <1>6. ASSUME NEW i \in Slots, NEW j \in Slots, Live(u[i].route),
               u[i].route.addr = u[j].route.addr, u[i].route.type = u[j].route.type
        PROVE  i = j
    <2>1. Live(u[j].route)
      BY <1>6 DEF Live
    <2>2. /\ Live(t[i].route)
          /\ t[i].route.addr = t[j].route.addr
          /\ t[i].route.type = t[j].route.type
      BY <1>3, <1>6, <2>1
    <2> QED BY <2>2 DEF Good
  <1>7. \A i \in Slots : Live(u[i].route) => TimersAgree(u[i].route, n)
    BY <1>3
  <1> QED BY <1>4, <1>5, <1>6, <1>7 DEF Good

(* aodvv2_lrs_get_entry: the slot it returns leads to the address; when it  *)
(* returns none, no slot does; and the table it leaves is good.             *)
LEMMA Lookup ==
    ASSUME NEW t, NEW n \in Nat, Good(t, n), NEW a, NEW ty
    PROVE  /\ Good(Scanned(t, a, ty, n), n)
           /\ Find(t, a, ty, n) \in Slots \union {0}
           /\ Find(t, a, ty, n) = 0 => Hits(Scanned(t, a, ty, n), a, ty) = {}
           /\ Find(t, a, ty, n) # 0 =>
                 Find(t, a, ty, n) \in Hits(Scanned(t, a, ty, n), a, ty)
  <1> DEFINE f == Refreshed(t, n)
             h == Hits(f, a, ty)
             u == Scanned(t, a, ty, n)
  <1>1. h \subseteq Slots /\ Slots \subseteq Nat \ {0}
    BY LrsAssumption DEF Hits, Slots
  <1>2. CASE h = {}
    <2>1. Find(t, a, ty, n) = 0
      BY <1>2 DEF Find
    <2>2. u = [i \in Slots |-> f[i]]
      BY <2>1 DEF Scanned
    <2>3. Good(u, n)
      BY <2>2, PartialRefreshGood
    <2>4. Hits(u, a, ty) = {}
      BY <1>2, <2>2 DEF Hits
    <2> QED BY <2>1, <2>3, <2>4
  <1>3. CASE h # {}
    <2>1. /\ Find(t, a, ty, n) = Min(h)
          /\ Min(h) \in h
      BY <1>1, <1>3, MinInSet DEF Find
    <2>2. u = [i \in Slots |-> IF i <= Min(h) THEN f[i] ELSE t[i]]
      BY <1>1, <2>1 DEF Scanned
    <2>3. Good(u, n)
      <3>1. \A i \in Slots : u[i] = t[i] \/ u[i] = f[i]
        BY <2>2
      <3>2. u = [i \in Slots |-> u[i]]
        BY <2>2
      <3> HIDE DEF u, f
      <3> QED BY <3>1, <3>2, PartialRefreshGood DEF f
    <2>4. u[Min(h)] = f[Min(h)]
      <3> HIDE DEF u, f, h
      <3>1. Min(h) \in Slots
        BY <1>1, <2>1
      <3>2. Min(h) <= Min(h)
        <4>1. Min(h) \in Nat
          BY <1>1, <3>1
        <4> QED BY <4>1
      <3> QED BY <2>2, <3>1, <3>2
    <2>5. Min(h) \in Hits(u, a, ty)
      BY <2>1, <2>4 DEF Hits
    <2> QED BY <1>1, <2>1, <2>3, <2>5
  <1> QED BY <1>2, <1>3

(* Storing a live route in a used slot keeps the invariant when no other    *)
(* slot leads to its destination.                                           *)
LEMMA StoreGood ==
    ASSUME NEW t, NEW n \in Nat, Good(t, n),
           NEW r \in Route, Live(r), TimersAgree(r, n), NEW s \in Slots,
           \A j \in Hits(t, r.addr, r.type) : j = s
    PROVE  Good([t EXCEPT ![s] = [route |-> r, used |-> TRUE]], n)
  BY DEF Good, Table, Hits

(* Clearing a slot keeps the invariant.                                     *)
LEMMA ClearGood ==
    ASSUME NEW t, NEW n \in Nat, Good(t, n), NEW s \in Slots
    PROVE  Good([t EXCEPT ![s] = [route |-> NoRoute, used |-> FALSE]], n)
  BY NoRouteType DEF Good, Table, Live
-----------------------------------------------------------------------------
(* The route a message installs is live and its times agree.                *)
LEMMA FilledRoute ==
    ASSUME NEW node \in Nodes, NEW n \in Nat
    PROVE  LET r == FillRoutingEntry(node, LinkCost(node.type), n)
           IN  /\ r \in Route /\ Live(r) /\ TimersAgree(r, n)
               /\ r.addr = node.addr /\ r.type = node.type
  <1> DEFINE r == FillRoutingEntry(node, LinkCost(node.type), n)
  <1>1. /\ node \in NodeData
        /\ node.addr # Unspecified
        /\ LinkCost(node.type) \in Nat
    BY NodesAssumption DEF LinkCost
  <1>2. (node.metric + LinkCost(node.type)) % 256 \in MetricValue
    <2>1. node.metric + LinkCost(node.type) \in Nat
      BY <1>1 DEF NodeData, MetricValue
    <2>2. \A x \in Nat : x % 256 \in 0..255
      OBVIOUS
    <2> QED BY <2>1, <2>2 DEF MetricValue
  <1>3. n + Validity \in Nat
    BY LrsAssumption DEF Validity
  <1>4. r \in Route
    BY <1>1, <1>2, <1>3 DEF FillRoutingEntry, Route, NodeData, RouteState
  <1>5. r.addr = node.addr /\ r.type = node.type
    BY DEF FillRoutingEntry
  <1>6. TimersAgree(r, n)
    BY <1>3, LrsAssumption DEF FillRoutingEntry, TimersAgree, Validity
  <1> QED BY <1>1, <1>4, <1>5, <1>6 DEF Live

(* aodvv2_lrs_add_entry keeps the invariant: it stores the route only after *)
(* a scan that found no other route to the destination.                     *)
LEMMA AddGood ==
    ASSUME NEW t, NEW n \in Nat, Good(t, n),
           NEW r \in Route, Live(r), TimersAgree(r, n)
    PROVE  Good(AddEntry(t, r, n), n)
  <1> DEFINE u == Scanned(t, r.addr, r.type, n)
  <1>1. Good(u, n)
    BY Lookup
  <1>2. CASE Find(t, r.addr, r.type, n) # 0 \/ Free(u) = {}
    BY <1>1, <1>2 DEF AddEntry
  <1>3. CASE Find(t, r.addr, r.type, n) = 0 /\ Free(u) # {}
    <2>1. Hits(u, r.addr, r.type) = {}
      BY <1>3, Lookup
    <2>2. Min(Free(u)) \in Slots
      <3>1. Free(u) \subseteq Slots /\ Free(u) \subseteq Nat
        BY LrsAssumption DEF Free, Slots
      <3> QED BY <1>3, <3>1, MinInSet
    <2>3. Good([u EXCEPT ![Min(Free(u))] = [route |-> r, used |-> TRUE]], n)
      <3> HIDE DEF u
      <3> QED BY <1>1, <2>1, <2>2, StoreGood
    <2> QED BY <1>3, <2>3 DEF AddEntry
  <1> QED BY <1>2, <1>3

(* aodvv2_lrs_delete_entry keeps the invariant and leaves no route to the   *)
(* destination, because destinations are unique.                            *)
LEMMA DeleteGood ==
    ASSUME NEW t, NEW n \in Nat, Good(t, n), NEW a, NEW ty, a # Unspecified
    PROVE  /\ Good(DeleteEntry(t, a, ty, n), n)
           /\ Hits(DeleteEntry(t, a, ty, n), a, ty) = {}
  <1> DEFINE f == Refreshed(t, n)
             h == {i \in Hits(f, a, ty) : f[i].used}
             d == DeleteEntry(t, a, ty, n)
  <1>1. h \subseteq Slots /\ Slots \subseteq Nat
    BY LrsAssumption DEF Hits, Slots
  <1>2. f = [i \in Slots |-> f[i]]
    BY DEF Refreshed
  <1>3. Good(f, n)
    <2>1. \A i \in Slots : f[i] = t[i] \/ f[i] = Refreshed(t, n)[i]
      OBVIOUS
    <2> QED BY <1>2, <2>1, PartialRefreshGood
  <1>4. h = Hits(f, a, ty)
    BY <1>3 DEF Good, Hits, Live
  <1>5. CASE h = {}
    <2>1. d = f
      BY <1>5 DEF DeleteEntry
    <2> QED BY <1>3, <1>4, <1>5, <2>1
  <1>6. CASE h # {}
    <2> DEFINE m == Min(h)
               u == [i \in Slots |-> IF i <= m THEN f[i] ELSE t[i]]
    <2>1. m \in h /\ m \in Slots /\ \A i \in h : m <= i
      BY <1>1, <1>6, MinInSet
    <2>2. d = [i \in Slots |-> IF i < m THEN f[i]
                               ELSE IF i > m THEN t[i]
                               ELSE [route |-> NoRoute, used |-> FALSE]]
      BY <1>6 DEF DeleteEntry
    <2> HIDE DEF m, f, h, d
    <2>3. Good(u, n)
      <3>1. \A i \in Slots : u[i] = t[i] \/ u[i] = Refreshed(t, n)[i]
        BY DEF f
      <3>2. u = [i \in Slots |-> u[i]]
        OBVIOUS
      <3> HIDE DEF u
      <3> QED BY <3>1, <3>2, PartialRefreshGood
    <2>4. d = [u EXCEPT ![m] = [route |-> NoRoute, used |-> FALSE]]
      <3>1. ASSUME NEW i \in Slots
            PROVE  d[i] = IF i = m THEN [route |-> NoRoute, used |-> FALSE] ELSE u[i]
        <4>1. i \in Nat /\ m \in Nat
          BY <1>1, <2>1
        <4>2. CASE i < m
          BY <2>2, <4>1, <4>2
        <4>3. CASE i = m
          BY <2>2, <4>1, <4>3
        <4>4. CASE i > m
          BY <2>2, <4>1, <4>4
        <4> QED BY <4>1, <4>2, <4>3, <4>4
      <3>2. d = [i \in Slots |-> d[i]]
        BY <2>2
      <3>3. u = [i \in Slots |-> u[i]]
        OBVIOUS
      <3> HIDE DEF u
      <3> QED BY <2>1, <3>1, <3>2, <3>3
    <2>5. Good(d, n)
      <3> HIDE DEF u
      <3> QED BY <2>1, <2>3, <2>4, ClearGood
    <2>6. u[m] = f[m]
      BY <1>1, <2>1
    <2>7. m \in Hits(u, a, ty)
      BY <1>4, <2>1, <2>6 DEF Hits
    <2> HIDE DEF u
    <2>8. \A i \in Hits(u, a, ty) : i = m
      BY <2>1, <2>3, <2>7 DEF Good, Hits, Live
    <2>9. Hits(d, a, ty) \subseteq Hits(u, a, ty) \ {m}
      BY <2>1, <2>3, <2>4, NoRouteType DEF Hits, Live, Good, Table
    <2> QED BY <2>5, <2>8, <2>9 DEF d
  <1> QED BY <1>5, <1>6
-----------------------------------------------------------------------------
IInv == now \in Nat /\ Good(table, now)

(* The inductive invariant contains the three invariants the runs check.    *)
LEMMA IInvImplies == IInv => TypeOK /\ UniqueDestination /\ TimersConsistent
  BY DEF IInv, Good, TypeOK, UniqueDestination, TimersConsistent

(* The address of a key is never the unspecified one that marks free slots. *)
LEMMA KeyIsDestination ==
    ASSUME NEW key \in Keys
    PROVE  key[1] # Unspecified
  BY NodesAssumption DEF Keys

(* The table aodvv2_lrs_init leaves satisfies the inductive invariant.      *)
LEMMA InitIInv == Init => IInv
  BY NoRouteType DEF Init, IInv, Good, Table, EmptyTable

(* Every action of the AODVv2 thread, and the passing of time, keep IInv.   *)
LEMMA StepIInv == IInv /\ [Next]_vars => IInv'
  <1> SUFFICES ASSUME IInv, [Next]_vars PROVE IInv'
    OBVIOUS
  <1> USE DEF IInv
  <1>1. CASE Tick
    <2>1. now' \in Nat /\ now <= now' /\ table' = table
      BY <1>1 DEF Tick
    <2>2. \A i \in Slots : Live(table[i].route) => TimersAgree(table[i].route, now')
      <3>1. ASSUME NEW i \in Slots, Live(table[i].route)
            PROVE  TimersAgree(table[i].route, now')
        <4>1. table[i].route \in Route /\ TimersAgree(table[i].route, now)
          BY <3>1 DEF Good, Table
        <4> QED BY <2>1, <4>1 DEF TimersAgree, Route
      <3> QED BY <3>1
    <2> QED BY <2>1, <2>2 DEF Good
  <1>2. ASSUME NEW key \in Keys, GetNextHop(key) PROVE IInv'
    BY <1>2, Lookup DEF GetNextHop
  <1>3. ASSUME NEW key \in Keys, Delete(key) PROVE IInv'
    BY <1>3, DeleteGood, KeyIsDestination DEF Delete
  <1>4. ASSUME NEW node \in Nodes, NewRoute(node) PROVE IInv'
    <2> DEFINE r == FillRoutingEntry(node, LinkCost(node.type), now)
               t == Scanned(table, node.addr, node.type, now)
    <2>1. r \in Route /\ Live(r) /\ TimersAgree(r, now)
      BY FilledRoute
    <2>2. Good(t, now)
      BY Lookup
    <2>3. table' = AddEntry(t, r, now) /\ now' = now
      BY <1>4 DEF NewRoute
    <2> HIDE DEF r, t
    <2>4. Good(AddEntry(t, r, now), now)
      BY <2>1, <2>2, AddGood
    <2> QED BY <2>3, <2>4
  <1>5. ASSUME NEW node \in Nodes, BetterRoute(node) PROVE IInv'
    <2> DEFINE r   == FillRoutingEntry(node, LinkCost(node.type), now)
               hit == Find(table, node.addr, node.type, now)
               t   == Scanned(table, node.addr, node.type, now)
    <2>1. /\ r \in Route /\ Live(r) /\ TimersAgree(r, now)
          /\ r.addr = node.addr /\ r.type = node.type
      BY FilledRoute
    <2>2. /\ Good(t, now)
          /\ hit # 0
          /\ hit \in Slots
          /\ hit \in Hits(t, node.addr, node.type)
      BY <1>5, Lookup DEF BetterRoute
    <2>3. table' = [t EXCEPT ![hit] = [route |-> r, used |-> t[hit].used]] /\ now' = now
      BY <1>5 DEF BetterRoute
    <2> HIDE DEF r, hit, t
    <2>4. Live(t[hit].route) /\ t[hit].used
      BY <2>1, <2>2 DEF Hits, Live, Good
    <2>5. \A j \in Hits(t, r.addr, r.type) : j = hit
      BY <2>1, <2>2, <2>4 DEF Hits, Good
    <2>6. Good([t EXCEPT ![hit] = [route |-> r, used |-> TRUE]], now)
      BY <2>1, <2>2, <2>5, StoreGood
    <2>7. t[hit].used = TRUE
      BY <2>2, <2>4 DEF Good, Table
    <2> QED BY <2>3, <2>6, <2>7
  <1>6. ASSUME NEW node \in Nodes, NoImprovement(node) PROVE IInv'
    BY <1>6, Lookup DEF NoImprovement
  <1>7. CASE UNCHANGED vars
    BY <1>7 DEF vars
  <1> QED BY <1>1, <1>2, <1>3, <1>4, <1>5, <1>6, <1>7 DEF Next

(* IInv, the conjunction of all the invariants of the table, always holds.  *)
THEOREM Invariance == Spec => []IInv
  BY InitIInv, StepIInv, PTL DEF Spec

(* The table stays well typed, and live routes only sit in used slots.      *)
THEOREM TypeCorrect == Spec => []TypeOK
  BY Invariance, IInvImplies, PTL

(* No destination ever has two routes in the Local Route Set.               *)
THEOREM DestinationsUnique == Spec => []UniqueDestination
  BY Invariance, IInvImplies, PTL

(* The times stored in a route always agree with its state.                 *)
THEOREM TimersAlwaysConsistent == Spec => []TimersConsistent
  BY Invariance, IInvImplies, PTL

(* Deleting a destination removes every trace of it from the table.         *)
THEOREM DeletionForgets == Spec => DeleteForgets
  <1>1. ASSUME IInv, NEW key \in Keys, Delete(key)
        PROVE  Hits(table', key[1], key[2]) = {}
    BY <1>1, DeleteGood, KeyIsDestination DEF Delete, IInv
  <1>2. IInv => \A key \in Keys : Delete(key) => Hits(table', key[1], key[2]) = {}
    BY <1>1
  <1> QED BY <1>2, Invariance, PTL DEF DeleteForgets
-----------------------------------------------------------------------------
(* A route old enough to be forgotten.                                      *)
Forgettable(r, n) ==
    n >= r.expiration /\ n >= r.expiration - Validity + MaxSeqnumLifetime

(* A refresh forgets only routes that are old enough, and never moves the   *)
(* expiration of the others.                                                *)
LEMMA ResetForgets ==
    ASSUME NEW r \in Route, NEW n \in Nat, Live(r), TimersAgree(r, n)
    PROVE  \/ Live(Reset(r, n)) /\ Reset(r, n).expiration = r.expiration
           \/ Forgettable(r, n)
  <1>1. CASE Reset(r, n) = r
    BY <1>1
  <1>2. CASE /\ Reset(r, n) = NoRoute
             /\ n >= r.expiration
             /\ n - r.lastUsed >= MaxSeqnumLifetime
    BY <1>2, LrsAssumption DEF Forgettable, TimersAgree, Route, Validity
  <1>3. CASE Reset(r, n) = Marked(r, "IDLE", n)
    <2>1. "IDLE" \in RouteState
      BY DEF RouteState
    <2> QED BY <1>3, <2>1, MarkedType DEF Live
  <1>4. CASE Reset(r, n) = Marked(r, "EXPIRED", n)
    <2>1. "EXPIRED" \in RouteState
      BY DEF RouteState
    <2> QED BY <1>4, <2>1, MarkedType DEF Live
  <1> QED BY <1>1, <1>2, <1>3, <1>4, ResetCases

(* So does a lookup.                                                        *)
LEMMA ScanForgets ==
    ASSUME NEW t, NEW n \in Nat, Good(t, n), NEW a, NEW ty,
           NEW i \in Slots, Live(t[i].route)
    PROVE  \/ /\ Live(Scanned(t, a, ty, n)[i].route)
              /\ Scanned(t, a, ty, n)[i].route.expiration = t[i].route.expiration
           \/ Forgettable(t[i].route, n)
  <1>1. t[i].route \in Route /\ TimersAgree(t[i].route, n)
    BY DEF Good, Table
  <1>2. \/ Scanned(t, a, ty, n)[i].route = t[i].route
        \/ Scanned(t, a, ty, n)[i].route = Reset(t[i].route, n)
    BY DEF Scanned, Refreshed
  <1> QED BY <1>1, <1>2, ResetForgets

(* And so does adding a route: it is stored in a slot that held none.       *)
LEMMA AddForgets ==
    ASSUME NEW t, NEW n \in Nat, Good(t, n), NEW r, Live(r),
           NEW i \in Slots, Live(t[i].route)
    PROVE  Live(AddEntry(t, r, n)[i].route) \/ Forgettable(t[i].route, n)
  <1> DEFINE u == Scanned(t, r.addr, r.type, n)
  <1>1. u \in Table
    BY Lookup DEF Good
  <1>2. Live(u[i].route) \/ Forgettable(t[i].route, n)
    BY ScanForgets
  <1>3. ASSUME Live(u[i].route) PROVE Live(AddEntry(t, r, n)[i].route)
    <2>1. \/ AddEntry(t, r, n) = u
          \/ AddEntry(t, r, n) = [u EXCEPT ![Min(Free(u))] = [route |-> r, used |-> TRUE]]
      BY DEF AddEntry
    <2> HIDE DEF u
    <2>2. CASE AddEntry(t, r, n) = u
      BY <1>3, <2>2
    <2>3. CASE AddEntry(t, r, n) = [u EXCEPT ![Min(Free(u))] = [route |-> r, used |-> TRUE]]
      BY <1>1, <1>3, <2>3 DEF Table
    <2> QED BY <2>1, <2>2, <2>3
  <1> QED BY <1>2, <1>3

(* A deletion forgets its destination, whose slot it gives back, and routes *)
(* that are old enough.                                                     *)
LEMMA DeleteForgetsOne ==
    ASSUME NEW t, NEW n \in Nat, Good(t, n), NEW a, NEW ty, a # Unspecified,
           NEW i \in Slots, Live(t[i].route), ~Live(DeleteEntry(t, a, ty, n)[i].route)
    PROVE  \/ /\ t[i].route.addr = a /\ t[i].route.type = ty
              /\ ~DeleteEntry(t, a, ty, n)[i].used
           \/ Forgettable(t[i].route, n)
  <1> DEFINE f == Refreshed(t, n)
             h == {j \in Hits(f, a, ty) : f[j].used}
             d == DeleteEntry(t, a, ty, n)
  <1>1. t[i].route \in Route /\ TimersAgree(t[i].route, n)
    BY DEF Good, Table
  <1>2. f[i].route = Reset(t[i].route, n)
    BY DEF Refreshed
  <1>3. h \subseteq Slots /\ Slots \subseteq Nat
    BY LrsAssumption DEF Hits, Slots
  <1>4. CASE d[i] = f[i]
    BY <1>1, <1>2, <1>4, ResetForgets
  <1>5. CASE d[i] = t[i]
    BY <1>5
  <1>6. CASE h # {} /\ i = Min(h)
    <2>1. i \in h
      BY <1>3, <1>6, MinInSet
    <2>2. f[i].route.addr = a /\ f[i].route.type = ty
      BY <2>1 DEF Hits
    <2>3. ~d[i].used
      <3>1. Min(h) \in Nat
        BY <1>3, <1>6, MinInSet
      <3> QED BY <1>6, <3>1 DEF DeleteEntry
    <2> QED BY <1>1, <1>2, <2>2, <2>3, ResetKeepsKey, NoRouteType DEF Live
  <1>7. d[i] = f[i] \/ d[i] = t[i] \/ (h # {} /\ i = Min(h))
    <2>1. CASE h = {}
      BY <2>1 DEF DeleteEntry
    <2>2. CASE h # {}
      <3>1. Min(h) \in Nat /\ i \in Nat
        BY <1>3, <2>2, MinInSet
      <3> QED BY <2>2, <3>1 DEF DeleteEntry
    <2> QED BY <2>1, <2>2
  <1> QED BY <1>4, <1>5, <1>6, <1>7

(* Sequence-number information outlives MaxSeqnumLifetime: the order in     *)
(* which lookups, additions, updates and time interleave never loses a      *)
(* route earlier.                                                           *)
THEOREM SeqnumsRemembered == Spec => SeqnumRemembered
  <1> DEFINE Kept ==
        \A i \in Slots :
          LET r == table[i].route
              installed == r.expiration - Validity
          IN  (Live(r) /\ ~Live(table'[i].route)) =>
                \/ Delete(<<r.addr, r.type>>) /\ ~table'[i].used
                \/ /\ now >= r.expiration
                   /\ now >= installed + MaxSeqnumLifetime
  <1>1. IInv /\ [Next]_vars => [Kept]_vars
    <2> SUFFICES ASSUME IInv, Next, NEW i \in Slots,
                        Live(table[i].route), ~Live(table'[i].route)
                 PROVE  \/ /\ Delete(<<table[i].route.addr, table[i].route.type>>)
                           /\ ~table'[i].used
                        \/ Forgettable(table[i].route, now)
      BY DEF Forgettable
    <2> USE DEF IInv
    <2>1. CASE Tick
      BY <2>1 DEF Tick
    <2>2. ASSUME NEW key \in Keys, GetNextHop(key)
          PROVE  Forgettable(table[i].route, now)
      BY <2>2, ScanForgets DEF GetNextHop
    <2>3. ASSUME NEW key \in Keys, Delete(key)
          PROVE  \/ /\ Delete(<<table[i].route.addr, table[i].route.type>>)
                    /\ ~table'[i].used
                 \/ Forgettable(table[i].route, now)
      <3>1. \/ table[i].route.addr = key[1] /\ table[i].route.type = key[2] /\ ~table'[i].used
            \/ Forgettable(table[i].route, now)
        BY <2>3, KeyIsDestination, DeleteForgetsOne DEF Delete
      <3> QED BY <2>3, <3>1 DEF Delete
    <2>4. ASSUME NEW node \in Nodes, NewRoute(node)
          PROVE  Forgettable(table[i].route, now)
      <3> DEFINE r == FillRoutingEntry(node, LinkCost(node.type), now)
                 t == Scanned(table, node.addr, node.type, now)
      <3>1. Live(r)
        BY FilledRoute
      <3>2. Good(t, now)
        BY Lookup
      <3>3. table' = AddEntry(t, r, now)
        BY <2>4 DEF NewRoute
      <3>4. \/ Live(t[i].route) /\ t[i].route.expiration = table[i].route.expiration
            \/ Forgettable(table[i].route, now)
        BY ScanForgets
      <3> HIDE DEF r, t
      <3>5. Live(t[i].route) => Forgettable(t[i].route, now)
        BY <3>1, <3>2, <3>3, AddForgets
      <3> QED BY <3>4, <3>5 DEF Forgettable
    <2>5. ASSUME NEW node \in Nodes, BetterRoute(node)
          PROVE  Forgettable(table[i].route, now)
      <3> DEFINE r   == FillRoutingEntry(node, LinkCost(node.type), now)
                 hit == Find(table, node.addr, node.type, now)
                 t   == Scanned(table, node.addr, node.type, now)
      <3>1. Live(r)
        BY FilledRoute
      <3>2. t \in Table
        BY Lookup DEF Good
      <3>3. table' = [t EXCEPT ![hit] = [route |-> r, used |-> t[hit].used]]
        BY <2>5 DEF BetterRoute
      <3>4. Live(t[i].route) \/ Forgettable(table[i].route, now)
        BY ScanForgets
      <3> HIDE DEF r, hit, t
      <3>5. ~Live(t[i].route)
        BY <3>1, <3>2, <3>3 DEF Table
      <3> QED BY <3>4, <3>5
    <2>6. ASSUME NEW node \in Nodes, NoImprovement(node)
          PROVE  Forgettable(table[i].route, now)
      BY <2>6, ScanForgets DEF NoImprovement
    <2> QED BY <2>1, <2>2, <2>3, <2>4, <2>5, <2>6 DEF Next
  <1> QED BY <1>1, Invariance, PTL DEF Spec, SeqnumRemembered
-----------------------------------------------------------------------------
(* Marking a route changes nothing other modules use of it.                 *)
LEMMA MarkedContent ==
    ASSUME NEW r \in Route, NEW s \in RouteState, NEW n \in Nat
    PROVE  Content(Marked(r, s, n)) = Content(r)
  <1>1. ASSUME NEW q \in Route
        PROVE  /\ [q EXCEPT !.state = s] \in Route
               /\ Content([q EXCEPT !.state = s]) = Content(q)
    BY <1>1 DEF Route, Content
  <1>2. ASSUME NEW q \in Route
        PROVE  Content([q EXCEPT !.lastUsed = n]) = Content(q)
    BY <1>2 DEF Route, Content
  <1> DEFINE q == [r EXCEPT !.state = s]
  <1>3. Marked(r, s, n) = [q EXCEPT !.lastUsed = n]
    BY Zenon DEF Marked
  <1>4. q \in Route /\ Content(q) = Content(r)
    BY <1>1
  <1> HIDE DEF q
  <1> QED BY <1>2, <1>3, <1>4, Zenon

(* A refreshed route is forgotten or says what it said.                     *)
LEMMA ResetContent ==
    ASSUME NEW r \in Route, NEW n \in Nat, Live(Reset(r, n))
    PROVE  Live(r) /\ Content(Reset(r, n)) = Content(r)
  <1>1. "IDLE" \in RouteState /\ "EXPIRED" \in RouteState
    BY DEF RouteState
  <1>2. Reset(r, n) # NoRoute
    BY NoRouteType
  <1>3. Content(Reset(r, n)) = Content(r)
    <2>1. /\ Content(Marked(r, "IDLE", n)) = Content(r)
          /\ Content(Marked(r, "EXPIRED", n)) = Content(r)
      BY <1>1, MarkedContent
    <2>2. \/ Reset(r, n) = r \/ Reset(r, n) = Marked(r, "IDLE", n)
          \/ Reset(r, n) = Marked(r, "EXPIRED", n)
      BY <1>2, ResetCases, Zenon
    <2> QED BY <2>1, <2>2, Zenon
  <1>4. Reset(r, n).addr = r.addr
    BY <1>2, ResetKeepsKey, Zenon
  <1> QED BY <1>3, <1>4, Zenon DEF Live

(* Table u is table t with some routes forgotten and all slots kept.        *)
Aged(t, u) ==
    \A i \in Slots : /\ u[i].used = t[i].used
                     /\ Live(u[i].route) => /\ Live(t[i].route)
                                            /\ Content(u[i].route) = Content(t[i].route)

LEMMA AgedTransitive ==
    ASSUME NEW t, NEW u, NEW v, Aged(t, u), Aged(u, v)
    PROVE  Aged(t, v)
  BY Zenon DEF Aged

(* Any mixture of refreshed and untouched slots has aged.                   *)
LEMMA RefreshAges ==
    ASSUME NEW t \in Table, NEW n \in Nat, NEW i \in Slots, NEW e,
           e = t[i] \/ e = Refreshed(t, n)[i]
    PROVE  /\ e.used = t[i].used
           /\ Live(e.route) => Live(t[i].route) /\ Content(e.route) = Content(t[i].route)
  <1>1. t[i].route \in Route
    BY DEF Table
  <1>2. Refreshed(t, n)[i].used = t[i].used /\ Refreshed(t, n)[i].route = Reset(t[i].route, n)
    BY DEF Refreshed
  <1> QED BY <1>1, <1>2, ResetContent, Zenon

LEMMA ScanAges ==
    ASSUME NEW t, NEW n \in Nat, Good(t, n), NEW a, NEW ty
    PROVE  Aged(t, Scanned(t, a, ty, n))
  <1>1. t \in Table
    BY DEF Good
  <1>2. ASSUME NEW i \in Slots
        PROVE  \/ Scanned(t, a, ty, n)[i] = t[i]
               \/ Scanned(t, a, ty, n)[i] = Refreshed(t, n)[i]
    BY DEF Scanned
  <1> QED BY <1>1, <1>2, RefreshAges, Zenon DEF Aged

(* An aged table holds some of the routes, and has as many free slots.      *)
LEMMA AgedRoutes ==
    ASSUME NEW t, NEW u, Aged(t, u)
    PROVE  Routes(u) \subseteq Routes(t) /\ Free(u) = Free(t)
  BY DEF Aged, Routes, Free

(* In w, route r is the only one to its destination; it took slot s, and    *)
(* the others are those of u.                                               *)
Stored(w, u, s, r) ==
    /\ Content(r) \in Routes(w)
    /\ \A q \in Routes(w) \ {Content(r)} :
          q \in Routes(u) /\ ~(q.addr = r.addr /\ q.type = r.type)
    /\ Free(w) = Free(u) \ {s}

LEMMA StoreInstalls ==
    ASSUME NEW u, NEW n, NEW s \in Slots, NEW r, Live(r), NEW w, Good(w, n),
           w[s] = [route |-> r, used |-> TRUE], \A i \in Slots : i # s => w[i] = u[i]
    PROVE  Stored(w, u, s, r)
  <1>1. \A i \in Slots : w[i] = IF i = s THEN [route |-> r, used |-> TRUE] ELSE u[i]
    OBVIOUS
  <1>2. Content(r) \in Routes(w)
    BY <1>1 DEF Routes
  <1>3. ASSUME NEW q \in Routes(w) \ {Content(r)}
        PROVE  q \in Routes(u) /\ ~(q.addr = r.addr /\ q.type = r.type)
    <2>1. PICK i \in Slots : q = Content(w[i].route) /\ Live(w[i].route)
      BY DEF Routes
    <2>2. i # s /\ w[i] = u[i]
      BY <1>1, <1>3, <2>1
    <2>3. q \in Routes(u)
      BY <2>1, <2>2 DEF Routes
    <2>4. w[s].route = r
      BY <1>1
    <2>5. q.addr = w[i].route.addr /\ q.type = w[i].route.type
      BY <2>1 DEF Content
    <2>6. ~(q.addr = r.addr /\ q.type = r.type)
      BY <2>1, <2>2, <2>4, <2>5 DEF Good
    <2> QED BY <2>3, <2>6
  <1>4. Free(w) = Free(u) \ {s}
    BY <1>1 DEF Free
  <1> QED BY <1>2, <1>3, <1>4 DEF Stored

(* Slots are finite, and a slot more or less is one place more or less.     *)
LEMMA FreeCount ==
    ASSUME NEW t, NEW s \in Slots
    PROVE  /\ Cardinality(Free(t)) \in Nat
           /\ s \in Free(t) => /\ Cardinality(Free(t)) > 0
                               /\ Cardinality(Free(t) \ {s}) = Cardinality(Free(t)) - 1
           /\ s \notin Free(t) => Cardinality(Free(t) \cup {s}) = Cardinality(Free(t)) + 1
  <1>1. IsFiniteSet(Slots) /\ Free(t) \subseteq Slots
    BY LrsAssumption, FS_Interval DEF Slots, Free
  <1>2. IsFiniteSet(Free(t)) /\ Cardinality(Free(t)) \in Nat
    BY <1>1, FS_Subset, FS_CardinalityType
  <1>3. ASSUME s \in Free(t)
        PROVE  /\ Cardinality(Free(t)) > 0
               /\ Cardinality(Free(t) \ {s}) = Cardinality(Free(t)) - 1
    <2>1. /\ Cardinality(Free(t) \ {s}) = Cardinality(Free(t)) - 1
          /\ IsFiniteSet(Free(t) \ {s})
      BY <1>2, <1>3, FS_RemoveElement
    <2>2. Cardinality(Free(t) \ {s}) \in Nat
      BY <2>1, FS_CardinalityType
    <2> QED BY <1>2, <2>1, <2>2
  <1>4. ASSUME s \notin Free(t)
        PROVE  Cardinality(Free(t) \cup {s}) = Cardinality(Free(t)) + 1
    BY <1>2, <1>4, FS_AddElement
  <1> QED BY <1>2, <1>3, <1>4
-----------------------------------------------------------------------------
(* A call that only ages the table.                                         *)
LEMMA AgeStep ==
    ASSUME Aged(table, table')
    PROVE  RouteSet!RouteNext
  <1>1. Routes(table)' \subseteq Routes(table) /\ Free(table)' = Free(table)
    BY AgedRoutes DEF Routes, Free
  <1> QED BY <1>1 DEF RouteSet!RouteNext, RouteSet!Age

(* A route written to slot s of a table that has aged to u is the only one  *)
(* to its destination.                                                      *)
LEMMA InstallStep ==
    ASSUME NEW n, NEW u, Good(u, n), Good(table', n), Aged(table, u),
           NEW s \in Slots, NEW r, Live(r),
           table' = [u EXCEPT ![s] = [route |-> r, used |-> TRUE]]
    PROVE  /\ RouteSet!Installed(Content(r))
           /\ Free(table)' = Free(table) \ {s}
  <1>1. /\ Content(r) \in Routes(table')
        /\ \A q \in Routes(table') \ {Content(r)} :
              q \in Routes(u) /\ ~(q.addr = r.addr /\ q.type = r.type)
        /\ Free(table') = Free(u) \ {s}
    <2>1. table'[s] = [route |-> r, used |-> TRUE] /\ \A i \in Slots : i # s => table'[i] = u[i]
      BY DEF Good, Table
    <2>2. Stored(table', u, s, r)
      BY <2>1, StoreInstalls
    <2> QED BY <2>2 DEF Stored
  <1>2. Routes(u) \subseteq Routes(table) /\ Free(u) = Free(table)
    BY AgedRoutes
  <1>3. Content(r).addr = r.addr /\ Content(r).type = r.type
    BY DEF Content
  <1>4. Routes(table)' = Routes(table') /\ Free(table)' = Free(table')
    BY DEF Routes, Free
  <1> QED BY <1>1, <1>2, <1>3, <1>4 DEF RouteSet!Installed, RouteSet!SameDestination

(* aodvv2_lrs_add_entry takes a destination in, if there is room.           *)
LEMMA NewRouteStep ==
    ASSUME IInv, IInv', NEW node \in Nodes, NewRoute(node)
    PROVE  RouteSet!RouteNext
  <1> DEFINE r == FillRoutingEntry(node, LinkCost(node.type), now)
             t == Scanned(table, node.addr, node.type, now)
             u == Scanned(t, r.addr, r.type, now)
  <1>1. Live(r)
    BY FilledRoute DEF IInv
  <1>2. Good(t, now) /\ Aged(table, t)
    BY Lookup, ScanAges DEF IInv
  <1>3. table' = AddEntry(t, r, now) /\ now' = now
    BY DEF NewRoute
  <1> HIDE DEF r, t
  <1>4. Good(u, now) /\ Aged(table, u)
    <2>1. Good(u, now) /\ Aged(t, u)
      BY <1>2, Lookup, ScanAges DEF IInv
    <2> HIDE DEF u
    <2> QED BY <1>2, <2>1, AgedTransitive
  <1>5. CASE table' = u
    BY <1>4, <1>5, AgeStep
  <1>6. CASE Free(u) # {} /\ table' = [u EXCEPT ![Min(Free(u))] = [route |-> r, used |-> TRUE]]
    <2> DEFINE s == Min(Free(u))
    <2>1. s \in Free(u) /\ s \in Slots
      <3>1. Free(u) \subseteq Slots /\ Free(u) \subseteq Nat
        BY LrsAssumption DEF Free, Slots
      <3> QED BY <1>6, <3>1, MinInSet
    <2> HIDE DEF s, u
    <2>2. RouteSet!Installed(Content(r)) /\ Free(table)' = Free(table) \ {s}
      <3>1. Good(table', now)
        BY <1>3 DEF IInv
      <3>2. table' = [u EXCEPT ![s] = [route |-> r, used |-> TRUE]]
        BY <1>6 DEF s
      <3> QED BY <1>1, <1>4, <2>1, <3>1, <3>2, InstallStep, Zenon
    <2>3. s \in Free(table)
      BY <1>4, <2>1, AgedRoutes
    <2>4. Cardinality(Free(table)) > 0 /\ Cardinality(Free(table))' = Cardinality(Free(table)) - 1
      BY <2>1, <2>2, <2>3, FreeCount
    <2>5. Content(r) \in Routes(table)'
      BY <2>2, Zenon DEF RouteSet!Installed
    <2> QED BY <2>2, <2>4, <2>5, Zenon DEF RouteSet!RouteNext, RouteSet!Learn
  <1>7. table' = u \/ (Free(u) # {} /\ table' = [u EXCEPT ![Min(Free(u))] = [route |-> r, used |-> TRUE]])
    BY <1>3, Zenon DEF AddEntry
  <1> QED BY <1>5, <1>6, <1>7

(* The callbacks overwrite the route they found.                            *)
LEMMA BetterRouteStep ==
    ASSUME IInv, IInv', NEW node \in Nodes, BetterRoute(node)
    PROVE  RouteSet!RouteNext
  <1> DEFINE r   == FillRoutingEntry(node, LinkCost(node.type), now)
             hit == Find(table, node.addr, node.type, now)
             t   == Scanned(table, node.addr, node.type, now)
  <1>1. Live(r) /\ r.addr = node.addr /\ r.type = node.type
    BY FilledRoute DEF IInv
  <1>2. Good(t, now) /\ hit \in Slots /\ hit \in Hits(t, node.addr, node.type)
    BY Lookup DEF IInv, BetterRoute
  <1>3. Aged(table, t)
    BY ScanAges DEF IInv
  <1>4. table' = [t EXCEPT ![hit] = [route |-> r, used |-> t[hit].used]] /\ now' = now
    BY DEF BetterRoute
  <1> HIDE DEF r, hit, t
  <1>5. Live(t[hit].route) /\ t[hit].used = TRUE
    BY <1>1, <1>2 DEF Hits, Live, Good, Table
  <1>6. RouteSet!Installed(Content(r)) /\ Free(table)' = Free(table) \ {hit}
    <2>1. table' = [t EXCEPT ![hit] = [route |-> r, used |-> TRUE]] /\ Good(table', now)
      BY <1>4, <1>5 DEF IInv
    <2> QED BY <1>1, <1>2, <1>3, <2>1, InstallStep, Zenon
  <1>7. Cardinality(Free(table))' = Cardinality(Free(table))
    <2>1. hit \notin Free(table)
      BY <1>3, <1>5, AgedRoutes DEF Free
    <2>2. Free(table)' = Free(table)
      BY <1>6, <2>1
    <2> QED BY <2>2
  <1>8. PICK old \in Routes(table) : RouteSet!SameDestination(old, Content(r))
    <2>1. Live(table[hit].route) /\ Content(t[hit].route) = Content(table[hit].route)
      BY <1>2, <1>3, <1>5 DEF Aged
    <2>2. Content(table[hit].route) \in Routes(table)
      BY <1>2, <2>1 DEF Routes
    <2>3. t[hit].route.addr = r.addr /\ t[hit].route.type = r.type
      BY <1>1, <1>2 DEF Hits
    <2>4. /\ Content(r).addr = r.addr /\ Content(r).type = r.type
          /\ Content(t[hit].route).addr = t[hit].route.addr
          /\ Content(t[hit].route).type = t[hit].route.type
      BY DEF Content
    <2> QED BY <2>1, <2>2, <2>3, <2>4 DEF RouteSet!SameDestination
  <1>9. Content(r) \in Routes(table)'
    BY <1>6, Zenon DEF RouteSet!Installed
  <1> QED BY <1>6, <1>7, <1>8, <1>9, Zenon DEF RouteSet!RouteNext, RouteSet!Replace

(* aodvv2_lrs_delete_entry gives the place of the route it finds back.      *)
LEMMA DeleteStep ==
    ASSUME IInv, NEW key \in Keys, Delete(key)
    PROVE  RouteSet!RouteNext
  <1> DEFINE a  == key[1]
             ty == key[2]
             f  == Refreshed(table, now)
             h  == {i \in Hits(f, a, ty) : f[i].used}
             m  == Min(h)
  <1>1. /\ table \in Table /\ now \in Nat /\ a # Unspecified
        /\ table' = DeleteEntry(table, a, ty, now)
    BY KeyIsDestination DEF IInv, Good, Delete
  <1>2. Hits(table', a, ty) = {}
    BY <1>1, DeleteGood DEF IInv
  <1>3. CASE h = {}
    <2>1. table' = f
      BY <1>1, <1>3, Zenon DEF DeleteEntry
    <2>2. Aged(table, table')
      BY <1>1, <2>1, RefreshAges, Zenon DEF Aged
    <2> QED BY <2>2, AgeStep
  <1>4. CASE h # {}
    <2>1. h \subseteq Slots /\ Slots \subseteq Nat
      BY LrsAssumption DEF Hits, Slots
    <2>2. m \in h /\ m \in Slots /\ m \in Nat
      <3> HIDE DEF h
      <3> QED BY <1>4, <2>1, MinInSet
    <2>3. table' = [i \in Slots |-> IF i < m THEN f[i]
                                    ELSE IF i > m THEN table[i]
                                    ELSE [route |-> NoRoute, used |-> FALSE]]
      BY <1>1, <1>4, Zenon DEF DeleteEntry
    <2>4. f[m].route.addr = a /\ f[m].route.type = ty /\ f[m].used
      BY <2>2 DEF Hits
    <2> HIDE DEF h, m, f, a, ty
    <2>5. ASSUME NEW i \in Slots, i # m
          PROVE  /\ table'[i].used = table[i].used
                 /\ Live(table'[i].route) => /\ Live(table[i].route)
                                             /\ Content(table'[i].route) = Content(table[i].route)
      <3>1. i \in Nat
        BY <2>1
      <3>2. table'[i] = table[i] \/ table'[i] = Refreshed(table, now)[i]
        BY <2>2, <2>3, <2>5, <3>1 DEF f
      <3> QED BY <1>1, <3>2, RefreshAges, Zenon
    <2>6. table'[m].route = NoRoute /\ table'[m].used = FALSE
      BY <2>2, <2>3
    <2>7. /\ f[m].used = table[m].used
          /\ Live(table[m].route) /\ Content(f[m].route) = Content(table[m].route)
      <3>1. Live(f[m].route)
        BY <1>1, <2>4 DEF Live
      <3>2. f[m] = Refreshed(table, now)[m]
        BY DEF f
      <3> DEFINE e == f[m]
      <3>3. e = table[m] \/ e = Refreshed(table, now)[m]
        BY <3>2
      <3> HIDE DEF e
      <3>4. /\ e.used = table[m].used
            /\ Live(e.route) => Live(table[m].route) /\ Content(e.route) = Content(table[m].route)
        BY <1>1, <2>2, <3>3, RefreshAges
      <3> QED BY <3>1, <3>4 DEF e
    <2>8. Free(table)' = Free(table) \cup {m} /\ m \notin Free(table)
      BY <2>2, <2>4, <2>5, <2>6, <2>7 DEF Free
    <2>9. Cardinality(Free(table))' = Cardinality(Free(table)) + 1
      BY <2>2, <2>8, FreeCount
    <2> DEFINE old == Content(table[m].route)
    <2>10. old \in Routes(table) /\ old.addr = a /\ old.type = ty
      <3>1. Content(f[m].route).addr = a /\ Content(f[m].route).type = ty
        BY <2>4 DEF Content
      <3> QED BY <2>2, <2>7, <3>1 DEF Routes
    <2> HIDE DEF old
    <2>11. ASSUME NEW q \in Routes(table)'
           PROVE  q \in Routes(table) /\ ~RouteSet!SameDestination(q, old)
      <3>1. PICK i \in Slots : q = Content(table'[i].route) /\ Live(table'[i].route)
        BY DEF Routes
      <3>2. i # m
        BY <2>6, <3>1, NoRouteType
      <3>3. q \in Routes(table)
        BY <2>5, <3>1, <3>2 DEF Routes
      <3>4. ~(table'[i].route.addr = a /\ table'[i].route.type = ty)
        BY <1>2, <3>1 DEF Hits
      <3>5. q.addr = table'[i].route.addr /\ q.type = table'[i].route.type
        BY <3>1 DEF Content
      <3> QED BY <2>10, <3>3, <3>4, <3>5 DEF RouteSet!SameDestination
    <2>12. Routes(table)' \subseteq {q \in Routes(table) : ~RouteSet!SameDestination(q, old)}
      BY <2>11
    <2> QED BY <2>9, <2>10, <2>12, Zenon DEF RouteSet!RouteNext, RouteSet!Forget
  <1> QED BY <1>3, <1>4

(* Every step of the route set is one of the abstract one, or none.         *)
LEMMA StepKeepsRoutes ==
    IInv /\ IInv' /\ [Next]_vars
      => [RouteSet!RouteNext]_<<Routes(table), Cardinality(Free(table))>>
  <1> SUFFICES ASSUME IInv, IInv', [Next]_vars
               PROVE  [RouteSet!RouteNext]_<<Routes(table), Cardinality(Free(table))>>
    OBVIOUS
  <1>1. CASE UNCHANGED table
    BY <1>1 DEF Routes, Free
  <1>2. CASE Tick
    BY <1>1, <1>2 DEF Tick
  <1>3. ASSUME NEW key \in Keys, GetNextHop(key) PROVE RouteSet!RouteNext
    <2>1. Aged(table, table')
      BY <1>3, ScanAges DEF GetNextHop, IInv
    <2> QED BY <2>1, AgeStep
  <1>4. ASSUME NEW key \in Keys, Delete(key) PROVE RouteSet!RouteNext
    BY <1>4, DeleteStep
  <1>5. ASSUME NEW node \in Nodes, NewRoute(node) PROVE RouteSet!RouteNext
    BY <1>5, NewRouteStep
  <1>6. ASSUME NEW node \in Nodes, BetterRoute(node) PROVE RouteSet!RouteNext
    BY <1>6, BetterRouteStep
  <1>7. ASSUME NEW node \in Nodes, NoImprovement(node) PROVE RouteSet!RouteNext
    <2>1. Aged(table, table')
      BY <1>7, ScanAges DEF NoImprovement, IInv
    <2> QED BY <2>1, AgeStep
  <1> QED BY <1>1, <1>2, <1>3, <1>4, <1>5, <1>6, <1>7, Zenon DEF Next, vars

(* The table aodvv2_lrs_init leaves holds no route and has all its places.  *)
LEMMA InitKeepsRoutes == Init => RouteSet!RouteInit
  <1> SUFFICES ASSUME Init PROVE RouteSet!RouteInit
    OBVIOUS
  <1>1. table = EmptyTable
    BY DEF Init
  <1>2. Routes(table) = {}
    BY <1>1, NoRouteType DEF Routes, EmptyTable
  <1>3. Free(table) = 1..NSlots
    BY <1>1 DEF Free, EmptyTable, Slots
  <1>4. Cardinality(1..NSlots) = NSlots
    BY LrsAssumption, FS_Interval
  <1> QED BY <1>2, <1>3, <1>4 DEF RouteSet!RouteInit

(* aodvv2_lrs.c keeps one route per destination, changes it for a message   *)
(* only, and gets places back from deletions alone: an expunged route keeps *)
(* its slot for good.                                                       *)
THEOREM RoutesKept == Spec => KeepsRoutes
  <1>1. Spec => []IInv
    BY Invariance
  <1> QED BY <1>1, InitKeepsRoutes, StepKeepsRoutes, PTL DEF Spec, KeepsRoutes, RouteSet!RouteSpec
=============================================================================
