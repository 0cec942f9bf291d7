------------------------------ MODULE Aodvv2Lrs ------------------------------
(***************************************************************************)
(* The Local Route Set as the AODVv2 thread uses it: the only thread that  *)
(* touches it, so its calls are atomic, while time passes between them.    *)
(* NewRoute, BetterRoute and NoImprovement are the three ways in which the *)
(* end-of-message callbacks of aodvv2_reader.c deal with the node a RREQ   *)
(* (OrigNode) or a RREP (TargNode) tells about.                            *)
(***************************************************************************)
EXTENDS Aodvv2LrsOps, FiniteSets

CONSTANTS Nodes,       \* what messages may tell: a subset of NodeData
          MaxTime      \* bound on the clock

ASSUME NodesAssumption ==
    /\ Nodes \subseteq NodeData
    /\ \A n \in Nodes : n.addr # Unspecified   \* the reader drops such messages
    /\ MaxTime \in Nat

VARIABLES now, table

vars == <<now, table>>

Keys == {<<n.addr, n.type>> : n \in Nodes}

Init ==
    /\ now = 0
    /\ table = EmptyTable

Tick ==
    /\ now < MaxTime
    /\ now' = now + 1
    /\ UNCHANGED table

\* aodvv2_lrs_get_next_hop
GetNextHop(key) ==
    /\ table' = Scanned(table, key[1], key[2], now)
    /\ UNCHANGED now

\* The callbacks: no route to the node, one is added.
NewRoute(node) ==
    /\ Find(table, node.addr, node.type, now) = 0
    /\ table' = AddEntry(Scanned(table, node.addr, node.type, now),
                         FillRoutingEntry(node, LinkCost(node.type), now), now)
    /\ UNCHANGED now

\* Variant: the callback overwrites the slot after the one it found.
BetterRouteOffByOne(node) ==
    LET hit == Find(table, node.addr, node.type, now)
        t   == Scanned(table, node.addr, node.type, now)
    IN  /\ hit # 0
        /\ hit + 1 \in Slots
        /\ OffersImprovement(t[hit].route, node)
        /\ table' = [t EXCEPT ![hit + 1] =
                       [route |-> FillRoutingEntry(node, LinkCost(node.type), now),
                        used  |-> @.used]]
        /\ UNCHANGED now

\* The callbacks: the route to the node is overwritten.
BetterRoute(node) ==
    LET hit == Find(table, node.addr, node.type, now)
        t   == Scanned(table, node.addr, node.type, now)
    IN  /\ hit # 0
        /\ OffersImprovement(t[hit].route, node)
        /\ table' = [t EXCEPT ![hit] =
                       [route |-> FillRoutingEntry(node, LinkCost(node.type), now),
                        used  |-> @.used]]
        /\ UNCHANGED now

\* The callbacks: the message is dropped.
NoImprovement(node) ==
    LET hit == Find(table, node.addr, node.type, now)
        t   == Scanned(table, node.addr, node.type, now)
    IN  /\ hit # 0
        /\ ~OffersImprovement(t[hit].route, node)
        /\ table' = t
        /\ UNCHANGED now

\* aodvv2_lrs_delete_entry
Delete(key) ==
    /\ table' = DeleteEntry(table, key[1], key[2], now)
    /\ UNCHANGED now

Next ==
    \/ Tick
    \/ \E key \in Keys : GetNextHop(key) \/ Delete(key)
    \/ \E node \in Nodes : NewRoute(node) \/ BetterRoute(node) \/ NoImprovement(node)

Spec == Init /\ [][Next]_vars

-----------------------------------------------------------------------------
Live(r) == r.addr # Unspecified

TypeOK ==
    /\ now \in Nat
    /\ table \in Table
    /\ \A i \in Slots : Live(table[i].route) => table[i].used

(* "Add new entry to Local Route, if there is no other entry to the same    *)
(* destination" (lrs.h:88): no two slots ever hold a route to the same      *)
(* destination and metric type, although lookups stop at the first hit,     *)
(* refresh only part of the table and ignore the `used' flag.               *)
UniqueDestination ==
    \A i, j \in Slots :
        ( /\ Live(table[i].route)
          /\ table[i].route.addr = table[j].route.addr
          /\ table[i].route.type = table[j].route.type ) => i = j

TimersAgree(r, n) ==
    LET installed == r.expiration - Validity
    IN  /\ installed <= r.lastUsed /\ r.lastUsed <= n
        /\ r.state = "ACTIVE"  => r.lastUsed = installed
        /\ r.state = "IDLE"    => r.lastUsed > installed + ActiveInterval
        /\ r.state = "EXPIRED" => r.lastUsed >= r.expiration

(* The two times of a route agree with its state: Active until its first    *)
(* refresh after the active interval, Idle strictly later than that, and    *)
(* Expired no earlier than its expiration, which no refresh ever moves.     *)
TimersConsistent ==
    \A i \in Slots : Live(table[i].route) => TimersAgree(table[i].route, now)

(* Sequence-number information is kept for MaxSeqnumLifetime: short of a    *)
(* deletion of its destination, which gives the slot back as nothing else   *)
(* does, a route leaves the table no earlier than that after it was last    *)
(* installed, and not before it expired.                                    *)
SeqnumRemembered ==
    [][\A i \in Slots :
          LET r == table[i].route
              installed == r.expiration - Validity
          IN  (Live(r) /\ ~Live(table'[i].route)) =>
                \/ Delete(<<r.addr, r.type>>) /\ ~table'[i].used
                \/ /\ now >= r.expiration
                   /\ now >= installed + MaxSeqnumLifetime]_vars

(* "Delete Local Route entry towards addr" (lrs.h:107): after a deletion    *)
(* no slot leads to the destination, though only the first hit is cleared.  *)
DeleteForgets ==
    [][\A key \in Keys : Delete(key) => Hits(table', key[1], key[2]) = {}]_vars

\* What other modules use of a route, and the routes the table holds.
Content(r) == [addr |-> r.addr, type |-> r.type, seqnum |-> r.seqnum,
               nextHop |-> r.nextHop, metric |-> r.metric]
Routes(t) == {Content(t[i].route) : i \in {j \in Slots : Live(t[j].route)}}

(* The table with its ages, its partial refreshes and its two kinds of      *)
(* empty slots keeps what Aodvv2LrsSpec promises: one route per             *)
(* destination, which only a message changes, and places that only a        *)
(* deletion gives back, because a route that ages away leaves `used' set    *)
(* (aodvv2_lrs.c:176).                                                      *)
RouteSet == INSTANCE Aodvv2LrsSpec WITH routes <- Routes(table),
                                        places <- Cardinality(Free(table))
KeepsRoutes == RouteSet!RouteSpec
=============================================================================
