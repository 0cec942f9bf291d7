---------------------------- MODULE Aodvv2LrsOps ----------------------------
(***************************************************************************)
(* The functions of the Local Route Set (aodvv2_lrs.c) as operators on a   *)
(* table.  A table maps each slot to a route and a `used' flag, exactly    *)
(* the static array routing_table.  The loops over the array stop at the   *)
(* first hit and refresh every slot they pass: Find is the slot a loop     *)
(* stops at (0: none), Scanned the table it leaves behind.                 *)
(*                                                                         *)
(* Addresses are opaque, prefix lengths are left out (the route set stores *)
(* but never reads them), and times are whole seconds.                     *)
(***************************************************************************)
EXTENDS Aodvv2SeqnumOps, Aodvv2MetricOps, FiniteSetsExt

CONSTANTS Addr,               \* IPv6 addresses
          Unspecified,        \* the address ::
          NSlots,             \* CONFIG_AODVV2_MAX_ROUTING_ENTRIES
          ActiveInterval,     \* CONFIG_AODVV2_ACTIVE_INTERVAL
          MaxIdleTime,        \* CONFIG_AODVV2_MAX_IDLETIME
          MaxSeqnumLifetime   \* CONFIG_AODVV2_MAX_SEQNUM_LIFETIME

ASSUME LrsAssumption ==
    /\ Unspecified \in Addr
    /\ NSlots \in Nat
    /\ ActiveInterval \in Nat
    /\ MaxIdleTime \in Nat
    /\ MaxSeqnumLifetime \in Nat

Slots == 1..NSlots

Validity == ActiveInterval + MaxIdleTime

RouteState == {"ACTIVE", "IDLE", "EXPIRED", "BROKEN", "TIMED"}

\* aodvv2_local_route_t
Route == [addr       : Addr,
          type       : Nat,
          seqnum     : SeqNum,
          nextHop    : Addr,
          metric     : MetricValue,
          lastUsed   : Nat,
          expiration : Nat,
          state      : RouteState]

\* A route cleared by memset: address ::, time 0, state 0 (ACTIVE).
NoRoute == [addr |-> Unspecified, type |-> 0, seqnum |-> 0,
            nextHop |-> Unspecified, metric |-> 0,
            lastUsed |-> 0, expiration |-> 0, state |-> "ACTIVE"]

Table == [Slots -> [route : Route, used : BOOLEAN]]

EmptyTable == [i \in Slots |-> [route |-> NoRoute, used |-> FALSE]]

\* The node a RREQ or RREP tells about, with the neighbour that sent it.
NodeData == [addr : Addr, type : Nat, seqnum : SeqNum,
             metric : MetricValue, sender : Addr]
-----------------------------------------------------------------------------
\* A route that changes its state, and records when it did.
Marked(r, state, now) == [r EXCEPT !.state = state, !.lastUsed = now]

\* An Active route unused for longer than the active interval becomes Idle.
Idled(r, now) ==
    IF r.state = "ACTIVE" /\ now - ActiveInterval > r.lastUsed
    THEN Marked(r, "IDLE", now)
    ELSE r

\* Variant: the route is expunged without waiting for its expiration.
ResetEarly(r, now) ==
    IF r.expiration = 0 \/ now < ActiveInterval THEN r
    ELSE IF now - r.lastUsed >= MaxIdleTime THEN NoRoute
    ELSE Idled(r, now)

\* Variant: a route that becomes Expired keeps the time it became Idle.
ResetKeepsIdleTime(r, now) ==
    IF r.expiration = 0 \/ now < ActiveInterval THEN r
    ELSE IF now < r.expiration THEN Idled(r, now)
    ELSE IF now - r.lastUsed >= MaxSeqnumLifetime THEN NoRoute
    ELSE IF r.state = "IDLE" THEN [r EXCEPT !.state = "EXPIRED"]
    ELSE Idled(r, now)

(* _reset_entry_if_stale.  The tests of the route's state and of its last   *)
(* use all look at the values found on entry, so a route goes through one   *)
(* stage per call.                                                          *)
Reset(r, now) ==
    IF r.expiration = 0 \/ now < ActiveInterval THEN r
    ELSE IF now < r.expiration THEN Idled(r, now)
    ELSE IF now - r.lastUsed >= MaxSeqnumLifetime THEN NoRoute
    ELSE IF r.state = "IDLE" THEN Marked(r, "EXPIRED", now)
    ELSE Idled(r, now)

Refreshed(t, now) ==
    [i \in Slots |-> [route |-> Reset(t[i].route, now), used |-> t[i].used]]

\* The slots whose route leads to addr.  The `used' flag is not consulted.
Hits(t, addr, type) ==
    {i \in Slots : t[i].route.addr = addr /\ t[i].route.type = type}

\* aodvv2_lrs_get_entry: the slot of the route it returns, 0 for NULL.
Find(t, addr, type, now) ==
    LET hits == Hits(Refreshed(t, now), addr, type)
    IN  IF hits = {} THEN 0 ELSE Min(hits)

\* aodvv2_lrs_get_entry: the table it leaves.
Scanned(t, addr, type, now) ==
    LET hit == Find(t, addr, type, now)
    IN  [i \in Slots |-> IF hit = 0 \/ i <= hit THEN Refreshed(t, now)[i] ELSE t[i]]

Free(t) == {i \in Slots : ~t[i].used}

\* Variant: the slot of the new route is not marked used.
AddEntryUnused(t, r, now) ==
    LET scanned == Scanned(t, r.addr, r.type, now)
    IN  IF Find(t, r.addr, r.type, now) # 0 \/ Free(scanned) = {}
        THEN scanned
        ELSE [scanned EXCEPT ![Min(Free(scanned))].route = r]

\* aodvv2_lrs_add_entry
AddEntry(t, r, now) ==
    LET scanned == Scanned(t, r.addr, r.type, now)
    IN  IF Find(t, r.addr, r.type, now) # 0 \/ Free(scanned) = {}
        THEN scanned
        ELSE [scanned EXCEPT ![Min(Free(scanned))] = [route |-> r, used |-> TRUE]]

\* Variant: the deletion releases the slot and leaves the route in it.
DeleteEntryKeepsRoute(t, addr, type, now) ==
    LET fresh == Refreshed(t, now)
        hits  == {i \in Hits(fresh, addr, type) : fresh[i].used}
    IN  IF hits = {} THEN fresh ELSE [fresh EXCEPT ![Min(hits)].used = FALSE]

\* aodvv2_lrs_delete_entry: like the lookup, but only used slots count.
DeleteEntry(t, addr, type, now) ==
    LET fresh == Refreshed(t, now)
        hits  == {i \in Hits(fresh, addr, type) : fresh[i].used}
    IN  IF hits = {} THEN fresh
        ELSE [i \in Slots |-> IF i < Min(hits) THEN fresh[i]
                             ELSE IF i > Min(hits) THEN t[i]
                             ELSE [route |-> NoRoute, used |-> FALSE]]

\* aodvv2_lrs_offers_improvement
OffersImprovement(r, node) ==
    /\ ~(SeqnumCmp(node.seqnum, r.seqnum) < 0)
    /\ ~(node.metric >= r.metric /\ r.state = "BROKEN")
    /\ r.state # "BROKEN"

\* aodvv2_lrs_fill_routing_entry_rreq and _rrep, for the OrigNode and the
\* TargNode of the message respectively.
FillRoutingEntry(node, linkCost, timestamp) ==
    [addr       |-> node.addr,
     type       |-> node.type,
     seqnum     |-> node.seqnum,
     nextHop    |-> node.sender,
     metric     |-> (node.metric + linkCost) % 256,
     lastUsed   |-> timestamp,
     expiration |-> timestamp + Validity,
     state      |-> "ACTIVE"]
=============================================================================
