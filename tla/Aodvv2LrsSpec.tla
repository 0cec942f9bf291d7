---------------------------- MODULE Aodvv2LrsSpec ----------------------------
(***************************************************************************)
(* What the Local Route Set promises the rest of AODVv2: at most one route *)
(* to a destination, which is what a message installed, and stays so until *)
(* a message replaces it, it is deleted or it has aged.  What the table    *)
(* remembers of its age is not visible here, nor which of two messages is  *)
(* the better one.                                                         *)
(*                                                                         *)
(* places is how many more destinations can be taken in.  A route that has *)
(* aged away does not give its place back: only a deletion does.           *)
(***************************************************************************)
EXTENDS Integers

CONSTANT NSlots      \* CONFIG_AODVV2_MAX_ROUTING_ENTRIES

VARIABLES routes,    \* a set of records with addr, type, seqnum, nextHop, metric
          places

SameDestination(q, r) == q.addr = r.addr /\ q.type = r.type

\* r is the only route to its destination; the others were there before.
Installed(r) ==
    /\ r \in routes'
    /\ \A q \in routes' \ {r} : q \in routes /\ ~SameDestination(q, r)

RouteInit == routes = {} /\ places = NSlots

\* Any call ages the routes it passes, and may do nothing else.
Age == routes' \subseteq routes /\ UNCHANGED places

\* aodvv2_lrs_add_entry
Learn == \E r \in routes' : Installed(r) /\ places > 0 /\ places' = places - 1

\* The end-of-message callbacks, for a destination that has a route.
Replace ==
    \E r \in routes' : /\ Installed(r)
                       /\ \E old \in routes : SameDestination(old, r)
                       /\ UNCHANGED places

\* aodvv2_lrs_delete_entry
Forget ==
    \E old \in routes : /\ routes' \subseteq {q \in routes : ~SameDestination(q, old)}
                        /\ places' = places + 1

RouteNext == Age \/ Learn \/ Replace \/ Forget

RouteSpec == RouteInit /\ [][RouteNext]_<<routes, places>>
=============================================================================
