----------------------------- MODULE Aodvv2Mcmsg -----------------------------
(***************************************************************************)
(* The Multicast Message Set in use.  aodvv2_mcmsg_process holds the       *)
(* set's mutex from start to end, so calls of the two threads that make    *)
(* them are atomic: the AODVv2 thread for every RREQ it receives, and the  *)
(* thread that runs aodvv2_find_route for every RREQ this router           *)
(* originates, whose verdict it ignores.                                   *)
(*                                                                         *)
(* The message aodvv2_find_route builds on its stack has no SeqNoRtr       *)
(* assigned: what the field contains is any address.  Messages from the    *)
(* reader come from static storage, where it is ::.                        *)
(***************************************************************************)
EXTENDS Aodvv2McmsgOps

CONSTANTS OwnKey,     \* keys of RREQs for this router's own clients
          SeqNums,    \* sequence numbers messages carry
          Metrics,    \* metrics received messages carry
          MaxTime     \* bound on the clock

ASSUME InputsAssumption ==
    /\ OwnKey \subseteq Key
    /\ SeqNums \subseteq SeqNum
    /\ Metrics \subseteq MetricValue
    /\ MaxTime \in Nat

Received == [key : Key, rtr : {Unspecified}, seqnum : SeqNums, metric : Metrics]
Originated == [key : OwnKey, rtr : Rtr, seqnum : SeqNums, metric : {0}]

Foreign == Key \ OwnKey

VARIABLES now, table,
          accepted    \* ghost: per key of another router, the last RREQ that
                      \* was accepted and stored, and how long it must be
                      \* remembered at least

vars == <<now, table, accepted>>

None == [rreq |-> "none"]

Init ==
    /\ now = 0
    /\ table = EmptyTable
    /\ accepted = [k \in Foreign |-> None]

Tick ==
    /\ now < MaxTime
    /\ now' = now + 1
    /\ UNCHANGED <<table, accepted>>

\* The set remembers exactly this RREQ.
Stores(t, msg) ==
    \E i \in Entries : t[i].used /\ t[i].key = msg.key
                       /\ t[i].seqnum = msg.seqnum /\ t[i].metric = msg.metric

\* aodvv2_mcmsg_process, called by the RREQ callback of the reader.
Receive(msg) ==
    LET result == Process(table, msg, now)
    IN  /\ table' = result.table
        /\ accepted' =
             IF /\ msg.key \in Foreign
                /\ result.verdict = "OK"
                /\ Stores(result.table, msg)
             THEN [accepted EXCEPT ![msg.key] =
                     [rreq |-> msg, until |-> now + MaxSeqnumLifetime]]
             ELSE accepted
        /\ UNCHANGED now

\* aodvv2_mcmsg_process, called by aodvv2_find_route.
Originate(msg) ==
    /\ table' = Process(table, msg, now).table
    /\ UNCHANGED <<now, accepted>>

Next ==
    \/ Tick
    \/ \E msg \in Received : Receive(msg)
    \/ \E msg \in Originated : Originate(msg)

Spec == Init /\ [][Next]_vars

-----------------------------------------------------------------------------
TypeOK ==
    /\ now \in Nat
    /\ table \in Table
    /\ accepted \in [Foreign -> {None} \union [rreq : Received, until : Nat]]
    /\ \A i \in Entries : table[i].rtr = Unspecified

(* RREQs of other routers take one entry per key: purging only a prefix of  *)
(* the set before an entry is added never leaves two of them.  (For this    *)
(* router's own RREQs it does happen, through the unassigned SeqNoRtr.)     *)
OneEntryPerForeignKey ==
    \A i, j \in Entries :
        ( /\ table[i].used /\ table[j].used
          /\ table[i].key \in Foreign
          /\ table[i].key = table[j].key ) => i = j

(* As long as an entry is remembered, its sequence number never goes back:  *)
(* neither a delayed RREQ nor one that lost against another entry rewinds   *)
(* it.                                                                      *)
SeqnumNeverRewinds ==
    [][\A i \in Entries :
          (Remembered(table[i], now) /\ table'[i].used) =>
             /\ table'[i].key = table[i].key
             /\ SeqnumCmp(table[i].seqnum, table'[i].seqnum) >= 0]_vars

(* A second copy of the last accepted RREQ of another router is redundant   *)
(* for the whole time the first is remembered, whatever else arrived in     *)
(* between: a router forwards it once.                                      *)
RetransmissionRedundant ==
    \A k \in Foreign :
        (accepted[k] # None /\ now <= accepted[k].until) =>
           Process(table, accepted[k].rreq, now).verdict = "REDUNDANT"
=============================================================================
