--------------------------- MODULE Aodvv2McmsgOps ---------------------------
(***************************************************************************)
(* The Multicast Message Set (aodvv2_mcmsg.c) as operators on a table:     *)
(* the memory of recently seen RREQs that decides whether one is processed *)
(* and forwarded or is redundant.                                          *)
(*                                                                         *)
(* Two RREQs are compatible when OrigPrefix, its length, TargPrefix and    *)
(* MetricType agree; these four fields are one opaque key.  The table      *)
(* stores the address SeqNoRtr but no code ever writes it, so a stored     *)
(* entry always has ::.                                                    *)
(***************************************************************************)
EXTENDS Aodvv2SeqnumOps, Aodvv2MetricOps, FiniteSetsExt

CONSTANTS Key,                \* the values of the four compatibility fields
          NoKey,              \* the key of a cleared entry
          Rtr,                \* SeqNoRtr addresses
          Unspecified,        \* the address ::
          NEntries,           \* CONFIG_AODVV2_MCMSG_MAX_ENTRIES
          MaxSeqnumLifetime   \* CONFIG_AODVV2_MAX_SEQNUM_LIFETIME

ASSUME McmsgAssumption ==
    /\ NoKey \notin Key
    /\ Unspecified \in Rtr
    /\ NEntries \in Nat
    /\ MaxSeqnumLifetime \in Nat

Entries == 1..NEntries

Entry == [key : Key \union {NoKey}, rtr : Rtr, seqnum : SeqNum,
          metric : MetricValue, removal : Nat, used : BOOLEAN]

NoEntry == [key |-> NoKey, rtr |-> Unspecified, seqnum |-> 0,
            metric |-> 0, removal |-> 0, used |-> FALSE]

Table == [Entries -> Entry]

EmptyTable == [i \in Entries |-> NoEntry]

Rreq == [key : Key, rtr : Rtr, seqnum : SeqNum, metric : MetricValue]

Verdict == {"OK", "REDUNDANT"}
-----------------------------------------------------------------------------
\* An entry _reset_entry_if_stale clears.
Stale(e, now) == e.used /\ now > e.removal

\* _reset_entry_if_stale
Purged(e, now) == IF Stale(e, now) THEN NoEntry ELSE e

Remembered(e, now) == e.used /\ ~Stale(e, now)

\* Variant: only RREQs with the same sequence number are compared.
ComparableSameSeqnum(e, msg) ==
    e.key = msg.key /\ e.rtr = msg.rtr /\ e.seqnum = msg.seqnum

\* _is_comparable: compatible, and SeqNoRtr absent from both or the same.
Comparable(e, msg) == e.key = msg.key /\ e.rtr = msg.rtr

ComparableEntries(t, msg, now) ==
    {i \in Entries : Remembered(t[i], now) /\ Comparable(t[i], msg)}

\* _find_comparable_entry: it purges the entries up to the one it returns.
Scanned(t, msg, now) ==
    LET hits == ComparableEntries(t, msg, now)
    IN  [i \in Entries |-> IF hits = {} \/ i <= Min(hits) THEN Purged(t[i], now) ELSE t[i]]

Free(t) == {i \in Entries : ~t[i].used}

\* Variant: a full set gives up its last entry.
AddRecycles(t, msg, now) ==
    [t EXCEPT ![IF Free(t) = {} THEN NEntries ELSE Min(Free(t))] =
       [key |-> msg.key, rtr |-> @.rtr, seqnum |-> msg.seqnum, metric |-> msg.metric,
        removal |-> now + MaxSeqnumLifetime, used |-> TRUE]]

\* _add: nothing is stored when the set is full.
Add(t, msg, now) ==
    IF Free(t) = {} THEN t ELSE
    [t EXCEPT ![Min(Free(t))] =
       [key |-> msg.key, rtr |-> @.rtr, seqnum |-> msg.seqnum, metric |-> msg.metric,
        removal |-> now + MaxSeqnumLifetime, used |-> TRUE]]

\* Variant: a copy with the same sequence number is always news.
NoNewsOlderOnly(e, msg) == SeqnumCmp(e.seqnum, msg.seqnum) < 0

\* The received RREQ is no news: it is older than the stored one, or as old
\* and of the same metric.
NoNews(e, msg) ==
    LET cmp == SeqnumCmp(e.seqnum, msg.seqnum)
    IN  cmp < 0 \/ (cmp = 0 /\ e.metric = msg.metric)

\* The other compatible entries that are at least as good as the received
\* RREQ, which the last loop of aodvv2_mcmsg_process looks for.
NoWorse(t, hit, msg, now) ==
    {j \in Entries \ {hit} :
        /\ Remembered(t[j], now)
        /\ t[j].key = msg.key
        /\ t[j].metric <= msg.metric}

(* aodvv2_mcmsg_process with a comparable entry at slot hit: its time is    *)
(* renewed whatever the outcome, its content only when the RREQ brings news.*)
Renewed(t, hit, now) == [t EXCEPT ![hit] =
    [key |-> @.key, rtr |-> @.rtr, seqnum |-> @.seqnum, metric |-> @.metric,
     removal |-> now + MaxSeqnumLifetime, used |-> @.used]]

Updated(t, hit, msg, now) ==
    LET others == NoWorse(t, hit, msg, now)
    IN  [i \in Entries |->
           IF i = hit
           THEN [key |-> t[i].key, rtr |-> t[i].rtr, seqnum |-> msg.seqnum,
                 metric |-> msg.metric, removal |-> now + MaxSeqnumLifetime,
                 used |-> t[i].used]
           ELSE IF others = {} \/ i <= Min(others) THEN Purged(t[i], now) ELSE t[i]]

\* aodvv2_mcmsg_process
Process(t, msg, now) ==
    LET hits == ComparableEntries(t, msg, now)
        s    == Scanned(t, msg, now)
    IN  IF hits = {}
        THEN [table |-> Add(s, msg, now), verdict |-> "OK"]
        ELSE IF NoNews(s[Min(hits)], msg)
        THEN [table |-> Renewed(s, Min(hits), now), verdict |-> "REDUNDANT"]
        ELSE [table   |-> Updated(s, Min(hits), msg, now),
              verdict |-> IF NoWorse(s, Min(hits), msg, now) = {}
                          THEN "OK" ELSE "REDUNDANT"]
=============================================================================
