-------------------------- MODULE Aodvv2McmsgProofs --------------------------
(***************************************************************************)
(* Proofs about the Multicast Message Set, for every number of entries,    *)
(* every lifetime, every width of sequence numbers and every set of RREQs. *)
(***************************************************************************)
EXTENDS Aodvv2Mcmsg, WellFoundedInduction, TLAPS

(* What Min returns: the first slot of a loop.                              *)
LEMMA MinInSet ==
    ASSUME NEW S, S \subseteq Nat, S # {}
    PROVE  Min(S) \in S /\ \A y \in S : Min(S) <= y
  <1> DEFINE Less == {p \in Nat \X Nat : p[1] < p[2]}
  <1>1. IsWellFoundedOn(Less, Nat)
    <2>1. Less = OpToRel(<, Nat)
      BY Zenon DEF OpToRel
    <2> QED BY <2>1, NatLessThanWellFounded, Zenon
  <1>2. \A x, y \in Nat : <<y, x>> \in Less <=> y < x
    OBVIOUS
  <1> HIDE DEF Less
  <1>3. \E x \in S : \A y \in S : ~(<<y, x>> \in Less)
    BY <1>1, WFMin, Zenon
  <1>4. PICK x \in S : \A y \in S : ~(y < x)
    BY <1>2, <1>3, Zenon
  <1>5. \A y \in S : x <= y
    BY <1>4
  <1> QED BY <1>5 DEF Min

(* A sequence number is as old as itself.                                   *)
LEMMA SeqnumCmpSame ==
    ASSUME NEW s \in SeqNum
    PROVE  SeqnumCmp(s, s) = 0
  BY SeqMaxAssumption DEF SeqnumCmp, SeqNum, SeqNumMod

(* The entry aodvv2_mcmsg_process writes for a RREQ.                        *)
EntryOf(key, rtr, seqnum, metric, n) ==
    [key |-> key, rtr |-> rtr, seqnum |-> seqnum, metric |-> metric,
     removal |-> n + MaxSeqnumLifetime, used |-> TRUE]

(* No comparable entry, and no slot for a new one.                          *)
NotStored(t, msg, n, r) ==
    /\ ComparableEntries(t, msg, n) = {}
    /\ r.verdict = "OK"
    /\ r.table = [i \in Entries |-> Purged(t[i], n)]

(* No comparable entry: slot m, which was unused or stale, takes the RREQ.  *)
StoredAt(t, msg, n, r, m) ==
    /\ ComparableEntries(t, msg, n) = {}
    /\ r.verdict = "OK"
    /\ ~Remembered(t[m], n)
    /\ r.table = [i \in Entries |->
                    IF i = m THEN EntryOf(msg.key, Purged(t[m], n).rtr, msg.seqnum, msg.metric, n)
                    ELSE Purged(t[i], n)]

(* Entry h is comparable: it lives longer, and takes the RREQ's content if  *)
(* that is news.  Of the others only stale ones are cleared.                *)
HitAt(t, msg, n, r, h) ==
    /\ h \in ComparableEntries(t, msg, n)
    /\ r.table \in [Entries -> Entry]
    /\ \A i \in Entries \ {h} : r.table[i] \in {t[i], Purged(t[i], n)}
    /\ \/ /\ NoNews(t[h], msg)
          /\ r.verdict = "REDUNDANT"
          /\ r.table[h] = EntryOf(t[h].key, t[h].rtr, t[h].seqnum, t[h].metric, n)
       \/ /\ ~NoNews(t[h], msg)
          /\ r.table[h] = EntryOf(t[h].key, t[h].rtr, msg.seqnum, msg.metric, n)
          /\ (\A j \in Entries \ {h} : Remembered(t[j], n) => t[j].key # msg.key)
                => r.verdict = "OK"

(* A cleared entry, and one that is purged, is an entry.                    *)
LEMMA PurgedType ==
    ASSUME NEW e \in Entry, NEW n \in Nat
    PROVE  /\ Purged(e, n) \in Entry
           /\ Remembered(e, n) => Purged(e, n) = e
           /\ ~Remembered(e, n) => ~Purged(e, n).used
           /\ Purged(e, n).used => Purged(e, n) = e /\ Remembered(e, n)
           /\ e.rtr = Unspecified => Purged(e, n).rtr = Unspecified
           /\ NoEntry \in Entry
  BY McmsgAssumption, SeqMaxAssumption
  DEF Purged, Remembered, Stale, NoEntry, Entry, SeqNum, MetricValue

(* What a call of aodvv2_mcmsg_process comes to.                            *)
LEMMA ProcessCases ==
    ASSUME NEW t \in Table, NEW msg \in Rreq, NEW n \in Nat
    PROVE  LET r == Process(t, msg, n)
           IN  \/ NotStored(t, msg, n, r)
               \/ \E m \in Entries : StoredAt(t, msg, n, r, m)
               \/ \E h \in Entries : HitAt(t, msg, n, r, h)
  <1> DEFINE hits == ComparableEntries(t, msg, n)
             s == Scanned(t, msg, n)
             r == Process(t, msg, n)
             h == Min(hits)
  <1>1. /\ s \in Table
        /\ \A i \in Entries : s[i] \in {t[i], Purged(t[i], n)}
        /\ hits = {} => s = [i \in Entries |-> Purged(t[i], n)]
    BY PurgedType DEF Scanned, Table
  <1>2. CASE hits = {}
    <2>1. r = [table |-> Add(s, msg, n), verdict |-> "OK"]
      BY <1>2 DEF Process
    <2>2. CASE Free(s) = {}
      <3>1. r.table = s /\ r.verdict = "OK"
        BY <2>1, <2>2 DEF Add
      <3> QED BY <1>1, <1>2, <3>1 DEF NotStored
    <2>3. CASE Free(s) # {}
      <3> DEFINE m == Min(Free(s))
      <3>1. m \in Entries /\ ~s[m].used
        <4>1. Free(s) \subseteq Nat
          BY McmsgAssumption DEF Free, Entries
        <4>2. m \in Free(s)
          BY <2>3, <4>1, MinInSet
        <4> QED BY <4>2 DEF Free
      <3>2. r.table = [s EXCEPT ![m] = EntryOf(msg.key, s[m].rtr, msg.seqnum, msg.metric, n)]
        BY <2>1, <2>3 DEF Add, EntryOf
      <3> HIDE DEF m, s
      <3>3. \A i \in Entries : s[i] = Purged(t[i], n)
        BY <1>1, <1>2
      <3>4. r.table = [i \in Entries |->
                IF i = m THEN EntryOf(msg.key, Purged(t[m], n).rtr, msg.seqnum, msg.metric, n)
                ELSE Purged(t[i], n)]
        BY <1>1, <1>2, <3>1, <3>2, <3>3 DEF Table
      <3>5. ~Remembered(t[m], n)
        <4>1. t[m] \in Entry
          BY <3>1 DEF Table
        <4> QED BY <3>1, <3>3, <4>1, PurgedType DEF Remembered
      <3>6. StoredAt(t, msg, n, r, m)
        BY <1>2, <2>1, <3>4, <3>5 DEF StoredAt
      <3> QED BY <3>1, <3>6
    <2> QED BY <2>2, <2>3
  <1>3. CASE hits # {}
    <2>1. h \in hits /\ h \in Entries /\ Remembered(t[h], n)
      <3>1. hits \subseteq Nat
        BY McmsgAssumption DEF ComparableEntries, Entries
      <3>2. h \in hits
        BY <1>3, <3>1, MinInSet
      <3> QED BY <3>2 DEF ComparableEntries
    <2>2. t[h] \in Entry /\ s[h] = t[h]
      BY <1>1, <2>1, PurgedType DEF Table
    <2>3. t[h].used = TRUE
      BY <2>1, <2>2 DEF Remembered, Entry
    <2>4. CASE NoNews(s[h], msg)
      <3>1. r = [table |-> Renewed(s, h, n), verdict |-> "REDUNDANT"]
        BY <1>3, <2>4 DEF Process
      <3>2. r.table = [s EXCEPT ![h] = EntryOf(t[h].key, t[h].rtr, t[h].seqnum, t[h].metric, n)]
        <4> HIDE DEF h, s, r, hits
        <4>1. r.table = Renewed(s, h, n)
          BY <3>1
        <4> QED BY <2>2, <2>3, <4>1 DEF Renewed, EntryOf
      <3>3. EntryOf(t[h].key, t[h].rtr, t[h].seqnum, t[h].metric, n) \in Entry
        BY <2>2, McmsgAssumption DEF EntryOf, Entry
      <3> HIDE DEF h, s, hits
      <3>4. /\ r.table \in [Entries -> Entry]
            /\ \A i \in Entries \ {h} : r.table[i] = s[i]
            /\ r.table[h] = EntryOf(t[h].key, t[h].rtr, t[h].seqnum, t[h].metric, n)
        BY <1>1, <2>1, <3>2, <3>3 DEF Table
      <3>5. HitAt(t, msg, n, r, h)
        BY <1>1, <2>1, <2>2, <2>4, <3>1, <3>4 DEF HitAt, hits
      <3> QED BY <2>1, <3>5
    <2>5. CASE ~NoNews(s[h], msg)
      <3> DEFINE others == NoWorse(s, h, msg, n)
      <3>1. r = [table |-> Updated(s, h, msg, n),
                 verdict |-> IF others = {} THEN "OK" ELSE "REDUNDANT"]
        BY <1>3, <2>5 DEF Process
      <3>2. r.table = [i \in Entries |->
               IF i = h THEN EntryOf(t[h].key, t[h].rtr, msg.seqnum, msg.metric, n)
               ELSE IF others = {} \/ i <= Min(others) THEN Purged(s[i], n) ELSE s[i]]
        <4>1. r.table = Updated(s, h, msg, n)
          BY <3>1
        <4> HIDE DEF h, s, r, hits
        <4> QED BY <2>2, <2>3, <4>1 DEF Updated, EntryOf
      <3>3. EntryOf(t[h].key, t[h].rtr, msg.seqnum, msg.metric, n) \in Entry
        BY <2>2, McmsgAssumption DEF EntryOf, Entry, Rreq
      <3>4. \A i \in Entries : Purged(s[i], n) \in Entry /\ Purged(s[i], n) \in {t[i], Purged(t[i], n)}
        <4>1. \A e \in Entry : Purged(Purged(e, n), n) = Purged(e, n)
          BY McmsgAssumption DEF Purged, Stale, NoEntry
        <4> QED BY <1>1, <4>1, PurgedType DEF Table
      <3>5. others # {} => \E j \in Entries \ {h} : Remembered(t[j], n) /\ t[j].key = msg.key
        <4> SUFFICES ASSUME NEW j \in others
                     PROVE  \E i \in Entries \ {h} : Remembered(t[i], n) /\ t[i].key = msg.key
          OBVIOUS
        <4>1. j \in Entries \ {h} /\ Remembered(s[j], n) /\ s[j].key = msg.key
          BY DEF NoWorse
        <4>2. s[j] = t[j]
          BY <1>1, <4>1, PurgedType DEF Table, Remembered
        <4> QED BY <4>1, <4>2
      <3> HIDE DEF h, s, others, hits
      <3>6. /\ r.table \in [Entries -> Entry]
            /\ \A i \in Entries \ {h} : r.table[i] \in {t[i], Purged(t[i], n)}
            /\ r.table[h] = EntryOf(t[h].key, t[h].rtr, msg.seqnum, msg.metric, n)
        BY <1>1, <2>1, <3>2, <3>3, <3>4 DEF Table
      <3>7. HitAt(t, msg, n, r, h)
        BY <2>1, <2>2, <2>5, <3>1, <3>5, <3>6 DEF HitAt, hits
      <3> QED BY <2>1, <3>7
    <2> QED BY <2>4, <2>5
  <1> QED BY <1>2, <1>3
-----------------------------------------------------------------------------
(* The last accepted RREQ of a key is in the set, with its sequence number  *)
(* and metric, for as long as it must be remembered.                        *)
LastRemembered ==
    \A k \in Foreign : accepted[k] # None =>
        /\ accepted[k].rreq.key = k
        /\ accepted[k].until <= now + MaxSeqnumLifetime
        /\ now <= accepted[k].until =>
             \E i \in Entries : /\ table[i].used /\ table[i].key = k
                                /\ table[i].seqnum = accepted[k].rreq.seqnum
                                /\ table[i].metric = accepted[k].rreq.metric
                                /\ table[i].removal >= accepted[k].until

IInv == TypeOK /\ OneEntryPerForeignKey /\ LastRemembered
(* The initial states satisfy the invariant.                                *)
LEMMA InitIInv == Init => IInv
  <1> SUFFICES ASSUME Init PROVE IInv
    OBVIOUS
  <1>1. NoEntry \in Entry /\ NoEntry.rtr = Unspecified /\ ~NoEntry.used
    BY McmsgAssumption, SeqMaxAssumption DEF NoEntry, Entry, SeqNum, MetricValue
  <1>2. TypeOK
    BY <1>1 DEF Init, TypeOK, Table, EmptyTable
  <1>3. OneEntryPerForeignKey /\ LastRemembered
    BY <1>1 DEF Init, OneEntryPerForeignKey, LastRemembered, EmptyTable
  <1> QED BY <1>2, <1>3 DEF IInv

(* What a RREQ of one key does to the set: it stays well typed, entries of  *)
(* other keys stay as long as they are remembered, and nothing appears that *)
(* has another key.                                                         *)
LEMMA ProcessKeeps ==
    ASSUME TypeOK, NEW msg \in Rreq
    PROVE  LET r == Process(table, msg, now)
           IN  /\ r.table \in Table
               /\ \A i \in Entries :
                    /\ r.table[i].rtr = Unspecified
                    /\ r.table[i].used => r.table[i] = table[i] \/ r.table[i].key = msg.key
                    /\ Remembered(table[i], now) /\ table[i].key # msg.key
                         => r.table[i] = table[i]
  <1> DEFINE r == Process(table, msg, now)
             Goal == /\ r.table \in Table
                     /\ \A i \in Entries :
                          /\ r.table[i].rtr = Unspecified
                          /\ r.table[i].used => r.table[i] = table[i] \/ r.table[i].key = msg.key
                          /\ Remembered(table[i], now) /\ table[i].key # msg.key
                               => r.table[i] = table[i]
  <1>1. now \in Nat /\ table \in Table /\ \A i \in Entries : table[i] \in Entry /\ table[i].rtr = Unspecified
    BY DEF TypeOK, Table
  <1>2. \A i \in Entries :
          /\ Purged(table[i], now) \in Entry
          /\ Purged(table[i], now).rtr = Unspecified
          /\ Remembered(table[i], now) => Purged(table[i], now) = table[i]
          /\ Purged(table[i], now).used => Purged(table[i], now) = table[i]
    BY <1>1, PurgedType
  <1>3. CASE NotStored(table, msg, now, r)
    BY <1>2, <1>3 DEF NotStored, Table
  <1>4. ASSUME NEW m \in Entries, StoredAt(table, msg, now, r, m) PROVE Goal
    <2> DEFINE e == EntryOf(msg.key, Purged(table[m], now).rtr, msg.seqnum, msg.metric, now)
    <2>1. e \in Entry /\ e.rtr = Unspecified /\ e.key = msg.key
      BY <1>1, <1>2, McmsgAssumption DEF EntryOf, Entry, Rreq
    <2>2. r.table = [i \in Entries |-> IF i = m THEN e ELSE Purged(table[i], now)]
      BY <1>4 DEF StoredAt
    <2> HIDE DEF e, r
    <2>3. r.table \in Table
      BY <1>2, <2>1, <2>2 DEF Table
    <2> QED BY <1>2, <1>4, <2>1, <2>2, <2>3 DEF StoredAt
  <1>5. ASSUME NEW h \in Entries, HitAt(table, msg, now, r, h) PROVE Goal
    <2>1. table[h].key = msg.key
      BY <1>5 DEF HitAt, ComparableEntries, Comparable
    <2>2. r.table[h].key = msg.key /\ r.table[h].rtr = Unspecified
      BY <1>1, <1>5, <2>1 DEF HitAt, EntryOf
    <2>3. \A i \in Entries \ {h} : r.table[i] \in {table[i], Purged(table[i], now)}
      BY <1>5 DEF HitAt
    <2>4. r.table \in Table
      BY <1>5 DEF HitAt, Table
    <2> HIDE DEF r
    <2> QED BY <1>1, <1>2, <2>1, <2>2, <2>3, <2>4
  <1>6. \/ NotStored(table, msg, now, r)
        \/ \E m \in Entries : StoredAt(table, msg, now, r, m)
        \/ \E h \in Entries : HitAt(table, msg, now, r, h)
    BY <1>1, ProcessCases
  <1> QED BY <1>3, <1>4, <1>5, <1>6

(* An RREQ from another router is comparable with what the set remembers    *)
(* under its key: SeqNoRtr is :: on both sides.                             *)
LEMMA ForeignComparable ==
    ASSUME TypeOK, NEW msg \in Rreq, msg.rtr = Unspecified
    PROVE  ComparableEntries(table, msg, now) =
             {i \in Entries : Remembered(table[i], now) /\ table[i].key = msg.key}
  BY DEF ComparableEntries, Comparable, TypeOK

(* Processing a RREQ leaves one entry per key of another router.            *)
LEMMA UniqueStep ==
    ASSUME TypeOK, OneEntryPerForeignKey, NEW msg \in Rreq,
           msg.key \in Foreign => msg.rtr = Unspecified,
           table' = Process(table, msg, now).table
    PROVE  OneEntryPerForeignKey'
  <1> DEFINE r == Process(table, msg, now)
  <1> SUFFICES ASSUME NEW i \in Entries, NEW j \in Entries,
                      table'[i].used, table'[j].used,
                      table'[i].key \in Foreign, table'[i].key = table'[j].key
               PROVE  i = j
    BY DEF OneEntryPerForeignKey
  <1>1. now \in Nat /\ table \in Table /\ \A k \in Entries : table[k] \in Entry
    BY DEF TypeOK, Table
  <1>2. CASE table'[i].key # msg.key
    <2>1. table'[i] = table[i] /\ table'[j] = table[j]
      BY <1>2, ProcessKeeps
    <2> QED BY <2>1 DEF OneEntryPerForeignKey
  <1>3. CASE table'[i].key = msg.key
    <2>1. ComparableEntries(table, msg, now) =
            {k \in Entries : Remembered(table[k], now) /\ table[k].key = msg.key}
      BY <1>3, ForeignComparable
    <2>2. \A k \in Entries : Purged(table[k], now).used =>
             Purged(table[k], now) = table[k] /\ Remembered(table[k], now)
      BY <1>1, PurgedType
    <2>3. CASE NotStored(table, msg, now, r)
      <3>1. table'[i] = Purged(table[i], now)
        BY <2>3 DEF NotStored
      <3>2. i \in ComparableEntries(table, msg, now)
        BY <1>3, <2>1, <2>2, <3>1
      <3> QED BY <2>3, <3>2 DEF NotStored
    <2>4. ASSUME NEW m \in Entries, StoredAt(table, msg, now, r, m) PROVE i = j
      <3>1. ASSUME NEW k \in Entries, table'[k].used, table'[k].key = msg.key, k # m PROVE FALSE
        <4>1. table'[k] = Purged(table[k], now)
          BY <2>4, <3>1 DEF StoredAt
        <4>2. k \in ComparableEntries(table, msg, now)
          BY <2>1, <2>2, <3>1, <4>1
        <4> QED BY <2>4, <4>2 DEF StoredAt
      <3> QED BY <1>3, <3>1
    <2>5. ASSUME NEW h \in Entries, HitAt(table, msg, now, r, h) PROVE i = j
      <3>1. table[h].used /\ table[h].key = msg.key
        BY <2>1, <2>5 DEF HitAt, Remembered
      <3>2. ASSUME NEW k \in Entries, table'[k].used, table'[k].key = msg.key, k # h PROVE FALSE
        <4>1. table'[k] \in {table[k], Purged(table[k], now)}
          BY <2>5, <3>2 DEF HitAt
        <4>2. table[k].used /\ table[k].key = msg.key
          BY <2>2, <3>2, <4>1
        <4> QED BY <1>3, <3>1, <3>2, <4>2 DEF OneEntryPerForeignKey
      <3> QED BY <1>3, <3>2
    <2>6. \/ NotStored(table, msg, now, r)
          \/ \E m \in Entries : StoredAt(table, msg, now, r, m)
          \/ \E h \in Entries : HitAt(table, msg, now, r, h)
      BY <1>1, ProcessCases
    <2> QED BY <2>3, <2>4, <2>5, <2>6
  <1> QED BY <1>2, <1>3

(* What is remembered of the RREQs of other keys stays.                     *)
LEMMA OthersRemembered ==
    ASSUME TypeOK, LastRemembered, NEW msg \in Rreq,
           table' = Process(table, msg, now).table,
           NEW k \in Foreign, k # msg.key, accepted[k] # None, now <= accepted[k].until
    PROVE  \E i \in Entries : /\ table'[i].used /\ table'[i].key = k
                              /\ table'[i].seqnum = accepted[k].rreq.seqnum
                              /\ table'[i].metric = accepted[k].rreq.metric
                              /\ table'[i].removal >= accepted[k].until
  <1>1. PICK i \in Entries : /\ table[i].used /\ table[i].key = k
                             /\ table[i].seqnum = accepted[k].rreq.seqnum
                             /\ table[i].metric = accepted[k].rreq.metric
                             /\ table[i].removal >= accepted[k].until
    BY DEF LastRemembered
  <1>2. Remembered(table[i], now)
    <2>1. table[i].removal \in Nat /\ now \in Nat /\ accepted[k].until \in Nat
      BY DEF TypeOK, Table, Entry
    <2> QED BY <1>1, <2>1 DEF Remembered, Stale
  <1>3. table'[i] = table[i]
    BY <1>1, <1>2, ProcessKeeps
  <1> QED BY <1>1, <1>3
(* What the set remembers of the last accepted RREQ, as one entry.          *)
Keeps(e, rreq, until) ==
    /\ e.used /\ e.key = rreq.key
    /\ e.seqnum = rreq.seqnum /\ e.metric = rreq.metric
    /\ e.removal >= until

(* A received RREQ of another router: either it becomes the last accepted   *)
(* one and is remembered, or what was accepted before stays remembered.     *)
LEMMA ReceivedRemembered ==
    ASSUME IInv, NEW msg \in Received, msg.key \in Foreign
    PROVE  LET r == Process(table, msg, now)
               a == accepted[msg.key]
           IN  IF r.verdict = "OK" /\ Stores(r.table, msg)
               THEN \E i \in Entries : Keeps(r.table[i], msg, now + MaxSeqnumLifetime)
               ELSE a # None /\ now <= a.until =>
                      \E i \in Entries : Keeps(r.table[i], a.rreq, a.until)
  <1> DEFINE r == Process(table, msg, now)
             a == accepted[msg.key]
             k == msg.key
             New == r.verdict = "OK" /\ Stores(r.table, msg)
  <1>0. TypeOK /\ OneEntryPerForeignKey /\ LastRemembered
    BY DEF IInv
  <1>1. /\ now \in Nat /\ table \in Table /\ MaxSeqnumLifetime \in Nat
        /\ \A i \in Entries : table[i] \in Entry
    BY <1>0, McmsgAssumption DEF TypeOK, Table
  <1>2. msg \in Rreq /\ msg.rtr = Unspecified
    BY InputsAssumption, McmsgAssumption DEF Received, Rreq
  <1>3. ComparableEntries(table, msg, now) =
          {i \in Entries : Remembered(table[i], now) /\ table[i].key = k}
    BY <1>0, <1>2, ForeignComparable
  <1>4. \A i \in Entries : Purged(table[i], now).used =>
           Purged(table[i], now) = table[i] /\ Remembered(table[i], now)
    BY <1>1, PurgedType
  <1>5. ASSUME a # None, now <= a.until
        PROVE  \E i \in Entries : /\ i \in ComparableEntries(table, msg, now)
                                  /\ Keeps(table[i], a.rreq, a.until)
    <2>1. PICK i \in Entries : /\ table[i].used /\ table[i].key = k
                               /\ table[i].seqnum = a.rreq.seqnum
                               /\ table[i].metric = a.rreq.metric
                               /\ table[i].removal >= a.until
      BY <1>0, <1>5 DEF LastRemembered
    <2>2. a.rreq.key = k
      BY <1>0, <1>5 DEF LastRemembered
    <2>3. a.until \in Nat /\ table[i].removal \in Nat
      BY <1>0, <1>1, <1>5 DEF TypeOK, Entry
    <2>4. Remembered(table[i], now)
      BY <1>1, <1>5, <2>1, <2>3 DEF Remembered, Stale
    <2> QED BY <1>3, <2>1, <2>2, <2>4 DEF Keeps
  <1>6. CASE NotStored(table, msg, now, r)
    <2>1. ~(a # None /\ now <= a.until)
      BY <1>5, <1>6 DEF NotStored
    <2>2. ~New
      <3> SUFFICES ASSUME NEW i \in Entries, r.table[i].used, r.table[i].key = k PROVE FALSE
        BY DEF Stores
      <3>1. r.table[i] = Purged(table[i], now)
        BY <1>6 DEF NotStored
      <3>2. i \in ComparableEntries(table, msg, now)
        BY <1>3, <1>4, <3>1
      <3> QED BY <1>6, <3>2 DEF NotStored
    <2> QED BY <2>1, <2>2
  <1>7. ASSUME NEW m \in Entries, StoredAt(table, msg, now, r, m)
        PROVE  /\ \E i \in Entries : Keeps(r.table[i], msg, now + MaxSeqnumLifetime)
               /\ ~(a # None /\ now <= a.until)
    <2>1. r.table[m] = EntryOf(k, Purged(table[m], now).rtr, msg.seqnum, msg.metric, now)
      BY <1>7 DEF StoredAt
    <2>2. Keeps(r.table[m], msg, now + MaxSeqnumLifetime)
      BY <1>1, <2>1 DEF Keeps, EntryOf
    <2>3. ~(a # None /\ now <= a.until)
      BY <1>5, <1>7 DEF StoredAt
    <2> QED BY <2>2, <2>3
  <1>8. ASSUME NEW h \in Entries, HitAt(table, msg, now, r, h)
        PROVE  IF New THEN \E i \in Entries : Keeps(r.table[i], msg, now + MaxSeqnumLifetime)
               ELSE a # None /\ now <= a.until =>
                      \E i \in Entries : Keeps(r.table[i], a.rreq, a.until)
    <2>1. table[h].used /\ table[h].key = k
      BY <1>3, <1>8 DEF HitAt, Remembered
    <2>2. CASE NoNews(table[h], msg)
      <3>1. /\ r.verdict = "REDUNDANT"
            /\ r.table[h] = EntryOf(table[h].key, table[h].rtr, table[h].seqnum, table[h].metric, now)
        BY <1>8, <2>2 DEF HitAt
      <3>2. ASSUME a # None, now <= a.until PROVE Keeps(r.table[h], a.rreq, a.until)
        <4>1. PICK i \in Entries : Keeps(table[i], a.rreq, a.until) /\ table[i].key = k
          BY <1>3, <1>5, <3>2
        <4>2. i = h
          BY <1>0, <2>1, <4>1 DEF OneEntryPerForeignKey, Keeps
        <4>3. a.until <= now + MaxSeqnumLifetime /\ a.until \in Nat
          BY <1>0, <3>2 DEF LastRemembered, TypeOK
        <4> QED BY <1>1, <3>1, <4>1, <4>2, <4>3 DEF Keeps, EntryOf
      <3>3. ~New
        BY <3>1
      <3> QED BY <3>2, <3>3
    <2>3. CASE ~NoNews(table[h], msg)
      <3>1. r.table[h] = EntryOf(table[h].key, table[h].rtr, msg.seqnum, msg.metric, now)
        BY <1>8, <2>3 DEF HitAt
      <3>2. \A j \in Entries \ {h} : Remembered(table[j], now) => table[j].key # k
        BY <1>0, <2>1 DEF OneEntryPerForeignKey, Remembered
      <3>3. r.verdict = "OK"
        BY <1>8, <2>3, <3>2 DEF HitAt
      <3>4. Keeps(r.table[h], msg, now + MaxSeqnumLifetime) /\ Stores(r.table, msg)
        BY <1>1, <2>1, <3>1 DEF Keeps, EntryOf, Stores
      <3> QED BY <3>3, <3>4
    <2> QED BY <2>2, <2>3
  <1>9. \/ NotStored(table, msg, now, r)
        \/ \E m \in Entries : StoredAt(table, msg, now, r, m)
        \/ \E h \in Entries : HitAt(table, msg, now, r, h)
    BY <1>1, <1>2, ProcessCases
  <1> HIDE DEF r
  <1> QED BY <1>6, <1>7, <1>8, <1>9 DEF r

(* Receiving a RREQ keeps the invariant.                                    *)
LEMMA ReceiveStep ==
    ASSUME IInv, NEW msg \in Received, Receive(msg)
    PROVE  IInv'
  <1> DEFINE r == Process(table, msg, now)
             New == msg.key \in Foreign /\ r.verdict = "OK" /\ Stores(r.table, msg)
             a == [rreq |-> msg, until |-> now + MaxSeqnumLifetime]
  <1>0. TypeOK /\ OneEntryPerForeignKey /\ LastRemembered
    BY DEF IInv
  <1>1. msg \in Rreq /\ msg.rtr = Unspecified
    BY InputsAssumption, McmsgAssumption DEF Received, Rreq
  <1>2. /\ table' = r.table /\ now' = now
        /\ accepted' = IF New THEN [accepted EXCEPT ![msg.key] = a] ELSE accepted
    BY DEF Receive
  <1>3. OneEntryPerForeignKey'
    BY <1>0, <1>1, <1>2, UniqueStep
  <1>4. TypeOK'
    <2>1. a \in [rreq : Received, until : Nat]
      BY <1>0, McmsgAssumption DEF TypeOK
    <2>2. accepted' \in [Foreign -> {None} \union [rreq : Received, until : Nat]]
      BY <1>0, <1>2, <2>1 DEF TypeOK
    <2>3. table' \in Table /\ \A i \in Entries : table'[i].rtr = Unspecified
      BY <1>0, <1>1, <1>2, ProcessKeeps
    <2> QED BY <1>0, <1>2, <2>2, <2>3 DEF TypeOK
  <1>5. LastRemembered'
    <2> SUFFICES ASSUME NEW k \in Foreign, accepted'[k] # None
                 PROVE  /\ accepted'[k].rreq.key = k
                        /\ accepted'[k].until <= now + MaxSeqnumLifetime
                        /\ now <= accepted'[k].until =>
                             \E i \in Entries : /\ table'[i].used /\ table'[i].key = k
                                                /\ table'[i].seqnum = accepted'[k].rreq.seqnum
                                                /\ table'[i].metric = accepted'[k].rreq.metric
                                                /\ table'[i].removal >= accepted'[k].until
      BY <1>2 DEF LastRemembered
    <2>1. CASE k # msg.key
      <3>1. accepted'[k] = accepted[k]
        BY <1>0, <1>2, <2>1 DEF TypeOK
      <3> QED BY <1>0, <1>1, <1>2, <2>1, <3>1, OthersRemembered DEF LastRemembered
    <2>2. CASE k = msg.key /\ New
      <3>1. accepted'[k] = a
        BY <1>0, <1>2, <2>2 DEF TypeOK
      <3>2. PICK i \in Entries : Keeps(table'[i], msg, now + MaxSeqnumLifetime)
        BY <1>2, <2>2, ReceivedRemembered
      <3>3. now \in Nat /\ MaxSeqnumLifetime \in Nat
        BY <1>0, McmsgAssumption DEF TypeOK
      <3> QED BY <2>2, <3>1, <3>2, <3>3 DEF Keeps
    <2>3. CASE k = msg.key /\ ~New
      <3>1. accepted'[k] = accepted[k]
        BY <1>2, <2>3
      <3>2. accepted[k].rreq.key = k /\ accepted[k].until <= now + MaxSeqnumLifetime
        BY <1>0, <3>1 DEF LastRemembered
      <3>3. ASSUME now <= accepted[k].until
            PROVE  \E i \in Entries : Keeps(table'[i], accepted[k].rreq, accepted[k].until)
        BY <1>2, <2>3, <3>1, <3>3, ReceivedRemembered
      <3> QED BY <3>1, <3>2, <3>3 DEF Keeps
    <2> QED BY <2>1, <2>2, <2>3
  <1> QED BY <1>3, <1>4, <1>5 DEF IInv

(* So does the RREQ aodvv2_find_route records.                              *)
LEMMA OriginateStep ==
    ASSUME IInv, NEW msg \in Originated, Originate(msg)
    PROVE  IInv'
  <1>0. TypeOK /\ OneEntryPerForeignKey /\ LastRemembered
    BY DEF IInv
  <1>1. msg \in Rreq /\ msg.key \notin Foreign
    BY InputsAssumption DEF Originated, Rreq, Foreign, MetricValue
  <1>2. table' = Process(table, msg, now).table /\ UNCHANGED <<now, accepted>>
    BY DEF Originate
  <1>3. OneEntryPerForeignKey'
    BY <1>0, <1>1, <1>2, UniqueStep
  <1>4. TypeOK'
    <2>1. table' \in Table /\ \A i \in Entries : table'[i].rtr = Unspecified
      BY <1>0, <1>1, <1>2, ProcessKeeps
    <2> QED BY <1>0, <1>2, <2>1 DEF TypeOK
  <1>5. LastRemembered'
    <2>1. \A k \in Foreign : k # msg.key
      BY <1>1
    <2> QED BY <1>0, <1>1, <1>2, <2>1, OthersRemembered DEF LastRemembered
  <1> QED BY <1>3, <1>4, <1>5 DEF IInv

(* The invariant is inductive.                                              *)
LEMMA NextIInv == IInv /\ [Next]_vars => IInv'
  <1> SUFFICES ASSUME IInv, [Next]_vars PROVE IInv'
    OBVIOUS
  <1>1. CASE Tick
    <2>1. TypeOK'
      BY <1>1 DEF Tick, IInv, TypeOK
    <2>2. LastRemembered'
      <3>1. now' = now + 1 /\ now \in Nat /\ UNCHANGED <<table, accepted>> /\ MaxSeqnumLifetime \in Nat
        BY <1>1, McmsgAssumption DEF Tick, IInv, TypeOK
      <3>2. \A k \in Foreign : accepted[k] # None => accepted[k].until \in Nat
        BY DEF IInv, TypeOK
      <3> QED BY <3>1, <3>2 DEF LastRemembered, IInv
    <2> QED BY <1>1, <2>1, <2>2 DEF Tick, IInv, OneEntryPerForeignKey
  <1>2. ASSUME NEW msg \in Received, Receive(msg) PROVE IInv'
    BY <1>2, ReceiveStep
  <1>3. ASSUME NEW msg \in Originated, Originate(msg) PROVE IInv'
    BY <1>3, OriginateStep
  <1>4. CASE UNCHANGED vars
    BY <1>4 DEF vars, IInv, TypeOK, OneEntryPerForeignKey, LastRemembered
  <1> QED BY <1>1, <1>2, <1>3, <1>4 DEF Next

(* The set stays well typed, and no entry ever has a SeqNoRtr.              *)
THEOREM TypeCorrect == Spec => []TypeOK
  <1>1. IInv => TypeOK
    BY DEF IInv
  <1> QED BY <1>1, InitIInv, NextIInv, PTL DEF Spec

(* RREQs of another router take one entry per key, although                 *)
(* _find_comparable_entry purges only up to the entry it finds.             *)
THEOREM OneEntryPerKey == Spec => []OneEntryPerForeignKey
  <1>1. IInv => OneEntryPerForeignKey
    BY DEF IInv
  <1> QED BY <1>1, InitIInv, NextIInv, PTL DEF Spec

(* A second copy of the last accepted RREQ is redundant for the whole time  *)
(* the first must be remembered: a router forwards it once.                 *)
THEOREM ForwardedOnce == Spec => []RetransmissionRedundant
  <1>1. ASSUME IInv PROVE RetransmissionRedundant
    <2> SUFFICES ASSUME NEW k \in Foreign, accepted[k] # None, now <= accepted[k].until
                 PROVE  Process(table, accepted[k].rreq, now).verdict = "REDUNDANT"
      BY DEF RetransmissionRedundant
    <2> DEFINE msg == accepted[k].rreq
               r == Process(table, msg, now)
    <2>1. TypeOK /\ OneEntryPerForeignKey /\ LastRemembered
      BY <1>1 DEF IInv
    <2>2. msg \in Received /\ accepted[k].until \in Nat /\ now \in Nat /\ table \in Table
      BY <2>1 DEF TypeOK
    <2>3. msg \in Rreq /\ msg.rtr = Unspecified /\ msg.key = k
      BY <2>1, <2>2, InputsAssumption, McmsgAssumption DEF Received, Rreq, LastRemembered
    <2>4. PICK i \in Entries : /\ table[i].used /\ table[i].key = k
                               /\ table[i].seqnum = msg.seqnum
                               /\ table[i].metric = msg.metric
                               /\ table[i].removal >= accepted[k].until
      BY <2>1 DEF LastRemembered
    <2>5. Remembered(table[i], now)
      <3>1. table[i].removal \in Nat
        BY <2>2 DEF Table, Entry
      <3> QED BY <2>2, <2>4, <3>1 DEF Remembered, Stale
    <2>6. i \in ComparableEntries(table, msg, now)
      BY <2>1, <2>3, <2>4, <2>5, ForeignComparable
    <2>7. PICK h \in Entries : HitAt(table, msg, now, r, h)
      BY <2>2, <2>3, <2>6, ProcessCases DEF NotStored, StoredAt
    <2>8. h = i
      <3>1. table[h].used /\ table[h].key = k
        BY <2>3, <2>7 DEF HitAt, ComparableEntries, Comparable, Remembered
      <3> QED BY <2>1, <2>4, <3>1 DEF OneEntryPerForeignKey
    <2>9. NoNews(table[i], msg)
      <3>1. msg.seqnum \in SeqNum
        BY <2>3 DEF Rreq
      <3> QED BY <2>4, <3>1, SeqnumCmpSame DEF NoNews
    <2> QED BY <2>7, <2>8, <2>9 DEF HitAt
  <1> QED BY <1>1, InitIInv, NextIInv, PTL DEF Spec

(* Processing a RREQ never rewinds the sequence number of an entry that is  *)
(* remembered, nor gives the entry to another key.                          *)
LEMMA NeverRewindsStep ==
    ASSUME TypeOK, NEW msg \in Rreq, table' = Process(table, msg, now).table,
           NEW i \in Entries, Remembered(table[i], now), table'[i].used
    PROVE  table'[i].key = table[i].key /\ SeqnumCmp(table[i].seqnum, table'[i].seqnum) >= 0
  <1> DEFINE r == Process(table, msg, now)
  <1>1. now \in Nat /\ table \in Table /\ table[i] \in Entry
    BY DEF TypeOK, Table
  <1>2. Purged(table[i], now) = table[i]
    BY <1>1, PurgedType
  <1>3. SeqnumCmp(table[i].seqnum, table[i].seqnum) = 0
    BY <1>1, SeqnumCmpSame DEF Entry
  <1>4. CASE table'[i] = table[i]
    BY <1>3, <1>4
  <1>5. ASSUME NEW h \in Entries, HitAt(table, msg, now, r, h), h = i
        PROVE  /\ table'[i].key = table[i].key
               /\ SeqnumCmp(table[i].seqnum, table'[i].seqnum) >= 0
    <2>1. CASE NoNews(table[i], msg)
      BY <1>3, <1>5, <2>1 DEF HitAt, EntryOf
    <2>2. CASE ~NoNews(table[i], msg)
      <3>1. SeqnumCmp(table[i].seqnum, msg.seqnum) \in Int
        BY <1>1, SeqMaxAssumption DEF SeqnumCmp, SeqNumMod, SeqNum, Entry, Rreq
      <3>2. SeqnumCmp(table[i].seqnum, msg.seqnum) >= 0
        BY <2>2, <3>1 DEF NoNews
      <3> QED BY <1>5, <2>2, <3>2 DEF HitAt, EntryOf
    <2> QED BY <2>1, <2>2
  <1>6. \/ NotStored(table, msg, now, r)
        \/ \E m \in Entries : StoredAt(table, msg, now, r, m)
        \/ \E h \in Entries : HitAt(table, msg, now, r, h)
    BY <1>1, ProcessCases
  <1> HIDE DEF r
  <1>7. \/ table'[i] = table[i]
        \/ \E h \in Entries : HitAt(table, msg, now, r, h) /\ h = i
    BY <1>2, <1>6 DEF NotStored, StoredAt, HitAt, r
  <1> QED BY <1>4, <1>5, <1>7

(* Neither a delayed RREQ nor one that lost against another entry rewinds   *)
(* what the set remembers.                                                  *)
THEOREM NeverRewinds == Spec => SeqnumNeverRewinds
  <1> DEFINE A == \A i \in Entries :
                     (Remembered(table[i], now) /\ table'[i].used) =>
                        /\ table'[i].key = table[i].key
                        /\ SeqnumCmp(table[i].seqnum, table'[i].seqnum) >= 0
  <1>1. TypeOK /\ [Next]_vars => [A]_vars
    <2> SUFFICES ASSUME TypeOK, Next PROVE A
      OBVIOUS
    <2>1. CASE Tick
      <3>1. \A i \in Entries : SeqnumCmp(table[i].seqnum, table[i].seqnum) = 0
        BY SeqnumCmpSame DEF TypeOK, Table, Entry
      <3> QED BY <2>1, <3>1 DEF Tick
    <2>2. ASSUME NEW msg \in Received, Receive(msg) PROVE A
      <3>1. msg \in Rreq
        BY InputsAssumption, McmsgAssumption DEF Received, Rreq
      <3> QED BY <2>2, <3>1, NeverRewindsStep DEF Receive
    <2>3. ASSUME NEW msg \in Originated, Originate(msg) PROVE A
      <3>1. msg \in Rreq
        BY InputsAssumption DEF Originated, Rreq, MetricValue
      <3> QED BY <2>3, <3>1, NeverRewindsStep DEF Originate
    <2> QED BY <2>1, <2>2, <2>3 DEF Next
  <1> QED BY <1>1, TypeCorrect, PTL DEF Spec, SeqnumNeverRewinds
=============================================================================
