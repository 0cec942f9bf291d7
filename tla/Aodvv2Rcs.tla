------------------------------ MODULE Aodvv2Rcs ------------------------------
(***************************************************************************)
(* The Router Client Set (aodvv2_rcs.c) and the threads that use it: the   *)
(* shell adds clients, the VAINA server adds and deletes them, and every   *)
(* thread that runs aodvv2_find_route looks a client up and then copies    *)
(* its entry.  Each function locks the set's mutex for its own loop only;  *)
(* add and delete are a search, an unlocked gap, and a change, and         *)
(* find_route reads the entry after the lookup has unlocked.  A locked     *)
(* section is one step.                                                    *)
(*                                                                         *)
(* RIOT schedules by fixed priority: a thread only runs while no thread of *)
(* a smaller priority number has work to do.  Addresses are strings of     *)
(* Width bits (128 in the code); the cost of a client is left out, nothing *)
(* reads it but the listing.                                               *)
(***************************************************************************)
EXTENDS Integers, FiniteSets, FiniteSetsExt

CONSTANTS Width,      \* bits in an address
          NSlots,     \* CONFIG_AODVV2_RCS_ENTRIES
          Threads,
          Prio,       \* Prio[t]: RIOT priority, a smaller number preempts
          Adders,     \* threads that call aodvv2_rcs_add
          Deleters,   \* threads that call aodvv2_rcs_del
          Seekers     \* threads that call aodvv2_find_route

ASSUME RcsAssumption ==
    /\ Width \in Nat /\ NSlots \in Nat
    /\ Prio \in [Threads -> Nat]
    /\ IsFiniteSet(Adders)
    /\ Adders \subseteq Threads /\ Deleters \subseteq Threads /\ Seekers \subseteq Threads

\* What the lookup without a lock on the entry relies on: a thread that
\* deletes clients never preempts one that looks them up.
ASSUME DeletersDoNotPreempt ==
    \A d \in Deleters, s \in Seekers : d # s => Prio[s] < Prio[d]

\* There is one thread that deletes.
ASSUME OneDeleter == \A d, e \in Deleters : d = e

Addr == [1..Width -> {0, 1}]
Slots == 1..NSlots
PrefixLen == 0..Width

Entry == [addr : Addr, len : PrefixLen, used : BOOLEAN]
NoEntry == [addr |-> [b \in 1..Width |-> 0], len |-> 0, used |-> FALSE]

VARIABLES entries,    \* the array _entries
          call        \* call[t]: what thread t is in the middle of

vars == <<entries, call>>

Idle == [op |-> "idle"]
Call == {Idle} \union [op : {"add"}, addr : Addr, len : PrefixLen]
               \union [op : {"del"}, addr : Addr, len : PrefixLen, slot : Slots]
               \union [op : {"seek"}, addr : Addr, slot : Slots]

Runnable(t) == \A u \in Threads : Prio[u] < Prio[t] => call[u] = Idle
-----------------------------------------------------------------------------
\* A prefix length received from a caller, limited to the address length.
Clamp(len) == IF len > Width THEN Width ELSE len

\* ipv6_addr_match_prefix: the number of leading bits two addresses share.
MatchPrefix(a, b) == Max({n \in PrefixLen : \A i \in 1..n : a[i] = b[i]})

\* ipv6_addr_init_prefix overwrites the first len bits of an address.
InitPrefix(out, prefix, len) == [b \in 1..Width |-> IF b <= len THEN prefix[b] ELSE out[b]]

Covers(e, addr) == e.used /\ MatchPrefix(e.addr, addr) >= e.len

First(S) == IF S = {} THEN 0 ELSE Min(S)

\* aodvv2_rcs_matches: the slot of the client with this very prefix.
Matches(addr, len) == First({i \in Slots : Covers(entries[i], addr) /\ entries[i].len = len})

\* Variant: unused entries are not skipped.
IsClientAnySlot(addr) ==
    First({i \in Slots : MatchPrefix(entries[i].addr, addr) >= entries[i].len})

\* aodvv2_rcs_is_client: the first client whose prefix covers the address.
IsClient(addr) == First({i \in Slots : Covers(entries[i], addr)})

Init ==
    /\ entries = [i \in Slots |-> NoEntry]
    /\ call = [t \in Threads |-> Idle]

\* Variant: a client is added without looking for it.
AddCheckBlind(t, addr, len) ==
    /\ t \in Adders
    /\ call[t] = Idle /\ Runnable(t)
    /\ call' = [call EXCEPT ![t] = [op |-> "add", addr |-> addr, len |-> Clamp(len)]]
    /\ UNCHANGED entries

\* aodvv2_rcs_add up to the result of aodvv2_rcs_matches.
AddCheck(t, addr, len) ==
    /\ t \in Adders
    /\ call[t] = Idle /\ Runnable(t)
    /\ call' = IF Matches(addr, Clamp(len)) # 0 THEN call
               ELSE [call EXCEPT ![t] = [op |-> "add", addr |-> addr, len |-> Clamp(len)]]
    /\ UNCHANGED entries

\* Variant: a full set gives up its first entry.
AddStoreOverwrites(t) ==
    LET free == {i \in Slots : ~entries[i].used}
    IN  /\ call[t].op = "add" /\ Runnable(t)
        /\ entries' = [entries EXCEPT ![IF free = {} THEN 1 ELSE Min(free)] =
                         [addr |-> InitPrefix(@.addr, call[t].addr, call[t].len),
                          len |-> call[t].len, used |-> TRUE]]
        /\ call' = [call EXCEPT ![t] = Idle]

\* aodvv2_rcs_add: the first free slot takes the client; a full set none.
AddStore(t) ==
    LET free == {i \in Slots : ~entries[i].used}
    IN  /\ call[t].op = "add" /\ Runnable(t)
        /\ entries' = IF free = {} THEN entries
                      ELSE [entries EXCEPT ![Min(free)] =
                              [addr |-> InitPrefix(@.addr, call[t].addr, call[t].len),
                               len |-> call[t].len, used |-> TRUE]]
        /\ call' = [call EXCEPT ![t] = Idle]

\* aodvv2_rcs_del up to the result of aodvv2_rcs_matches.
DelCheck(t, addr, len) ==
    LET slot == Matches(addr, Clamp(len))
    IN  /\ t \in Deleters
        /\ call[t] = Idle /\ Runnable(t)
        /\ call' = IF slot = 0 THEN call
                   ELSE [call EXCEPT ![t] = [op |-> "del", addr |-> addr,
                                             len |-> Clamp(len), slot |-> slot]]
        /\ UNCHANGED entries

\* aodvv2_rcs_del: clear the slot the search returned.
DelClear(t) ==
    /\ call[t].op = "del" /\ Runnable(t)
    /\ entries' = [entries EXCEPT ![call[t].slot] = NoEntry]
    /\ call' = [call EXCEPT ![t] = Idle]

\* aodvv2_find_route: the lookup.
SeekClient(t, addr) ==
    LET slot == IsClient(addr)
    IN  /\ t \in Seekers
        /\ call[t] = Idle /\ Runnable(t)
        /\ call' = IF slot = 0 THEN call
                   ELSE [call EXCEPT ![t] = [op |-> "seek", addr |-> addr, slot |-> slot]]
        /\ UNCHANGED entries

\* aodvv2_find_route: address and prefix length are copied from the entry.
ReadClient(t) ==
    /\ call[t].op = "seek" /\ Runnable(t)
    /\ call' = [call EXCEPT ![t] = Idle]
    /\ UNCHANGED entries

Next ==
    \E t \in Threads :
        \/ \E addr \in Addr, len \in 0..(Width + 1) :
              AddCheck(t, addr, len) \/ DelCheck(t, addr, len)
        \/ \E addr \in Addr : SeekClient(t, addr)
        \/ AddStore(t) \/ DelClear(t) \/ ReadClient(t)

Spec == Init /\ [][Next]_vars

-----------------------------------------------------------------------------
TypeOK ==
    /\ entries \in [Slots -> Entry]
    /\ call \in [Threads -> Call]

(* Between the unlock of the search and the lock of the removal the slot    *)
(* is not taken over by another client: a delete removes what it found.     *)
DeleteHitsItsMatch ==
    \A t \in Threads : call[t].op = "del" =>
        LET e == entries[call[t].slot]
        IN  Covers(e, call[t].addr) /\ e.len = call[t].len

\* The slots that hold the client with this very prefix, and the threads that
\* did not find it and are going to store it.
Holding(addr, len) == {i \in Slots : Covers(entries[i], addr) /\ entries[i].len = len}
Storing(addr, len) ==
    {t \in Adders : /\ call[t].op = "add" /\ call[t].len = len
                    /\ MatchPrefix(call[t].addr, addr) >= len}

(* "client exists, not adding it" (aodvv2_rcs.c:58) is decided under one    *)
(* lock and acted on under another, so that two threads can both add a      *)
(* client.  It takes a thread for every copy, though: whatever is added and *)
(* deleted in between, copies do not pile up.                               *)
DuplicatesBounded ==
    \A addr \in Addr, len \in PrefixLen :
        Cardinality(Holding(addr, len)) + Cardinality(Storing(addr, len)) <= Cardinality(Adders)

(* The entry aodvv2_find_route copies after the lookup has unlocked still   *)
(* is the client it looked up: no half-deleted prefix goes out in a RREQ.   *)
SeekerReadsItsClient ==
    \A t \in Threads : call[t].op = "seek" => Covers(entries[call[t].slot], call[t].addr)
=============================================================================
