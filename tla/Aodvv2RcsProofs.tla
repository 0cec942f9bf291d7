--------------------------- MODULE Aodvv2RcsProofs ---------------------------
(***************************************************************************)
(* Proofs about the Router Client Set, for every address length, every     *)
(* size of the set, and every set of threads whose priorities keep         *)
(* deleters from preempting seekers.                                       *)
(***************************************************************************)
EXTENDS Aodvv2Rcs, FiniteSetTheorems, WellFoundedInduction, TLAPS

(* What Min returns: the first slot of a loop.                              *)
LEMMA MinInSet ==
    ASSUME NEW S, S \subseteq Nat, S # {}
    PROVE  Min(S) \in S /\ \A y \in S : Min(S) <= y
  <1> DEFINE Less == {p \in Nat \X Nat : p[1] < p[2]}
  <1>1. IsWellFoundedOn(Less, Nat)
    <2>1. Less = OpToRel(<, Nat)
      BY Zenon DEF OpToRel
    <2> QED BY <2>1, NatLessThanWellFounded, Zenon
  <1>2. \A x, y \in Nat : <<y, x>> \in Less <=> y < x
    OBVIOUS
  <1> HIDE DEF Less
  <1>3. \E x \in S : \A y \in S : ~(<<y, x>> \in Less)
    BY <1>1, WFMin, Zenon
  <1>4. PICK x \in S : \A y \in S : ~(y < x)
    BY <1>2, <1>3, Zenon
  <1>5. \A y \in S : x <= y
    BY <1>4
  <1> QED BY <1>5 DEF Min

(* Who is in the middle of which call.                                      *)
Roles == \A t \in Threads : /\ call[t].op = "del" => t \in Deleters
                            /\ call[t].op = "seek" => t \in Seekers

IInv == TypeOK /\ Roles /\ DeleteHitsItsMatch /\ SeekerReadsItsClient

(* A loop over the slots returns one it accepts, or none when there is none.*)
LEMMA FirstInSlots ==
    ASSUME NEW S \in SUBSET Slots
    PROVE  First(S) # 0 => First(S) \in S
  <1>1. CASE S = {}
    BY <1>1 DEF First
  <1>2. CASE S # {}
    <2>1. S \subseteq Nat
      BY RcsAssumption DEF Slots
    <2> QED BY <1>2, <2>1, MinInSet DEF First
  <1> QED BY <1>1, <1>2

(* The initial states satisfy the invariant.                                *)
LEMMA InitIInv == Init => IInv
  BY RcsAssumption
  DEF Init, IInv, TypeOK, Roles, DeleteHitsItsMatch, SeekerReadsItsClient,
      Idle, Call, NoEntry, Entry, Addr, PrefixLen

(* A step that leaves the array alone and moves thread t to a call c that   *)
(* is a right one for t and for what the array holds.                       *)
LEMMA CallStep ==
    ASSUME IInv, NEW t \in Threads, NEW c \in Call,
           call' = [call EXCEPT ![t] = c], UNCHANGED entries,
           c.op = "del" => /\ t \in Deleters
                           /\ Covers(entries[c.slot], c.addr)
                           /\ entries[c.slot].len = c.len,
           c.op = "seek" => t \in Seekers /\ Covers(entries[c.slot], c.addr)
    PROVE  IInv'
  <1>1. \A u \in Threads : call'[u] = IF u = t THEN c ELSE call[u]
    BY DEF IInv, TypeOK
  <1>2. TypeOK'
    BY DEF IInv, TypeOK
  <1>3. Roles'
    BY <1>1 DEF IInv, Roles
  <1>4. DeleteHitsItsMatch'
    BY <1>1 DEF IInv, DeleteHitsItsMatch, Covers
  <1>5. SeekerReadsItsClient'
    BY <1>1 DEF IInv, SeekerReadsItsClient, Covers
  <1> QED BY <1>2, <1>3, <1>4, <1>5 DEF IInv

(* aodvv2_rcs_add stores into a slot nobody has found.                      *)
LEMMA AddStoreStep ==
    ASSUME IInv, NEW t \in Threads, AddStore(t)
    PROVE  IInv'
  <1> DEFINE free == {i \in Slots : ~entries[i].used}
             new == [addr |-> InitPrefix(entries[Min(free)].addr, call[t].addr, call[t].len),
                     len |-> call[t].len, used |-> TRUE]
  <1>1. Idle \in Call /\ Idle.op # "del" /\ Idle.op # "seek"
    BY DEF Idle, Call
  <1>2. CASE free = {}
    <2>1. UNCHANGED entries /\ call' = [call EXCEPT ![t] = Idle]
      BY <1>2 DEF AddStore
    <2> QED BY <1>1, <2>1, CallStep
  <1>3. CASE free # {}
    <2>1. entries' = [entries EXCEPT ![Min(free)] = new] /\ call' = [call EXCEPT ![t] = Idle]
      BY <1>3 DEF AddStore
    <2>2. Min(free) \in Slots /\ ~entries[Min(free)].used
      <3>1. free \subseteq Nat
        BY RcsAssumption DEF Slots
      <3>2. Min(free) \in free
        BY <1>3, <3>1, MinInSet
      <3> QED BY <3>2
    <2>3. call[t].addr \in Addr /\ call[t].len \in PrefixLen
      BY DEF IInv, TypeOK, Call, Idle, AddStore
    <2>4. new \in Entry
      <3>1. entries[Min(free)].addr \in Addr
        BY <2>2 DEF IInv, TypeOK, Entry
      <3> QED BY <2>3, <3>1 DEF InitPrefix, Entry, Addr
    <2> HIDE DEF free, new
    <2>5. TypeOK'
      BY <1>1, <2>1, <2>2, <2>4 DEF IInv, TypeOK
    <2>6. /\ \A u \in Threads : call'[u] = IF u = t THEN Idle ELSE call[u]
          /\ \A i \in Slots : entries[i].used => entries'[i] = entries[i]
      BY <2>1, <2>2 DEF IInv, TypeOK
    <2>7. Roles'
      BY <1>1, <2>6 DEF IInv, Roles
    <2>8. \A u \in Threads : call[u].op \in {"del", "seek"} => call[u].slot \in Slots
      BY DEF IInv, TypeOK, Call, Idle
    <2>9. DeleteHitsItsMatch' /\ SeekerReadsItsClient'
      BY <1>1, <2>6, <2>8 DEF IInv, DeleteHitsItsMatch, SeekerReadsItsClient, Covers
    <2> QED BY <2>5, <2>7, <2>9 DEF IInv
  <1> QED BY <1>2, <1>3

(* aodvv2_rcs_del clears its slot while no seeker is between lookup and     *)
(* copy: they would run first.                                              *)
LEMMA DelClearStep ==
    ASSUME IInv, NEW t \in Threads, DelClear(t)
    PROVE  IInv'
  <1>1. /\ entries' = [entries EXCEPT ![call[t].slot] = NoEntry]
        /\ call' = [call EXCEPT ![t] = Idle]
        /\ call[t].op = "del" /\ t \in Deleters
    BY DEF DelClear, IInv, Roles
  <1>2. \A u \in Threads : call'[u].op # "del" /\ call'[u].op # "seek"
    <2> SUFFICES ASSUME NEW u \in Threads PROVE call'[u].op # "del" /\ call'[u].op # "seek"
      OBVIOUS
    <2>1. CASE u = t
      BY <1>1, <2>1 DEF Idle, IInv, TypeOK
    <2>2. CASE u # t
      <3>1. call'[u] = call[u]
        BY <1>1, <2>2 DEF IInv, TypeOK
      <3>2. call[u].op # "del"
        BY <1>1, <2>2, OneDeleter DEF IInv, Roles
      <3>3. call[u].op # "seek"
        <4> SUFFICES ASSUME u \in Seekers PROVE call[u] = Idle
          BY DEF IInv, Roles, Idle
        <4>1. Prio[u] < Prio[t]
          BY <1>1, <2>2, DeletersDoNotPreempt
        <4> QED BY <4>1 DEF DelClear, Runnable
      <3> QED BY <3>1, <3>2, <3>3
    <2> QED BY <2>1, <2>2
  <1>3. TypeOK'
    BY <1>1, RcsAssumption DEF IInv, TypeOK, Call, Idle, NoEntry, Entry, Addr, PrefixLen
  <1> QED BY <1>2, <1>3 DEF IInv, Roles, DeleteHitsItsMatch, SeekerReadsItsClient

(* A prefix length from a caller is limited to the address.                 *)
LEMMA ClampRange ==
    ASSUME NEW len \in 0..(Width + 1)
    PROVE  Clamp(len) \in PrefixLen
  BY RcsAssumption DEF Clamp, PrefixLen

(* The invariant is inductive.                                              *)
LEMMA NextIInv == IInv /\ [Next]_vars => IInv'
  <1> SUFFICES ASSUME IInv, [Next]_vars PROVE IInv'
    OBVIOUS
  <1>1. ASSUME NEW t \in Threads, NEW addr \in Addr, NEW len \in 0..(Width + 1),
               AddCheck(t, addr, len)
        PROVE  IInv'
    <2> DEFINE c == IF Matches(addr, Clamp(len)) # 0 THEN call[t]
                    ELSE [op |-> "add", addr |-> addr, len |-> Clamp(len)]
    <2>1. call' = [call EXCEPT ![t] = c] /\ UNCHANGED entries
      BY <1>1 DEF AddCheck, IInv, TypeOK
    <2>2. call[t] = Idle
      BY <1>1 DEF AddCheck
    <2>3. c \in Call /\ c.op # "del" /\ c.op # "seek"
      BY <2>2, ClampRange DEF Call, Idle
    <2> QED BY <2>1, <2>3, CallStep
  <1>2. ASSUME NEW t \in Threads, NEW addr \in Addr, NEW len \in 0..(Width + 1),
               DelCheck(t, addr, len)
        PROVE  IInv'
    <2> DEFINE slot == Matches(addr, Clamp(len))
               c == IF slot = 0 THEN call[t]
                    ELSE [op |-> "del", addr |-> addr, len |-> Clamp(len), slot |-> slot]
    <2>1. call' = [call EXCEPT ![t] = c] /\ UNCHANGED entries
      BY <1>2 DEF DelCheck, IInv, TypeOK
    <2>2. call[t] = Idle /\ t \in Deleters
      BY <1>2 DEF DelCheck
    <2>3. slot # 0 => /\ slot \in Slots /\ Covers(entries[slot], addr)
                      /\ entries[slot].len = Clamp(len)
      BY FirstInSlots DEF Matches
    <2> HIDE DEF slot
    <2>4. c \in Call
      BY <2>2, <2>3, ClampRange DEF Call
    <2>5. c.op = "del" => /\ t \in Deleters /\ Covers(entries[c.slot], c.addr)
                          /\ entries[c.slot].len = c.len
      BY <2>2, <2>3 DEF Idle
    <2>6. c.op # "seek"
      BY <2>2 DEF Idle
    <2> QED BY <2>1, <2>4, <2>5, <2>6, CallStep
  <1>3. ASSUME NEW t \in Threads, NEW addr \in Addr, SeekClient(t, addr)
        PROVE  IInv'
    <2> DEFINE slot == IsClient(addr)
               c == IF slot = 0 THEN call[t]
                    ELSE [op |-> "seek", addr |-> addr, slot |-> slot]
    <2>1. call' = [call EXCEPT ![t] = c] /\ UNCHANGED entries
      BY <1>3 DEF SeekClient, IInv, TypeOK
    <2>2. call[t] = Idle /\ t \in Seekers
      BY <1>3 DEF SeekClient
    <2>3. slot # 0 => slot \in Slots /\ Covers(entries[slot], addr)
      BY FirstInSlots DEF IsClient
    <2> HIDE DEF slot
    <2>4. c \in Call
      BY <2>2, <2>3 DEF Call
    <2>5. c.op = "seek" => t \in Seekers /\ Covers(entries[c.slot], c.addr)
      BY <2>2, <2>3 DEF Idle
    <2>6. c.op # "del"
      BY <2>2 DEF Idle
    <2> QED BY <2>1, <2>4, <2>5, <2>6, CallStep
  <1>4. ASSUME NEW t \in Threads, AddStore(t) PROVE IInv'
    BY <1>4, AddStoreStep
  <1>5. ASSUME NEW t \in Threads, DelClear(t) PROVE IInv'
    BY <1>5, DelClearStep
  <1>6. ASSUME NEW t \in Threads, ReadClient(t) PROVE IInv'
    <2>1. Idle \in Call /\ Idle.op # "del" /\ Idle.op # "seek"
      BY DEF Idle, Call
    <2> QED BY <1>6, <2>1, CallStep DEF ReadClient
  <1>7. CASE UNCHANGED vars
    BY <1>7 DEF vars, IInv, TypeOK, Roles, DeleteHitsItsMatch, SeekerReadsItsClient, Covers
  <1> QED BY <1>1, <1>2, <1>3, <1>4, <1>5, <1>6, <1>7 DEF Next

(* The entries stay well-formed clients, and the calls in progress name     *)
(* slots of the array.                                                      *)
THEOREM TypeCorrect == Spec => []TypeOK
  <1>1. IInv => TypeOK
    BY DEF IInv
  <1> QED BY <1>1, InitIInv, NextIInv, PTL DEF Spec

(* A delete removes the client its search found, although the lock is       *)
(* released in between.                                                     *)
THEOREM DeleteRemovesItsMatch == Spec => []DeleteHitsItsMatch
  <1>1. IInv => DeleteHitsItsMatch
    BY DEF IInv
  <1> QED BY <1>1, InitIInv, NextIInv, PTL DEF Spec

(* aodvv2_find_route copies the client it looked up, although it reads the  *)
(* entry without the lock: a consequence of the threads' priorities.        *)
THEOREM SeekerReadsWhatItFound == Spec => []SeekerReadsItsClient
  <1>1. IInv => SeekerReadsItsClient
    BY DEF IInv
  <1> QED BY <1>1, InitIInv, NextIInv, PTL DEF Spec
-----------------------------------------------------------------------------
(* What Max returns: the longest of some prefixes.                          *)
LEMMA MaxInSet ==
    ASSUME NEW S, S \subseteq PrefixLen, S # {}
    PROVE  Max(S) \in S /\ \A y \in S : Max(S) >= y
  <1> DEFINE T == {Width - x : x \in S}
  <1>1. T \subseteq Nat /\ T # {} /\ S \subseteq Nat /\ Width \in Nat
    BY RcsAssumption DEF PrefixLen
  <1>2. Min(T) \in T /\ \A y \in T : Min(T) <= y
    <2> HIDE DEF T
    <2> QED BY <1>1, MinInSet
  <1>3. PICK x \in S : Min(T) = Width - x
    BY <1>2
  <1>4. \A y \in S : x >= y
    <2> TAKE y \in S
    <2>1. Width - x <= Width - y
      BY <1>2, <1>3
    <2> QED BY <1>1, <2>1
  <1> QED BY <1>4 DEF Max

(* Two addresses share a prefix as long as their bits agree.                *)
LEMMA MatchIs ==
    ASSUME NEW a \in Addr, NEW b \in Addr, NEW len \in PrefixLen
    PROVE  MatchPrefix(a, b) >= len <=> \A i \in 1..len : a[i] = b[i]
  <1> DEFINE S == {n \in PrefixLen : \A i \in 1..n : a[i] = b[i]}
  <1>1. 0 \in S /\ S \subseteq PrefixLen /\ PrefixLen \subseteq Nat
    BY RcsAssumption DEF PrefixLen
  <1>2. Max(S) \in S /\ \A y \in S : Max(S) >= y
    <2> HIDE DEF S
    <2> QED BY <1>1, MaxInSet
  <1>3. MatchPrefix(a, b) = Max(S)
    BY Zenon DEF MatchPrefix
  <1>4. ASSUME Max(S) >= len PROVE \A i \in 1..len : a[i] = b[i]
    <2>1. \A m, l \in Nat : m >= l => 1..l \subseteq 1..m
      OBVIOUS
    <2>2. Max(S) \in Nat /\ len \in Nat
      BY <1>1, <1>2, Zenon
    <2>3. 1..len \subseteq 1..Max(S)
      BY <1>4, <2>1, <2>2, Zenon
    <2> QED BY <1>2, <2>3, Zenon
  <1>5. ASSUME \A i \in 1..len : a[i] = b[i] PROVE Max(S) >= len
    BY <1>2, <1>5
  <1> QED BY <1>3, <1>4, <1>5

(* Addresses that share a prefix with one share it with each other.         *)
LEMMA MatchTransitive ==
    ASSUME NEW a \in Addr, NEW b \in Addr, NEW c \in Addr, NEW len \in PrefixLen,
           MatchPrefix(a, b) >= len
    PROVE  MatchPrefix(b, c) >= len <=> MatchPrefix(a, c) >= len
  BY MatchIs

(* Only threads that add are in the middle of an addition.                  *)
AddRole == \A t \in Threads : call[t].op = "add" => t \in Adders

(* Both sets are finite, and small changes of them change their sizes a     *)
(* little.                                                                  *)
LEMMA Sizes ==
    ASSUME NEW addr, NEW len
    PROVE  /\ IsFiniteSet(Holding(addr, len)) /\ IsFiniteSet(Storing(addr, len))
           /\ Cardinality(Storing(addr, len)) <= Cardinality(Adders)
           /\ Cardinality(Holding(addr, len)) \in Nat /\ Cardinality(Storing(addr, len)) \in Nat
           /\ Cardinality(Adders) \in Nat
  <1>1. IsFiniteSet(Slots) /\ IsFiniteSet(Adders)
    BY RcsAssumption, FS_Interval DEF Slots
  <1>2. Holding(addr, len) \subseteq Slots /\ Storing(addr, len) \subseteq Adders
    BY DEF Holding, Storing
  <1> QED BY <1>1, <1>2, FS_Subset, FS_CardinalityType

LEMMA SizesNext ==
    ASSUME NEW addr, NEW len
    PROVE  /\ IsFiniteSet(Holding(addr, len)') /\ IsFiniteSet(Storing(addr, len)')
           /\ Cardinality(Storing(addr, len)') <= Cardinality(Adders)
           /\ Cardinality(Holding(addr, len)') \in Nat /\ Cardinality(Storing(addr, len)') \in Nat
  <1>1. IsFiniteSet(Slots) /\ IsFiniteSet(Adders)
    BY RcsAssumption, FS_Interval DEF Slots
  <1>2. Holding(addr, len)' \subseteq Slots /\ Storing(addr, len)' \subseteq Adders
    BY DEF Holding, Storing
  <1> QED BY <1>1, <1>2, FS_Subset, FS_CardinalityType

(* Fewer copies and fewer threads about to add one are within the bound.    *)
LEMMA FewerBounded ==
    ASSUME DuplicatesBounded, NEW addr \in Addr, NEW len \in PrefixLen,
           Holding(addr, len)' \subseteq Holding(addr, len),
           Storing(addr, len)' \subseteq Storing(addr, len)
    PROVE  Cardinality(Holding(addr, len)') + Cardinality(Storing(addr, len)') <= Cardinality(Adders)
  <1>1. /\ Cardinality(Holding(addr, len)') <= Cardinality(Holding(addr, len))
        /\ Cardinality(Storing(addr, len)') <= Cardinality(Storing(addr, len))
    BY Sizes, FS_Subset
  <1>2. Cardinality(Holding(addr, len)) + Cardinality(Storing(addr, len)) <= Cardinality(Adders)
    BY DEF DuplicatesBounded
  <1> QED BY <1>1, <1>2, Sizes, SizesNext

(* Starting an addition: there is no copy yet.                              *)
LEMMA CheckBounded ==
    ASSUME IInv, IInv', DuplicatesBounded, NEW t \in Threads, NEW a \in Addr,
           NEW l \in 0..(Width + 1), AddCheck(t, a, l),
           NEW addr \in Addr, NEW len \in PrefixLen
    PROVE  Cardinality(Holding(addr, len)') + Cardinality(Storing(addr, len)') <= Cardinality(Adders)
  <1>1. CASE Matches(a, Clamp(l)) # 0
    <2>1. UNCHANGED <<entries, call>>
      BY <1>1 DEF AddCheck
    <2> QED BY <2>1, FewerBounded DEF Holding, Storing, Covers
  <1>2. CASE Matches(a, Clamp(l)) = 0
    <2>1. /\ call' = [call EXCEPT ![t] = [op |-> "add", addr |-> a, len |-> Clamp(l)]]
          /\ UNCHANGED entries
      BY <1>2 DEF AddCheck
    <2>2. Holding(addr, len)' = Holding(addr, len)
      BY <2>1 DEF Holding, Covers
    <2>3. \A u \in Threads : call'[u] = IF u = t THEN [op |-> "add", addr |-> a, len |-> Clamp(l)]
                                        ELSE call[u]
      BY <2>1 DEF IInv, TypeOK
    <2>4. CASE len = Clamp(l) /\ MatchPrefix(a, addr) >= len
      <3>1. \A i \in Slots : ~(Covers(entries[i], a) /\ entries[i].len = len)
        <4> DEFINE S == {i \in Slots : Covers(entries[i], a) /\ entries[i].len = len}
        <4>1. S = {}
          <5>1. First(S) = 0
            BY <1>2, <2>4, Zenon DEF Matches
          <5>2. S \in SUBSET Nat /\ 0 \notin S
            BY RcsAssumption DEF Slots
          <5> HIDE DEF S
          <5>3. S # {} => Min(S) \in S
            BY <5>2, MinInSet
          <5> QED BY <5>1, <5>2, <5>3 DEF First
        <4> QED BY <4>1
      <3>2. Holding(addr, len) = {}
        <4> SUFFICES ASSUME NEW i \in Slots, Covers(entries[i], addr), entries[i].len = len
                     PROVE  FALSE
          BY DEF Holding
        <4>1. entries[i].addr \in Addr /\ entries[i].used
          BY DEF IInv, TypeOK, Entry, Covers
        <4>2. MatchPrefix(entries[i].addr, addr) >= len
          BY DEF Covers
        <4>3. MatchPrefix(entries[i].addr, a) >= len
          BY <2>4, <4>1, <4>2, MatchIs
        <4> QED BY <3>1, <4>1, <4>3 DEF Covers
      <3> QED BY <2>2, <3>2, SizesNext, FS_EmptySet
    <2>5. CASE ~(len = Clamp(l) /\ MatchPrefix(a, addr) >= len)
      <3>1. Storing(addr, len)' \subseteq Storing(addr, len)
        BY <2>3, <2>5, RcsAssumption DEF Storing
      <3> QED BY <2>2, <3>1, FewerBounded
    <2> QED BY <2>4, <2>5
  <1> QED BY <1>1, <1>2

(* Ending one: a thread less is about to add the copy there is more.        *)
LEMMA StoreBounded ==
    ASSUME IInv, IInv', DuplicatesBounded, AddRole, NEW t \in Threads, AddStore(t),
           NEW addr \in Addr, NEW len \in PrefixLen
    PROVE  Cardinality(Holding(addr, len)') + Cardinality(Storing(addr, len)') <= Cardinality(Adders)
  <1> DEFINE free == {i \in Slots : ~entries[i].used}
             new == [addr |-> InitPrefix(entries[Min(free)].addr, call[t].addr, call[t].len),
                     len |-> call[t].len, used |-> TRUE]
  <1>1. /\ call' = [call EXCEPT ![t] = Idle] /\ call[t].op = "add" /\ t \in Adders
        /\ call[t].addr \in Addr /\ call[t].len \in PrefixLen
    BY DEF AddStore, AddRole, IInv, TypeOK, Call, Idle
  <1>2. \A u \in Threads : call'[u] = IF u = t THEN Idle ELSE call[u]
    BY <1>1 DEF IInv, TypeOK
  <1>3. Storing(addr, len)' = Storing(addr, len) \ {t}
    BY <1>2, RcsAssumption DEF Storing, Idle
  <1>4. CASE free = {}
    <2>1. UNCHANGED entries
      BY <1>4 DEF AddStore
    <2> QED BY <1>3, <2>1, FewerBounded DEF Holding, Covers
  <1>5. CASE free # {}
    <2>1. entries' = [entries EXCEPT ![Min(free)] = new]
      BY <1>5 DEF AddStore
    <2>2. Min(free) \in Slots /\ ~entries[Min(free)].used
      <3>1. free \subseteq Nat
        BY RcsAssumption DEF Slots
      <3>2. Min(free) \in free
        BY <1>5, <3>1, MinInSet
      <3> QED BY <3>2
    <2>3. \A b \in 1..call[t].len : new.addr[b] = call[t].addr[b]
      BY <1>1, RcsAssumption DEF InitPrefix, PrefixLen
    <2>4. new.len = call[t].len
      OBVIOUS
    <2> DEFINE k == Min(free)
    <2> HIDE DEF free, new, k
    <2>5. \A i \in Slots : entries'[i] = IF i = k THEN new ELSE entries[i]
      BY <2>1 DEF IInv, TypeOK, k
    <2>6. new \in Entry
      BY <2>2, <2>5 DEF IInv, TypeOK, k
    <2>7. CASE t \in Storing(addr, len)
      <3>1. Holding(addr, len)' \subseteq Holding(addr, len) \cup {k}
        BY <2>5 DEF Holding, Covers
      <3>2. Cardinality(Holding(addr, len)') <= Cardinality(Holding(addr, len)) + 1
        <4>1. /\ IsFiniteSet(Holding(addr, len) \cup {k})
              /\ Cardinality(Holding(addr, len) \cup {k}) <= Cardinality(Holding(addr, len)) + 1
          BY Sizes, FS_AddElement
        <4>2. Cardinality(Holding(addr, len)') <= Cardinality(Holding(addr, len) \cup {k})
          BY <3>1, <4>1, FS_Subset
        <4> QED BY <4>1, <4>2, Sizes, SizesNext, FS_CardinalityType
      <3>3. Cardinality(Storing(addr, len)') = Cardinality(Storing(addr, len)) - 1
        BY <1>3, <2>7, Sizes, FS_RemoveElement
      <3>4. Cardinality(Holding(addr, len)) + Cardinality(Storing(addr, len)) <= Cardinality(Adders)
        BY DEF DuplicatesBounded
      <3> QED BY <3>2, <3>3, <3>4, Sizes, SizesNext
    <2>8. CASE t \notin Storing(addr, len)
      <3>1. ~(call[t].len = len /\ MatchPrefix(call[t].addr, addr) >= len)
        BY <1>1, <2>8 DEF Storing
      <3>2. ~(new.len = len /\ Covers(new, addr))
        <4> SUFFICES ASSUME new.len = len, Covers(new, addr) PROVE FALSE
          OBVIOUS
        <4>1. MatchPrefix(new.addr, addr) >= len /\ new.addr \in Addr
          BY <2>6 DEF Covers, Entry
        <4>2. \A b \in 1..len : new.addr[b] = addr[b]
          BY <4>1, MatchIs
        <4>3. \A b \in 1..len : call[t].addr[b] = addr[b]
          BY <2>3, <2>4, <4>2
        <4> QED BY <1>1, <2>4, <3>1, <4>3, MatchIs
      <3>3. Holding(addr, len)' \subseteq Holding(addr, len)
        BY <2>5, <3>2 DEF Holding, Covers
      <3> QED BY <1>3, <3>3, FewerBounded
    <2> QED BY <2>7, <2>8
  <1> QED BY <1>4, <1>5

(* No other step adds a copy or starts an addition.                         *)
LEMMA OtherBounded ==
    ASSUME IInv, DuplicatesBounded, NEW addr \in Addr, NEW len \in PrefixLen,
           NEW t \in Threads, NEW c, c.op # "add", call' = [call EXCEPT ![t] = c],
           \A i \in Slots : entries'[i] = entries[i] \/ ~entries'[i].used
    PROVE  Cardinality(Holding(addr, len)') + Cardinality(Storing(addr, len)') <= Cardinality(Adders)
  <1>1. \A u \in Threads : call'[u] = IF u = t THEN c ELSE call[u]
    BY DEF IInv, TypeOK
  <1>2. Storing(addr, len)' \subseteq Storing(addr, len)
    BY <1>1, RcsAssumption DEF Storing
  <1>3. Holding(addr, len)' \subseteq Holding(addr, len)
    BY DEF Holding, Covers
  <1> QED BY <1>2, <1>3, FewerBounded

LEMMA InitBounded == Init => DuplicatesBounded /\ AddRole
  <1> SUFFICES ASSUME Init PROVE DuplicatesBounded /\ AddRole
    OBVIOUS
  <1>1. AddRole
    BY DEF Init, AddRole, Idle
  <1>2. ASSUME NEW addr \in Addr, NEW len \in PrefixLen
        PROVE  Cardinality(Holding(addr, len)) + Cardinality(Storing(addr, len)) <= Cardinality(Adders)
    <2>1. Holding(addr, len) = {}
      BY DEF Init, Holding, Covers, NoEntry
    <2> QED BY <2>1, Sizes, FS_EmptySet
  <1> QED BY <1>1, <1>2 DEF DuplicatesBounded

(* Whatever thread takes the step.                                          *)
LEMMA NextBounded ==
    ASSUME IInv, DuplicatesBounded, AddRole, [Next]_vars
    PROVE  DuplicatesBounded' /\ AddRole'
  <1>0. IInv'
    BY NextIInv
  <1>1. AddRole'
    <2>1. \A t \in Threads : call'[t] = call[t] \/ call'[t].op # "add" \/ t \in Adders
      <3>1. ASSUME NEW t \in Threads, NEW c, call' = [call EXCEPT ![t] = c],
                   c.op # "add" \/ t \in Adders
            PROVE  \A u \in Threads : call'[u] = call[u] \/ call'[u].op # "add" \/ u \in Adders
        BY <3>1 DEF IInv, TypeOK
      <3>2. ASSUME NEW t \in Threads, NEW addr \in Addr, NEW len \in 0..(Width + 1),
                   AddCheck(t, addr, len)
            PROVE  \A u \in Threads : call'[u] = call[u] \/ call'[u].op # "add" \/ u \in Adders
        BY <3>1, <3>2 DEF AddCheck
      <3>3. ASSUME NEW t \in Threads, NEW addr \in Addr, NEW len \in 0..(Width + 1),
                   DelCheck(t, addr, len)
            PROVE  \A u \in Threads : call'[u] = call[u] \/ call'[u].op # "add" \/ u \in Adders
        BY <3>1, <3>3 DEF DelCheck
      <3>4. ASSUME NEW t \in Threads, NEW addr \in Addr, SeekClient(t, addr)
            PROVE  \A u \in Threads : call'[u] = call[u] \/ call'[u].op # "add" \/ u \in Adders
        BY <3>1, <3>4 DEF SeekClient
      <3>5. ASSUME NEW t \in Threads, AddStore(t) \/ DelClear(t) \/ ReadClient(t)
            PROVE  \A u \in Threads : call'[u] = call[u] \/ call'[u].op # "add" \/ u \in Adders
        BY <3>1, <3>5 DEF AddStore, DelClear, ReadClient, Idle
      <3>6. CASE UNCHANGED vars
        BY <3>6 DEF vars
      <3> QED BY <3>2, <3>3, <3>4, <3>5, <3>6 DEF Next
    <2> QED BY <2>1 DEF AddRole
  <1>2. ASSUME NEW addr \in Addr, NEW len \in PrefixLen
        PROVE  Cardinality(Holding(addr, len)') + Cardinality(Storing(addr, len)')
                 <= Cardinality(Adders)
    <2>1. ASSUME NEW t \in Threads, NEW a \in Addr, NEW l \in 0..(Width + 1), AddCheck(t, a, l)
          PROVE  Cardinality(Holding(addr, len)') + Cardinality(Storing(addr, len)')
                   <= Cardinality(Adders)
      BY <1>0, <2>1, CheckBounded
    <2>2. ASSUME NEW t \in Threads, AddStore(t)
          PROVE  Cardinality(Holding(addr, len)') + Cardinality(Storing(addr, len)')
                   <= Cardinality(Adders)
      BY <1>0, <2>2, StoreBounded
    <2>3. CASE UNCHANGED call /\ UNCHANGED entries
      BY <2>3, FewerBounded DEF Holding, Storing, Covers
    <2>4. ASSUME NEW t \in Threads, NEW a \in Addr, NEW l \in 0..(Width + 1), DelCheck(t, a, l)
          PROVE  Cardinality(Holding(addr, len)') + Cardinality(Storing(addr, len)')
                   <= Cardinality(Adders)
      BY <2>3, <2>4, OtherBounded DEF DelCheck
    <2>5. ASSUME NEW t \in Threads, NEW a \in Addr, SeekClient(t, a)
          PROVE  Cardinality(Holding(addr, len)') + Cardinality(Storing(addr, len)')
                   <= Cardinality(Adders)
      BY <2>3, <2>5, OtherBounded DEF SeekClient
    <2>6. ASSUME NEW t \in Threads, DelClear(t) \/ ReadClient(t)
          PROVE  Cardinality(Holding(addr, len)') + Cardinality(Storing(addr, len)')
                   <= Cardinality(Adders)
      <3>1. \A i \in Slots : entries'[i] = entries[i] \/ ~entries'[i].used
        BY <2>6 DEF DelClear, ReadClient, NoEntry, IInv, TypeOK
      <3> QED BY <2>6, <3>1, OtherBounded DEF DelClear, ReadClient, Idle
    <2> QED BY <2>1, <2>2, <2>3, <2>4, <2>5, <2>6 DEF Next, vars
  <1> QED BY <1>1, <1>2 DEF DuplicatesBounded

(* aodvv2_rcs_add searches under one lock and stores under the next, so a   *)
(* client can be stored twice, but never more often than there are threads  *)
(* that add, and only once if there is one.                                 *)
THEOREM CopiesBounded == Spec => []DuplicatesBounded
  <1>1. IInv /\ DuplicatesBounded /\ AddRole /\ [Next]_vars => (DuplicatesBounded /\ AddRole)'
    BY NextBounded
  <1> QED BY <1>1, InitIInv, NextIInv, InitBounded, PTL DEF Spec
=============================================================================
